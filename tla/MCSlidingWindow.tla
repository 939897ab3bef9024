-------------------------- MODULE MCSlidingWindow --------------------------
(* Small instances of SlidingWindow in one run: each store, with a         *)
(* topology that is known; and Redis with an INFO that may fail.           *)
EXTENDS SlidingWindow, TLC

VARIABLE scenario

Scenarios == {[stores |-> {"memory", "redis", "sql"}, detects |-> {"plain"},
               horizon |-> 7, checks |-> 3],
              [stores |-> {"redis"}, detects |-> {"plain", "tagged"},
               horizon |-> 4, checks |-> 3]}

Within(sc) == INSTANCE SlidingWindow WITH
    Stores <- sc.stores, Detects <- sc.detects, MaxTime <- sc.horizon, MaxChecks <- sc.checks

MCInit == \E sc \in Scenarios : scenario = sc /\ Within(sc)!Init

MCNext == \E sc \in Scenarios : scenario = sc /\ Within(sc)!Next /\ UNCHANGED scenario

MCSpec == MCInit /\ [][MCNext]_<<vars, scenario>>

Symmetry == Permutations(Processes)
=============================================================================
