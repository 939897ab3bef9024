--------------------------- MODULE MCKeyRotation ---------------------------
(* Small instances of KeyRotation in one run: each procedure of the        *)
(* operator.  One that waits by the clock needs a provider that answers.   *)
EXTENDS KeyRotation, TLC

VARIABLE scenario

Scenarios == {[procedure |-> "confirmed", fails |-> TRUE, interval |-> 1, horizon |-> 6],
              [procedure |-> "timed", fails |-> FALSE, interval |-> 2, horizon |-> 8]}

Under(sc) == INSTANCE KeyRotation WITH
    Procedure <- sc.procedure, MayFail <- sc.fails, Interval <- sc.interval,
    Horizon <- sc.horizon

MCInit == RotationInit /\ scenario \in Scenarios

MCNext == \E sc \in Scenarios : scenario = sc /\ Under(sc)!RotationNext /\ UNCHANGED scenario

MCSpec == MCInit /\ [][MCNext]_<<rotationVars, scenario>>

Symmetry == Permutations(Guards)
=============================================================================
