--------------------------- MODULE MCSessionRisk ---------------------------
(* Small instances of SessionRisk in one run, over every store: s1 alone,  *)
(* for long enough to end and begin again (Long), and turns of s2 with an  *)
(* actor, whose first turn flags it (Short).                               *)
EXTENDS SessionRisk, TLC, Functions

CONSTANTS s1, s2, a1

VARIABLE scenario

Thresholds == [k \in Keys |-> IF k = s2 THEN 1 ELSE 2]

Ttls == [k \in Keys |-> IF k = s1 THEN 2 ELSE 1]

Backend(kind, tags, open) == [kind |-> kind, hashTags |-> tags, failOpen |-> open]

(* Hash tags matter to Redis alone.  PostgreSQL stands for a closed policy. *)
Backends == {Backend("memory", TRUE, TRUE), Backend("redis", TRUE, TRUE),
             Backend("redis", FALSE, TRUE), Backend("postgres", TRUE, FALSE),
             Backend("mysql", TRUE, TRUE)}

Long == [keys |-> {s1}, actor |-> NoActor, deltas |-> {1, 2}, horizon |-> 4, turns |-> 3]
Short == [keys |-> {s2, a1}, actor |-> a1, deltas |-> {1}, horizon |-> 2, turns |-> 3]

Within(sc) ==
    /\ now <= sc.horizon
    /\ SumFunction(turns) <= sc.turns
    /\ \A p \in Processes : calls[p] # Idle =>
          calls[p].session \in sc.keys /\ calls[p].actor = sc.actor /\ calls[p].delta \in sc.deltas
    /\ \A o \in Operators : resets[o] # <<>> => resets[o][1] \in sc.keys

(* A reset without hash tags is three commands: two turns against it.  A   *)
(* row of MySQL is dead for good a tick after the timeout.                 *)
MCInit ==
    /\ Init
    /\ scenario \in CASE ~store.hashTags      -> {[Long EXCEPT !.turns = 2]}
                       [] store.kind = "mysql" -> {[Long EXCEPT !.horizon = 5, !.turns = 2], Short}
                       [] OTHER                -> {Long, Short}

MCNext == Next /\ UNCHANGED scenario /\ Within(scenario)'

MCSpec == MCInit /\ [][MCNext]_<<vars, scenario>>

Symmetry == Permutations(Processes)
=============================================================================
