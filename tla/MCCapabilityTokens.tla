------------------------- MODULE MCCapabilityTokens -------------------------
(* Small instances of CapabilityTokens, all of them in one run: a scenario *)
(* fixes the nonce store, the failure policy, the durations and who acts,  *)
(* and never changes.  The properties are those of CapabilityTokens, whose *)
(* constants are here the largest any scenario uses.                       *)
EXTENDS CapabilityTokens, TLC

CONSTANTS n1, n2, n3, n4, p1, p2, p3, r1, r2, a1, read, write

VARIABLE scenario

(* p3 serves the audience a1; p1 and p2 are a single-service deployment.   *)
MixedServices == [p \in Processes |-> IF p = p3 THEN a1 ELSE NoAudience]

(* Up to four authorizations by two callers of a token that lives two      *)
(* seconds, over each store; one of the three with an open policy.         *)
Replay(store, failOpen, uses) ==
    [store |-> store, failOpen |-> failOpen, ttls |-> {4}, uses |-> uses,
     depth |-> 0, rttl |-> 6, tps |-> 2, horizon |-> 7, attempts |-> 2,
     callers |-> {p1, p2}, revokers |-> {}, drawn |-> 1,
     auds |-> {}, actions |-> {read}]

(* Two racing revocations of a subject and one authorization.  The life of *)
(* a revocation exceeds that of a token; over SQL, by the timeout as well. *)
Revocation(store, rttl) ==
    [store |-> store, failOpen |-> FALSE, ttls |-> {3}, uses |-> {1},
     depth |-> 0, rttl |-> rttl, tps |-> 1, horizon |-> 8, attempts |-> 1,
     callers |-> {p1}, revokers |-> {r1, r2}, drawn |-> 1,
     auds |-> {}, actions |-> {read}]

(* Chains of up to two delegations from one token of two scopes.           *)
Delegation ==
    [store |-> "redis", failOpen |-> FALSE, ttls |-> {1}, uses |-> {1, 2},
     depth |-> 2, rttl |-> 6, tps |-> 1, horizon |-> 4, attempts |-> 1,
     callers |-> {p3}, revokers |-> {}, drawn |-> 4,
     auds |-> {a1}, actions |-> {read, write}]

Scenarios == {Replay("memory", FALSE, {2}), Replay("redis", TRUE, {1}),
              Replay("sql", FALSE, {2}),
              Revocation("memory", 4), Revocation("redis", 4), Revocation("sql", 5),
              Delegation}

Under(sc) == INSTANCE CapabilityTokens WITH
    Store <- sc.store, FailOpen <- sc.failOpen, Ttls <- sc.ttls,
    UseLimits <- sc.uses, MaxDepth <- sc.depth, RevocationTtl <- sc.rttl,
    TicksPerSecond <- sc.tps, MaxTime <- sc.horizon, MaxCalls <- sc.attempts,
    Audiences <- sc.auds, Actions <- sc.actions

(* Next, of those the scenario names.  Nonces are random: no run tells     *)
(* them apart, so they are drawn in one order.                             *)
MCInit == Init /\ scenario \in Scenarios

MCNext ==
    \E sc \in Scenarios :
        /\ scenario = sc /\ UNCHANGED scenario
        /\ \/ /\ Cardinality(Issued) < sc.drawn
              /\ Under(sc)!Mint
              /\ Issued' \in {{n1}, {n1, n2}, {n1, n2, n3}, Nonces}
              /\ \A n \in Issued' : tokens'[n].root = n1
           \/ \E p \in sc.callers : Under(sc)!Authorize(p)
           \/ \E r \in sc.revokers : Under(sc)!RevokeSubject(r)
           \/ Under(sc)!MemorySweep
           \/ \E cutoff \in 1..now : Under(sc)!SqlCleanup(cutoff)
           \/ Under(sc)!Tick

MCSpec == MCInit /\ [][MCNext]_<<vars, scenario>>

(* Revokers are never told apart.                                          *)
Symmetry == Permutations(Revokers)
=============================================================================
