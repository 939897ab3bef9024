--------------------------- MODULE SessionContract ---------------------------
(***************************************************************************)
(* What SessionStore of sessions/stores.py promises of the cumulative risk *)
(* of a key, a session or an actor, whichever backend keeps it:            *)
(*   - an update adds to what is left of the risk and flags the key once   *)
(*     the threshold is crossed;                                           *)
(*   - the flag is sticky: only a reset, or the end of the session, takes  *)
(*     it away (Redis keeps less: time alone may take it from a session    *)
(*     that lives, an update never does);                                  *)
(*   - a session that has ended leaves nothing: the next update starts     *)
(*     from zero, unflagged.                                               *)
(* A store that reads the clock before its round trip may still see a      *)
(* session that has just ended: such a session is "lapsed", and an update  *)
(* may take it for live or for gone.                                       *)
(***************************************************************************)
EXTENDS Integers

CONSTANTS
    Keys,        \* sessions and actors
    Deltas,      \* the risk of one turn
    Threshold    \* the flag threshold of each key

VARIABLES
    sticky,      \* whether the store keeps the flag as long as the session
    status,      \* "absent", "live" or "lapsed"
    risk,        \* the risk as of the last update
    flagged

vars == <<sticky, status, risk, flagged>>

Init ==
    /\ sticky \in BOOLEAN
    /\ status = [k \in Keys |-> "absent"]
    /\ risk = [k \in Keys |-> 0]
    /\ flagged = [k \in Keys |-> FALSE]

Update(k, before, was) ==
    \E left \in 0..before, delta \in Deltas :
        /\ status' = [status EXCEPT ![k] = "live"]
        /\ risk' = [risk EXCEPT ![k] = left + delta]
        /\ flagged' = [flagged EXCEPT ![k] = was \/ left + delta >= Threshold[k]]

Charge(k) ==
    \/ status[k] # "absent" /\ Update(k, risk[k], flagged[k])
    \/ status[k] # "live"   /\ Update(k, 0, FALSE)

(* A reset, whole.                                                         *)
Reset(k) ==
    /\ status' = [status EXCEPT ![k] = "absent"]
    /\ risk' = [risk EXCEPT ![k] = 0]
    /\ flagged' = [flagged EXCEPT ![k] = FALSE]

(* A reset that has not taken the flag yet: interrupted here, it leaves    *)
(* the session flagged.                                                    *)
ResetRisk(k) ==
    /\ risk' = [risk EXCEPT ![k] = 0]
    /\ UNCHANGED <<status, flagged>>

(* Time ends a session, removes what is left of it, or takes its flag.     *)
Lapse(k) ==
    \/ status'[k] = "lapsed" /\ status[k] # "absent"
       /\ risk'[k] = risk[k] /\ flagged'[k] = flagged[k]
    \/ status'[k] = "absent" /\ risk'[k] = 0 /\ ~flagged'[k]
    \/ ~sticky /\ status'[k] = status[k] /\ risk'[k] = risk[k] /\ ~flagged'[k]
    \/ status'[k] = status[k] /\ risk'[k] = risk[k] /\ flagged'[k] = flagged[k]

Next ==
    /\ \/ \E k \in Keys : Charge(k) \/ Reset(k) \/ ResetRisk(k)
       \/ \A k \in Keys : Lapse(k)
    /\ UNCHANGED sticky

Spec == Init /\ [][Next]_vars
=============================================================================
