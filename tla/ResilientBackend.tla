-------------------------- MODULE ResilientBackend --------------------------
(***************************************************************************)
(* ResilientBackend.run of resilience.py as a pipeline shares it: a call   *)
(* to a backend under a failure policy, a timeout and a circuit breaker.   *)
(* Every degraded decision is reported to _on_degraded of the pipeline,    *)
(* which writes an audit event through the same ResilientBackend.          *)
(*                                                                         *)
(* A process is one caller of run.  It waits at two places: for the        *)
(* backend ("calling") and, while its degraded decision is reported, for   *)
(* the audit log ("auditing").  What lies between runs without an await    *)
(* and is one action.  A breaker key stands for an operation category and  *)
(* an instance of it (one per detector); Audit is the key of the audit     *)
(* log.                                                                    *)
(***************************************************************************)
EXTENDS Integers, FiniteSets

CONSTANTS
    Keys,              \* breaker keys: (operation, instance)
    Audit,             \* the key of the audit log
    Processes,         \* concurrent callers of run
    FailureThreshold,  \* FailurePolicy.failure_threshold
    Recovery,          \* FailurePolicy.recovery_seconds, in ticks
    Timeout,           \* FailurePolicy.timeout_seconds, in ticks
    MaxTime,           \* bound: horizon of the clock
    MaxCalls           \* bound: calls of run a process makes

(* What FailurePolicy.__post_init__ accepts; timeout_seconds is not None.  *)
ASSUME PolicyAssumption ==
    /\ Audit \in Keys
    /\ FailureThreshold \in Nat \ {0}
    /\ Recovery \in Nat \ {0}
    /\ Timeout \in Nat \ {0}
    /\ MaxTime \in Nat
    /\ MaxCalls \in Nat

VARIABLES
    policy,      \* FailurePolicy: "open" or "closed" for each key, fixed
    now,         \* time.monotonic(), from 1
    breakers,    \* _CircuitBreaker of each key; openedAt 0 is None
    calls,       \* run, per process
    attempts,    \* calls of run begun, per process
    answers,     \* what the last call of each process came to
    observed     \* history of each key: see NotObserved

vars == <<policy, now, breakers, calls, attempts, answers, observed>>

Never == 0

Breaker == [failures : Nat, openedAt : Nat]

Closed == [failures |-> 0, openedAt |-> Never]

(* reported is the bucket of the caller, logged whether the audit log took *)
(* the backend_degraded event.                                             *)
Idle == [pc |-> "idle"]

Running == [pc : {"calling", "auditing"}, key : Keys, began : Nat, since : Nat,
            reported : SUBSET Keys, logged : BOOLEAN]

Awaited(call) == IF call.pc = "auditing" THEN Audit ELSE call.key

(* No answer yet, a value, the fallback, BackendUnavailable(by), cancelled. *)
Outcomes == {"none", "value", "fallback", "raised", "cancelled"}

Answer == [outcome : Outcomes, key : Keys, by : Keys, reported : SUBSET Keys,
           logged : BOOLEAN]

NoAnswer == [outcome |-> "none", key |-> Audit, by |-> Audit, reported |-> {},
             logged |-> FALSE]

(* trippedAt: when the breaker last left the closed state; streak: failures *)
(* since the last value; trials: calls let through since the breaker was   *)
(* last open, as long as none of them has come back.                       *)
NotObserved == [trippedAt |-> 0, streak |-> 0, trials |-> 0]

Observation == [trippedAt : Nat, streak : Nat, trials : Nat]

Init ==
    /\ policy \in [Keys -> {"open", "closed"}]
    /\ now = 1
    /\ breakers = [k \in Keys |-> Closed]
    /\ calls = [p \in Processes |-> Idle]
    /\ attempts = [p \in Processes |-> 0]
    /\ answers = [p \in Processes |-> NoAnswer]
    /\ observed = [k \in Keys |-> NotObserved]

----------------------------------------------------------------------------
(* The circuit breaker                                                     *)

Tripped(b) == b.openedAt # Never /\ now - b.openedAt < Recovery

(* is_tripped: reading the breaker after recovery_seconds closes it.       *)
IsTripped(b) == IF Tripped(b) THEN b ELSE [b EXCEPT !.openedAt = Never]

(* Mutant: what is kept is the instant of recovery.                        *)
RecordFailure_Deadline(b) ==
    [failures |-> b.failures + 1,
     openedAt |-> IF b.failures + 1 >= FailureThreshold THEN now + Recovery ELSE b.openedAt]

RecordFailure(b) ==
    [failures |-> b.failures + 1,
     openedAt |-> IF b.failures + 1 >= FailureThreshold THEN now ELSE b.openedAt]

(* History: a call of k is let through; k fails; k answers.                *)
LetThrough(o, b) ==
    [o EXCEPT !.trials = IF b.openedAt # Never \/ @ > 0 THEN @ + 1 ELSE 0]

SawFailure(o, before, after) ==
    [o EXCEPT !.streak = @ + 1,
              !.trials = 0,
              !.trippedAt = IF before.openedAt = Never /\ after.openedAt # Never
                            THEN now ELSE @]

SawValue(o) == [o EXCEPT !.streak = 0, !.trials = 0]

----------------------------------------------------------------------------
(* How a call ends                                                         *)

End(p, call, outcome, by) ==
    /\ calls' = [calls EXCEPT ![p] = Idle]
    /\ answers' = [answers EXCEPT ![p] =
          [outcome |-> outcome, key |-> call.key, by |-> by,
           reported |-> call.reported, logged |-> call.logged]]

(* The end of _degrade: the policy of the operation decides.               *)
Decide(p, call) ==
    \/ policy[call.key] = "closed" /\ End(p, call, "raised", call.key)
    \/ policy[call.key] = "open"   /\ End(p, call, "fallback", call.key)

(* Mutants: the degraded audit write not put in the caller's bucket; the   *)
(* error of a closed audit policy swallowed by the callback.               *)
DegradeAudit_Unreported(p, call) ==
    \/ policy[Audit] = "closed" /\ End(p, call, "raised", Audit)
    \/ policy[Audit] = "open"   /\ Decide(p, call)

DegradeAudit_Swallowed(p, call) ==
    Decide(p, [call EXCEPT !.reported = @ \cup {Audit}])

(* _degrade of the audit log: the callback fills the bucket and stops      *)
(* there.  A closed policy raises, out of the callback if this audit write *)
(* was reporting another degradation.                                      *)
DegradeAudit(p, call) ==
    LET reported == [call EXCEPT !.reported = @ \cup {Audit}] IN
    \/ policy[Audit] = "closed" /\ End(p, reported, "raised", Audit)
    \/ policy[Audit] = "open"   /\ Decide(p, reported)

(* _degrade: the bucket at once, then the audit event through run, then    *)
(* the policy.  bs and obs are the breakers and histories so far.          *)
Degrade(p, call, bs, obs) ==
    LET reported == [call EXCEPT !.reported = @ \cup {call.key}]
        auditing == [reported EXCEPT !.pc = "auditing", !.since = now]
    IN  \/ /\ call.key = Audit
           /\ DegradeAudit(p, call)
           /\ breakers' = bs /\ observed' = obs
        \/ /\ call.key # Audit /\ Tripped(bs[Audit])
           /\ DegradeAudit(p, reported)
           /\ breakers' = bs /\ observed' = obs
        \/ /\ call.key # Audit /\ ~Tripped(bs[Audit])
           /\ calls' = [calls EXCEPT ![p] = auditing]
           /\ breakers' = [bs EXCEPT ![Audit] = IsTripped(@)]
           /\ observed' = [obs EXCEPT ![Audit] = LetThrough(@, bs[Audit])]
           /\ UNCHANGED answers

----------------------------------------------------------------------------
(* run                                                                     *)

Starting(k) == [pc |-> "calling", key |-> k, began |-> now, since |-> now,
                reported |-> {}, logged |-> FALSE]

(* The breaker lets the call through.                                      *)
Begin(p, k) ==
    /\ calls[p] = Idle /\ attempts[p] < MaxCalls
    /\ ~Tripped(breakers[k])
    /\ calls' = [calls EXCEPT ![p] = Starting(k)]
    /\ breakers' = [breakers EXCEPT ![k] = IsTripped(@)]
    /\ observed' = [observed EXCEPT ![k] = LetThrough(@, breakers[k])]
    /\ attempts' = [attempts EXCEPT ![p] = @ + 1]
    /\ UNCHANGED <<now, answers>>

(* Mutants: a refusal counted as a failure of the backend; a refusal not   *)
(* reported, as no call was made.                                          *)
Refuse_Counted(p, k) ==
    /\ calls[p] = Idle /\ attempts[p] < MaxCalls
    /\ Tripped(breakers[k])
    /\ Degrade(p, Starting(k), [breakers EXCEPT ![k] = RecordFailure(@)], observed)
    /\ attempts' = [attempts EXCEPT ![p] = @ + 1]
    /\ UNCHANGED now

(* The breaker is open: the policy is applied without calling the backend. *)
Refuse(p, k) ==
    /\ calls[p] = Idle /\ attempts[p] < MaxCalls
    /\ Tripped(breakers[k])
    /\ Degrade(p, Starting(k), breakers, observed)
    /\ attempts' = [attempts EXCEPT ![p] = @ + 1]
    /\ UNCHANGED now

(* The backend answers: run returns, or the report is written and _degrade *)
(* goes on.  The breaker is not told.                                      *)
Return(p) ==
    LET call == calls[p] IN
    /\ call # Idle
    /\ observed' = [observed EXCEPT ![Awaited(call)] = SawValue(@)]
    /\ \/ call.pc = "calling" /\ End(p, call, "value", call.key)
       \/ call.pc = "auditing" /\ Decide(p, [call EXCEPT !.logged = TRUE])
    /\ UNCHANGED <<now, breakers, attempts>>

(* The backend fails, or wait_for gives up on it.                          *)
Fail(p) ==
    LET call == calls[p]
        k    == Awaited(call)
        bs   == [breakers EXCEPT ![k] = RecordFailure(@)]
        obs  == [observed EXCEPT ![k] = SawFailure(@, breakers[k], bs[k])]
    IN  /\ call # Idle
        /\ \/ call.pc = "calling" /\ Degrade(p, call, bs, obs)
           \/ /\ call.pc = "auditing" /\ DegradeAudit(p, call)
              /\ breakers' = bs /\ observed' = obs
        /\ UNCHANGED <<now, attempts>>

(* The caller is cancelled: no policy, no failure counted.                 *)
Cancel(p) ==
    LET call == calls[p] IN
    /\ call # Idle
    /\ End(p, call, "cancelled", call.key)
    /\ observed' = [observed EXCEPT ![Awaited(call)].trials = 0]
    /\ UNCHANGED <<now, breakers, attempts>>

(* A health report reads every breaker.                                    *)
BreakerStates ==
    /\ breakers' = [k \in Keys |-> IsTripped(breakers[k])]
    /\ UNCHANGED <<now, calls, attempts, answers, observed>>

(* Mutant: only the first of the two waits is bounded.                     *)
Overdue_CallingOnly(p) ==
    calls[p] # Idle /\ calls[p].pc = "calling" /\ now >= calls[p].since + Timeout

Overdue(p) == calls[p] # Idle /\ now >= calls[p].since + Timeout

(* wait_for fires before time goes past its deadline.                      *)
Tick ==
    /\ now < MaxTime
    /\ \A p \in Processes : ~Overdue(p)
    /\ now' = now + 1
    /\ UNCHANGED <<breakers, calls, attempts, answers, observed>>

----------------------------------------------------------------------------
Run(p) ==
    \/ \E k \in Keys : Begin(p, k) \/ Refuse(p, k)
    \/ Return(p)
    \/ Fail(p)
    \/ Cancel(p)

Next ==
    /\ \/ \E p \in Processes : Run(p)
       \/ BreakerStates
       \/ Tick
    /\ UNCHANGED policy

Spec == Init /\ [][Next]_vars

----------------------------------------------------------------------------
TypeOK ==
    /\ policy \in [Keys -> {"open", "closed"}]
    /\ now \in Nat
    /\ breakers \in [Keys -> Breaker]
    /\ \A k \in Keys : breakers[k].openedAt <= now
    /\ calls \in [Processes -> {Idle} \cup Running]
    /\ attempts \in [Processes -> Nat]
    /\ answers \in [Processes -> Answer]
    /\ observed \in [Keys -> Observation]

(* Calls that were in flight when a breaker tripped may fail after it and  *)
(* move its instant, but only those: a breaker that trips refuses calls    *)
(* for less than recovery_seconds and one timeout, whatever is refused in  *)
(* the meantime.                                                           *)
OpenPeriodIsBounded ==
    \A k \in Keys : Tripped(breakers[k]) =>
        now < observed[k].trippedAt + Timeout + Recovery

(* Nothing is degraded in silence: a caller that proceeds without its      *)
(* check, or is refused for want of it, has the degradation in its bucket, *)
(* and it is in the audit log too unless the bucket says the log failed.   *)
DegradedIsReported ==
    \A p \in Processes : answers[p].outcome \in {"fallback", "raised"} =>
        /\ answers[p].key \in answers[p].reported
        /\ answers[p].logged \/ Audit \in answers[p].reported

(* An unreachable backend is served as its policy says, and so is the      *)
(* audit log met on the way: a fallback only where every category reported *)
(* to the caller is open, an error only in the name of a closed one that   *)
(* was.                                                                    *)
PolicyDecides ==
    \A p \in Processes : LET answer == answers[p] IN
        /\ answer.outcome = "fallback" => \A k \in answer.reported : policy[k] = "open"
        /\ answer.outcome = "raised" => policy[answer.by] = "closed"
                                        /\ answer.by \in answer.reported

(* No call lasts longer than two timeouts, its own and that of the audit   *)
(* write that reports it, however long the backends are silent.            *)
RunReturnsInTime ==
    \A p \in Processes : calls[p] # Idle => now <= calls[p].began + 2 * Timeout

(* A breaker opens after failure_threshold consecutive failures.           *)
TripsOnConsecutiveFailures ==
    [][\A k \in Keys : breakers[k].openedAt = Never /\ breakers'[k].openedAt # Never =>
          observed'[k].streak >= FailureThreshold]_vars
=============================================================================
