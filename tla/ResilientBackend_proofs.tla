----------------------- MODULE ResilientBackend_proofs -----------------------
(* What TLC checks of ResilientBackend on a small instance, proved for     *)
(* every value of its constants.                                           *)
EXTENDS ResilientBackend, FileAuditLogger, TLAPS

(* What a caller of run has been told before it waits: nothing for the     *)
(* backend; that the backend failed, one timeout later at most, for the    *)
(* audit log.  The report is not in the log before the log has answered.   *)
Told(call) ==
    /\ call.pc = "calling" => call.reported = {} /\ call.since = call.began
    /\ call.pc = "auditing" => /\ call.key # Audit
                               /\ call.reported = {call.key}
                               /\ call.since <= call.began + Timeout
    /\ ~call.logged

(* No wait outlives the timeout of wait_for.                               *)
InTime(call) == call.since <= now /\ now <= call.since + Timeout

CallsInv == \A p \in Processes : calls[p] # Idle => Told(calls[p]) /\ InTime(calls[p])

(* While a breaker is open, or has not been read since it recovered, those *)
(* who wait for its backend are those who waited when it tripped: the last *)
(* of their failures is within a timeout of that.                          *)
BreakersInv ==
    \A k \in Keys : breakers[k].openedAt # Never =>
        /\ breakers[k].openedAt <= observed[k].trippedAt + Timeout
        /\ \A p \in Processes : calls[p] # Idle /\ Awaited(calls[p]) = k =>
              calls[p].since <= observed[k].trippedAt

(* The two properties of answers, as one of each answer.                   *)
Sound(a) ==
    /\ a.outcome \in {"fallback", "raised"} =>
          a.key \in a.reported /\ (a.logged \/ Audit \in a.reported)
    /\ a.outcome = "fallback" => \A k \in a.reported : policy[k] = "open"
    /\ a.outcome = "raised" => policy[a.by] = "closed" /\ a.by \in a.reported

AnswersInv == \A p \in Processes : Sound(answers[p])

BackendInv == TypeOK /\ now >= 1 /\ CallsInv /\ BreakersInv /\ AnswersInv

----------------------------------------------------------------------------
(* A process that is not idle is inside run.                               *)
LEMMA WaitingIsRunning ==
    ASSUME NEW p \in Processes, calls \in [Processes -> {Idle} \cup Running], calls[p] # Idle
    PROVE  calls[p] \in Running
  OBVIOUS

(* A running call is not idle, and waits for a key.                        *)
LEMMA RunningIsNotIdle ==
    ASSUME NEW call \in Running
    PROVE  /\ call # Idle /\ Awaited(call) \in Keys
           /\ call.pc \in {"calling", "auditing"} /\ call.key \in Keys
  BY PolicyAssumption DEF Running, Idle, Awaited

(* The breaker operators keep a breaker a breaker, not opened in the       *)
(* future; reading one that is not tripped closes it, and nothing else     *)
(* about it moves the instant it opened except a failure, to now.          *)
LEMMA BreakerOperators ==
    ASSUME now \in Nat, now >= 1, NEW b \in Breaker, b.openedAt <= now
    PROVE  /\ IsTripped(b) \in Breaker
           /\ IsTripped(b).openedAt \in {Never, b.openedAt}
           /\ ~Tripped(b) => IsTripped(b).openedAt = Never
           /\ RecordFailure(b) \in Breaker
           /\ RecordFailure(b).openedAt \in {now, b.openedAt}
<1> USE PolicyAssumption DEF Breaker, Never
<1>1. b.failures \in Nat /\ b.openedAt \in Nat
  OBVIOUS
<1>2. /\ IsTripped(b) \in Breaker
      /\ IsTripped(b).openedAt \in {Never, b.openedAt}
      /\ ~Tripped(b) => IsTripped(b).openedAt = Never
  BY <1>1 DEF IsTripped
<1>3. /\ RecordFailure(b) \in Breaker
      /\ RecordFailure(b).openedAt \in {now, b.openedAt}
  BY <1>1 DEF RecordFailure
<1> QED BY <1>2, <1>3

(* The history operators keep a history a history, and only the failure    *)
(* that opens a breaker moves the instant it tripped.                      *)
LEMMA HistoryOperators ==
    ASSUME now \in Nat, NEW o \in Observation, NEW b \in Breaker, NEW c \in Breaker
    PROVE  /\ LetThrough(o, b) \in Observation
           /\ LetThrough(o, b).trippedAt = o.trippedAt
           /\ SawValue(o) \in Observation
           /\ SawValue(o).trippedAt = o.trippedAt
           /\ SawFailure(o, b, c) \in Observation
           /\ SawFailure(o, b, c).trippedAt =
                 IF b.openedAt = Never /\ c.openedAt # Never THEN now ELSE o.trippedAt
<1> USE DEF Observation, Breaker
<1>1. o.trippedAt \in Nat /\ o.streak \in Nat /\ o.trials \in Nat
  OBVIOUS
<1>2. /\ LetThrough(o, b) \in Observation
      /\ LetThrough(o, b).trippedAt = o.trippedAt
  BY <1>1 DEF LetThrough
<1>3. /\ SawValue(o) \in Observation
      /\ SawValue(o).trippedAt = o.trippedAt
  BY <1>1 DEF SawValue
<1>4. /\ SawFailure(o, b, c) \in Observation
      /\ SawFailure(o, b, c).trippedAt =
            IF b.openedAt = Never /\ c.openedAt # Never THEN now ELSE o.trippedAt
  <2> DEFINE t == IF b.openedAt = Never /\ c.openedAt # Never THEN now ELSE o.trippedAt
  <2>1. t \in Nat
    BY <1>1
  <2>2. SawFailure(o, b, c) = [o EXCEPT !.streak = @ + 1, !.trials = 0, !.trippedAt = t]
    BY DEF SawFailure
  <2> HIDE DEF t
  <2>3. PICK x \in Nat, y \in Nat, z \in Nat : o = [trippedAt |-> x, streak |-> y, trials |-> z]
    OBVIOUS
  <2>4. SawFailure(o, b, c) = [trippedAt |-> t, streak |-> y + 1, trials |-> 0]
    BY <2>1, <2>2, <2>3
  <2>5. SawFailure(o, b, c) \in Observation /\ SawFailure(o, b, c).trippedAt = t
    BY <2>1, <2>3, <2>4
  <2> QED BY <2>5 DEF t
<1> QED BY <1>2, <1>3, <1>4

----------------------------------------------------------------------------
(* A caller gets an answer that is sound, and is idle again.               *)
Answered(p) ==
    /\ calls' = [calls EXCEPT ![p] = Idle]
    /\ \E a \in Answer : Sound(a) /\ answers' = [answers EXCEPT ![p] = a]

(* End hands over the bucket of the call.                                  *)
LEMMA EndAnswers ==
    ASSUME NEW p \in Processes, NEW call \in Running, NEW outcome \in Outcomes,
           NEW by \in Keys, End(p, call, outcome, by),
           outcome \in {"fallback", "raised"} =>
               call.key \in call.reported /\ (call.logged \/ Audit \in call.reported),
           outcome = "fallback" => \A k \in call.reported : policy[k] = "open",
           outcome = "raised" => policy[by] = "closed" /\ by \in call.reported
    PROVE  Answered(p)
<1> DEFINE a == [outcome |-> outcome, key |-> call.key, by |-> by,
                 reported |-> call.reported, logged |-> call.logged]
<1>1. a \in Answer
  BY DEF Answer, Running
<1>2. Sound(a)
  BY DEF Sound
<1>3. calls' = [calls EXCEPT ![p] = Idle] /\ answers' = [answers EXCEPT ![p] = a]
  BY DEF End
<1> QED BY <1>1, <1>2, <1>3 DEF Answered

(* The policy decides for a call whose degradations are all reported.      *)
LEMMA DecideAnswers ==
    ASSUME NEW p \in Processes, NEW call \in Running, Decide(p, call),
           call.key \in call.reported, call.logged \/ Audit \in call.reported,
           \A k \in call.reported \ {call.key} : policy[k] = "open"
    PROVE  Answered(p)
<1>1. CASE policy[call.key] = "closed" /\ End(p, call, "raised", call.key)
  BY <1>1, EndAnswers DEF Outcomes, Running
<1>2. CASE policy[call.key] = "open" /\ End(p, call, "fallback", call.key)
  BY <1>2, EndAnswers DEF Outcomes, Running
<1> QED BY <1>1, <1>2 DEF Decide

(* The audit log fails a caller that has reported its own degradation, or  *)
(* whose call it was.                                                      *)
LEMMA DegradeAuditAnswers ==
    ASSUME NEW p \in Processes, NEW call \in Running, DegradeAudit(p, call),
           call.reported \subseteq {call.key},
           call.key \in call.reported \/ call.key = Audit
    PROVE  Answered(p)
<1> DEFINE reported == [call EXCEPT !.reported = @ \cup {Audit}]
<1>1. /\ reported \in Running /\ reported.key = call.key
      /\ reported.reported = call.reported \cup {Audit}
  BY PolicyAssumption DEF Running
<1> HIDE DEF reported
<1>2. CASE policy[Audit] = "closed" /\ End(p, reported, "raised", Audit)
  BY <1>1, <1>2, EndAnswers, PolicyAssumption DEF Outcomes
<1>3. CASE policy[Audit] = "open" /\ Decide(p, reported)
  BY <1>1, <1>3, DecideAnswers
<1> QED BY <1>2, <1>3 DEF DegradeAudit, reported

(* What is reported while an audit event is on its way.                    *)
Auditing(call) ==
    [[call EXCEPT !.reported = @ \cup {call.key}] EXCEPT !.pc = "auditing", !.since = now]

(* The degradation of a call that has reported nothing yet ends it, with   *)
(* the breakers as they are, or makes it wait for the audit log.           *)
LEMMA DegradeEffect ==
    ASSUME NEW p \in Processes, NEW call \in Running, NEW bs, NEW obs,
           call.reported = {}, Degrade(p, call, bs, obs)
    PROVE  \/ Answered(p) /\ breakers' = bs /\ observed' = obs
           \/ /\ call.key # Audit /\ ~Tripped(bs[Audit])
              /\ calls' = [calls EXCEPT ![p] = Auditing(call)]
              /\ breakers' = [bs EXCEPT ![Audit] = IsTripped(@)]
              /\ observed' = [obs EXCEPT ![Audit] = LetThrough(@, bs[Audit])]
              /\ UNCHANGED answers
<1> DEFINE reported == [call EXCEPT !.reported = @ \cup {call.key}]
<1>1. /\ reported \in Running /\ reported.key = call.key
      /\ reported.reported = {call.key}
  BY DEF Running
<1> HIDE DEF reported
<1>2. CASE call.key = Audit /\ DegradeAudit(p, call) /\ breakers' = bs /\ observed' = obs
  BY <1>2, DegradeAuditAnswers
<1>3. CASE /\ call.key # Audit /\ DegradeAudit(p, reported)
           /\ breakers' = bs /\ observed' = obs
  BY <1>1, <1>3, DegradeAuditAnswers
<1> QED BY <1>1, <1>2, <1>3 DEF Degrade, reported, Auditing

----------------------------------------------------------------------------
(* What the invariant asks of one breaker and its history, b and o, once   *)
(* p has stopped waiting.                                                  *)
Kept(k, b, o, p) ==
    /\ b \in Breaker /\ o \in Observation
    /\ b.openedAt <= now
    /\ b.openedAt # Never =>
          /\ b.openedAt <= o.trippedAt + Timeout
          /\ \A q \in Processes \ {p} : calls[q] # Idle /\ Awaited(calls[q]) = k =>
                calls[q].since <= o.trippedAt

(* A breaker nobody touches is as it was.                                  *)
LEMMA UntouchedIsKept ==
    ASSUME BackendInv, NEW k \in Keys, NEW p \in Processes
    PROVE  Kept(k, breakers[k], observed[k], p)
  BY DEF BackendInv, TypeOK, BreakersInv, Kept

(* Reading a breaker keeps it, whatever the history without its trip.      *)
LEMMA ReadIsKept ==
    ASSUME BackendInv, NEW k \in Keys, NEW p \in Processes,
           NEW b, NEW o, Kept(k, b, o, p),
           NEW o2 \in Observation, o2.trippedAt = o.trippedAt
    PROVE  Kept(k, b, o2, p) /\ Kept(k, IsTripped(b), o2, p)
<1>1. /\ IsTripped(b) \in Breaker
      /\ IsTripped(b).openedAt \in {Never, b.openedAt}
  BY BreakerOperators DEF BackendInv, TypeOK, Kept
<1>2. IsTripped(b).openedAt <= now
  BY <1>1 DEF BackendInv, TypeOK, Kept, Never
<1> QED BY <1>1, <1>2 DEF Kept

(* The failure of p moves the instant a breaker opened to now: p waited    *)
(* when it tripped, or that is now.                                        *)
LEMMA FailureIsKept ==
    ASSUME BackendInv, NEW p \in Processes, calls[p] # Idle,
           NEW k \in Keys, k = Awaited(calls[p])
    PROVE  Kept(k, RecordFailure(breakers[k]),
                SawFailure(observed[k], breakers[k], RecordFailure(breakers[k])), p)
<1> DEFINE b == RecordFailure(breakers[k])
           o == SawFailure(observed[k], breakers[k], b)
<1> SUFFICES Kept(k, b, o, p)
  OBVIOUS
<1> USE PolicyAssumption
<1>1. /\ breakers[k] \in Breaker /\ breakers[k].openedAt <= now
      /\ observed[k] \in Observation /\ now \in Nat /\ now >= 1
  BY DEF BackendInv, TypeOK
<1>2. b \in Breaker /\ b.openedAt \in {now, breakers[k].openedAt}
  BY <1>1, BreakerOperators
<1>3. /\ o \in Observation
      /\ o.trippedAt = IF breakers[k].openedAt = Never /\ b.openedAt # Never
                       THEN now ELSE observed[k].trippedAt
  <2> HIDE DEF b
  <2> QED
    BY <1>1, <1>2, HistoryOperators
<1> HIDE DEF b, o
<1>4. \A q \in Processes : calls[q] # Idle =>
          /\ calls[q].since \in Nat /\ calls[q].since <= now
          /\ now <= calls[q].since + Timeout
  BY DEF BackendInv, TypeOK, CallsInv, InTime, Running
<1>5. CASE breakers[k].openedAt = Never
  BY <1>1, <1>2, <1>3, <1>4, <1>5 DEF Kept, Never
<1>6. CASE breakers[k].openedAt # Never
  <2>1. o.trippedAt = observed[k].trippedAt /\ o.trippedAt \in Nat
    BY <1>3, <1>6 DEF Observation
  <2>2. /\ breakers[k].openedAt <= o.trippedAt + Timeout
        /\ \A q \in Processes : calls[q] # Idle /\ Awaited(calls[q]) = k =>
              calls[q].since <= o.trippedAt
    BY <1>6, <2>1 DEF BackendInv, BreakersInv
  <2>3. now <= o.trippedAt + Timeout
    BY <1>1, <1>4, <2>1, <2>2
  <2> QED BY <1>1, <1>2, <1>3, <2>1, <2>2, <2>3 DEF Kept
<1> QED BY <1>5, <1>6

(* Every breaker kept, and p answered: the invariant again.                *)
LEMMA AnsweredKeepsInv ==
    ASSUME BackendInv, NEW p \in Processes, Answered(p), UNCHANGED <<policy, now>>,
           attempts' \in [Processes -> Nat],
           breakers' \in [Keys -> Breaker], observed' \in [Keys -> Observation],
           \A k \in Keys : Kept(k, breakers'[k], observed'[k], p)
    PROVE  BackendInv'
<1>1. /\ calls' \in [Processes -> {Idle} \cup Running]
      /\ calls'[p] = Idle
      /\ \A q \in Processes \ {p} : calls'[q] = calls[q]
  BY DEF Answered, BackendInv, TypeOK
<1>2. PICK a \in Answer : Sound(a) /\ answers' = [answers EXCEPT ![p] = a]
  BY DEF Answered
<1>3. answers' \in [Processes -> Answer]
  BY <1>2 DEF BackendInv, TypeOK
<1>5. TypeOK'
  BY <1>1, <1>3 DEF BackendInv, TypeOK, Kept
<1>6. CallsInv'
  BY <1>1 DEF BackendInv, CallsInv, Told, InTime
<1>7. BreakersInv'
  BY <1>1 DEF BreakersInv, Kept, Awaited
<1>8. AnswersInv'
  <2>1. \A q \in Processes : answers'[q] = IF q = p THEN a ELSE answers[q]
    BY <1>2 DEF BackendInv, TypeOK
  <2> QED BY <1>2, <2>1 DEF BackendInv, AnswersInv, Sound
<1> QED BY <1>5, <1>6, <1>7, <1>8 DEF BackendInv

(* Every breaker kept, and p waits from now on behind a closed one.        *)
LEMMA WaitingKeepsInv ==
    ASSUME BackendInv, NEW p \in Processes, NEW call \in Running,
           calls' = [calls EXCEPT ![p] = call],
           Told(call), call.since = now,
           UNCHANGED <<policy, now, answers>>, attempts' \in [Processes -> Nat],
           breakers' \in [Keys -> Breaker], observed' \in [Keys -> Observation],
           \A k \in Keys : Kept(k, breakers'[k], observed'[k], p),
           breakers'[Awaited(call)].openedAt = Never
    PROVE  BackendInv'
<1>1. /\ calls' \in [Processes -> {Idle} \cup Running]
      /\ calls'[p] = call
      /\ \A q \in Processes \ {p} : calls'[q] = calls[q]
  BY DEF BackendInv, TypeOK
<1>2. TypeOK'
  BY <1>1 DEF BackendInv, TypeOK, Kept
<1>3. InTime(call)
  BY PolicyAssumption DEF InTime, BackendInv, TypeOK
<1>4. CallsInv'
  BY <1>1, <1>3 DEF BackendInv, CallsInv, Told, InTime
<1>5. BreakersInv'
  BY <1>1 DEF BreakersInv, Kept, Awaited
<1>6. AnswersInv'
  BY DEF BackendInv, AnswersInv, Sound
<1> QED BY <1>2, <1>4, <1>5, <1>6 DEF BackendInv

(* A degradation keeps the invariant if what it starts from does: the      *)
(* breakers so far, and the call it degrades.                              *)
LEMMA DegradeKeepsInv ==
    ASSUME BackendInv, NEW p \in Processes, NEW call \in Running,
           call.pc = "calling", Told(call), InTime(call),
           NEW bs \in [Keys -> Breaker], NEW obs \in [Keys -> Observation],
           \A k \in Keys : Kept(k, bs[k], obs[k], p),
           Degrade(p, call, bs, obs),
           UNCHANGED <<policy, now>>, attempts' \in [Processes -> Nat]
    PROVE  BackendInv'
<1> USE PolicyAssumption
<1>1. call.reported = {}
  BY DEF Told
<1>2. CASE Answered(p) /\ breakers' = bs /\ observed' = obs
  BY <1>2, AnsweredKeepsInv
<1>3. CASE /\ call.key # Audit /\ ~Tripped(bs[Audit])
           /\ calls' = [calls EXCEPT ![p] = Auditing(call)]
           /\ breakers' = [bs EXCEPT ![Audit] = IsTripped(@)]
           /\ observed' = [obs EXCEPT ![Audit] = LetThrough(@, bs[Audit])]
           /\ UNCHANGED answers
  <2>1. now \in Nat /\ now >= 1
    BY DEF BackendInv, TypeOK
  <2>2. /\ Auditing(call) \in Running /\ Told(Auditing(call))
        /\ Auditing(call).since = now /\ Awaited(Auditing(call)) = Audit
    <3> DEFINE reported == [call EXCEPT !.reported = @ \cup {call.key}]
    <3>1. /\ reported \in Running /\ reported.reported = {call.key}
          /\ reported.key = call.key /\ reported.began = call.since
          /\ reported.logged = FALSE
      BY DEF Running, Told
    <3> HIDE DEF reported
    <3> DEFINE auditing == [reported EXCEPT !.pc = "auditing", !.since = now]
    <3>2. /\ auditing \in Running /\ auditing.reported = {call.key}
          /\ auditing.key = call.key /\ auditing.began = call.since
          /\ auditing.logged = FALSE /\ auditing.pc = "auditing" /\ auditing.since = now
      BY <2>1, <3>1 DEF Running
    <3>3. auditing = Auditing(call)
      BY DEF Auditing, reported
    <3> HIDE DEF auditing
    <3>4. Told(auditing) /\ Awaited(auditing) = Audit
      BY <1>3, <3>2 DEF Told, InTime, Awaited
    <3> QED BY <3>2, <3>3, <3>4
  <2>3. /\ LetThrough(obs[Audit], bs[Audit]) \in Observation
        /\ LetThrough(obs[Audit], bs[Audit]).trippedAt = obs[Audit].trippedAt
    BY <2>1, HistoryOperators
  <2>4. IsTripped(bs[Audit]) \in Breaker /\ IsTripped(bs[Audit]).openedAt = Never
    BY <1>3, <2>1, BreakerOperators DEF Kept
  <2>5. Kept(Audit, IsTripped(bs[Audit]), LetThrough(obs[Audit], bs[Audit]), p)
    BY <2>3, ReadIsKept
  <2>6. /\ breakers' \in [Keys -> Breaker] /\ observed' \in [Keys -> Observation]
        /\ \A k \in Keys : Kept(k, breakers'[k], observed'[k], p)
        /\ breakers'[Audit].openedAt = Never
    BY <1>3, <2>3, <2>4, <2>5
  <2> QED BY <1>3, <2>2, <2>6, WaitingKeepsInv
<1> QED BY <1>1, <1>2, <1>3, DegradeEffect

----------------------------------------------------------------------------
(* A call that starts has been told nothing, and is in time.               *)
LEMMA StartingIsTold ==
    ASSUME BackendInv, NEW k \in Keys
    PROVE  /\ Starting(k) \in Running /\ Starting(k).pc = "calling"
           /\ Starting(k).key = k /\ Starting(k).since = now
           /\ Awaited(Starting(k)) = k
           /\ Told(Starting(k)) /\ InTime(Starting(k))
  BY PolicyAssumption
     DEF Starting, Running, Awaited, Told, InTime, BackendInv, TypeOK

(* At start nobody waits and every breaker is closed.                      *)
LEMMA InitBackendInv == Init => BackendInv
<1> SUFFICES ASSUME Init PROVE BackendInv
  OBVIOUS
<1> USE PolicyAssumption
<1>1. Closed \in Breaker /\ Closed.openedAt = Never
  BY DEF Closed, Breaker, Never
<1>2. NoAnswer \in Answer /\ NoAnswer.outcome = "none"
  BY DEF NoAnswer, Answer, Outcomes
<1>3. NotObserved \in Observation
  BY DEF NotObserved, Observation
<1>4. TypeOK
  BY <1>1, <1>2, <1>3 DEF Init, TypeOK, Never
<1>5. CallsInv /\ BreakersInv
  BY <1>1 DEF Init, CallsInv, BreakersInv
<1>6. AnswersInv
  BY <1>2 DEF Init, AnswersInv, Sound
<1> QED BY <1>4, <1>5, <1>6 DEF BackendInv, Init

(* Every step of a caller, a health report and the clock keep it.          *)
LEMMA StepBackendInv == BackendInv /\ [Next]_vars => BackendInv'
<1> SUFFICES ASSUME BackendInv, [Next]_vars
             PROVE  BackendInv'
  OBVIOUS
<1> USE PolicyAssumption
<1>1. /\ now \in Nat /\ now >= 1 /\ breakers \in [Keys -> Breaker]
      /\ observed \in [Keys -> Observation] /\ attempts \in [Processes -> Nat]
      /\ calls \in [Processes -> {Idle} \cup Running]
  BY DEF BackendInv, TypeOK
<1>2. ASSUME NEW p \in Processes, NEW k \in Keys, Begin(p, k), UNCHANGED policy
      PROVE  BackendInv'
  <2>1. attempts' \in [Processes -> Nat]
    BY <1>1, <1>2 DEF Begin
  <2>2. /\ LetThrough(observed[k], breakers[k]) \in Observation
        /\ LetThrough(observed[k], breakers[k]).trippedAt = observed[k].trippedAt
    BY <1>1, HistoryOperators
  <2>3. IsTripped(breakers[k]) \in Breaker /\ IsTripped(breakers[k]).openedAt = Never
    BY <1>1, <1>2, BreakerOperators DEF Begin, BackendInv, TypeOK
  <2>4. Kept(k, IsTripped(breakers[k]), LetThrough(observed[k], breakers[k]), p)
    BY <2>2, ReadIsKept, UntouchedIsKept
  <2>5. /\ breakers' \in [Keys -> Breaker] /\ observed' \in [Keys -> Observation]
        /\ \A j \in Keys : Kept(j, breakers'[j], observed'[j], p)
        /\ breakers'[k].openedAt = Never
    BY <1>1, <1>2, <2>2, <2>3, <2>4, UntouchedIsKept DEF Begin
  <2> QED BY <1>2, <2>1, <2>5, StartingIsTold, WaitingKeepsInv DEF Begin
<1>3. ASSUME NEW p \in Processes, NEW k \in Keys, Refuse(p, k), UNCHANGED policy
      PROVE  BackendInv'
  <2>1. attempts' \in [Processes -> Nat]
    BY <1>1, <1>3 DEF Refuse
  <2> QED BY <1>1, <1>3, <2>1, StartingIsTold, UntouchedIsKept, DegradeKeepsInv DEF Refuse
<1>4. ASSUME NEW p \in Processes, calls[p] # Idle
      PROVE  /\ calls[p] \in Running /\ Awaited(calls[p]) \in Keys
             /\ calls[p].pc \in {"calling", "auditing"}
             /\ Told(calls[p]) /\ InTime(calls[p])
  BY <1>1, <1>4, WaitingIsRunning, RunningIsNotIdle DEF BackendInv, CallsInv
<1>5. ASSUME NEW p \in Processes, Return(p), UNCHANGED policy
      PROVE  BackendInv'
  <2> DEFINE call == calls[p]
             k == Awaited(call)
  <2>1. call # Idle /\ call \in Running /\ k \in Keys /\ Told(call)
    BY <1>4, <1>5 DEF Return
  <2>2. Answered(p)
    <3>1. CASE call.pc = "calling" /\ End(p, call, "value", call.key)
      BY <2>1, <3>1, EndAnswers, RunningIsNotIdle DEF Outcomes
    <3>2. CASE call.pc = "auditing" /\ Decide(p, [call EXCEPT !.logged = TRUE])
      <4> DEFINE logged == [call EXCEPT !.logged = TRUE]
      <4>1. /\ logged \in Running /\ logged.key = call.key
            /\ logged.reported = {call.key} /\ logged.logged
        BY <2>1, <3>2 DEF Running, Told
      <4> HIDE DEF logged
      <4>2. Decide(p, logged)
        BY <3>2 DEF logged
      <4> QED BY <4>1, <4>2, DecideAnswers
    <3> QED BY <1>5, <3>1, <3>2 DEF Return
  <2>3. /\ SawValue(observed[k]) \in Observation
        /\ SawValue(observed[k]).trippedAt = observed[k].trippedAt
    BY <1>1, <2>1, HistoryOperators
  <2>4. Kept(k, breakers[k], SawValue(observed[k]), p)
    BY <2>1, <2>3, UntouchedIsKept, ReadIsKept
  <2>5. /\ observed' \in [Keys -> Observation] /\ breakers' \in [Keys -> Breaker]
        /\ \A j \in Keys : Kept(j, breakers'[j], observed'[j], p)
    BY <1>1, <1>5, <2>1, <2>3, <2>4, UntouchedIsKept DEF Return
  <2> QED BY <1>1, <1>5, <2>2, <2>5, AnsweredKeepsInv DEF Return
<1>6. ASSUME NEW p \in Processes, Fail(p), UNCHANGED policy
      PROVE  BackendInv'
  <2> DEFINE call == calls[p]
             k    == Awaited(call)
             b    == RecordFailure(breakers[k])
             o    == SawFailure(observed[k], breakers[k], b)
             bs   == [breakers EXCEPT ![k] = b]
             obs  == [observed EXCEPT ![k] = o]
  <2>1. call # Idle /\ call \in Running /\ k \in Keys /\ Told(call) /\ InTime(call)
    BY <1>4, <1>6 DEF Fail
  <2>2. Kept(k, b, o, p)
    BY <2>1, FailureIsKept
  <2>3. bs[k] = b
    BY <1>1, <2>1
  <2>4. \/ call.pc = "calling" /\ Degrade(p, call, bs, obs)
        \/ /\ call.pc = "auditing" /\ DegradeAudit(p, call)
           /\ breakers' = bs /\ observed' = obs
    BY <1>6, <2>3 DEF Fail
  <2>5. UNCHANGED <<now, policy, attempts>>
    BY <1>6 DEF Fail
  <2>6. b \in Breaker /\ o \in Observation
    BY <2>2 DEF Kept
  <2> HIDE DEF b, o
  <2>7. /\ bs \in [Keys -> Breaker] /\ obs \in [Keys -> Observation]
        /\ \A j \in Keys : Kept(j, bs[j], obs[j], p)
    BY <1>1, <2>1, <2>2, <2>6, UntouchedIsKept
  <2> HIDE DEF bs, obs
  <2>8. CASE call.pc = "calling" /\ Degrade(p, call, bs, obs)
    BY <1>1, <2>1, <2>5, <2>7, <2>8, DegradeKeepsInv
  <2>9. CASE /\ call.pc = "auditing" /\ DegradeAudit(p, call)
             /\ breakers' = bs /\ observed' = obs
    <3>1. Answered(p)
      BY <2>1, <2>9, DegradeAuditAnswers DEF Told
    <3> QED BY <1>1, <2>5, <2>7, <2>9, <3>1, AnsweredKeepsInv
  <2> QED BY <2>4, <2>8, <2>9
<1>7. ASSUME NEW p \in Processes, Cancel(p), UNCHANGED policy
      PROVE  BackendInv'
  <2> DEFINE call == calls[p]
             k == Awaited(call)
             o == [observed[k] EXCEPT !.trials = 0]
  <2>1. call # Idle /\ call \in Running /\ k \in Keys /\ call.key \in Keys
    BY <1>4, <1>7, RunningIsNotIdle DEF Cancel
  <2>2. Answered(p)
    BY <1>7, <2>1, EndAnswers DEF Cancel, Outcomes
  <2>3. o \in Observation /\ o.trippedAt = observed[k].trippedAt
    BY <1>1, <2>1 DEF Observation
  <2>4. Kept(k, breakers[k], o, p)
    BY <2>1, <2>3, UntouchedIsKept, ReadIsKept
  <2>5. observed' = [observed EXCEPT ![k] = o]
    BY <1>7 DEF Cancel
  <2>6. /\ observed' \in [Keys -> Observation] /\ breakers' \in [Keys -> Breaker]
        /\ \A j \in Keys : Kept(j, breakers'[j], observed'[j], p)
    <3> HIDE DEF o
    <3> QED BY <1>1, <1>7, <2>1, <2>3, <2>4, <2>5, UntouchedIsKept DEF Cancel
  <2> QED BY <1>1, <1>7, <2>2, <2>6, AnsweredKeepsInv DEF Cancel
<1>8. ASSUME BreakerStates, UNCHANGED policy
      PROVE  BackendInv'
  <2>1. \A k \in Keys : /\ IsTripped(breakers[k]) \in Breaker
                        /\ IsTripped(breakers[k]).openedAt \in {Never, breakers[k].openedAt}
                        /\ IsTripped(breakers[k]).openedAt <= now
    BY <1>1, BreakerOperators DEF BackendInv, TypeOK, Never
  <2>2. \A k \in Keys : breakers'[k] = IsTripped(breakers[k])
    BY <1>8 DEF BreakerStates
  <2>3. TypeOK'
    BY <1>8, <2>1 DEF BreakerStates, BackendInv, TypeOK
  <2>4. BreakersInv'
    BY <1>8, <2>1, <2>2 DEF BreakerStates, BackendInv, BreakersInv, Awaited
  <2>5. CallsInv' /\ AnswersInv' /\ now' >= 1
    BY <1>8 DEF BreakerStates, BackendInv, CallsInv, Told, InTime, AnswersInv, Sound
  <2> QED BY <2>3, <2>4, <2>5 DEF BackendInv
<1>9. ASSUME Tick, UNCHANGED policy
      PROVE  BackendInv'
  <2>1. TypeOK'
    BY <1>9 DEF Tick, BackendInv, TypeOK, Breaker
  <2>2. CallsInv'
    <3>1. ASSUME NEW p \in Processes, calls[p] # Idle
          PROVE  Told(calls[p])' /\ InTime(calls[p])'
      <4>1. calls[p].since \in Nat /\ ~(now >= calls[p].since + Timeout)
        BY <1>4, <1>9, <3>1 DEF Tick, Overdue, Running
      <4> QED BY <1>1, <1>4, <1>9, <3>1, <4>1 DEF Tick, Told, InTime
    <3> QED BY <1>9, <3>1 DEF CallsInv, Tick
  <2>3. BreakersInv' /\ AnswersInv' /\ now' >= 1
    BY <1>1, <1>9 DEF Tick, BackendInv, BreakersInv, Awaited, AnswersInv, Sound
  <2> QED BY <2>1, <2>2, <2>3 DEF BackendInv
<1>10. CASE UNCHANGED vars
  BY <1>10 DEF vars, BackendInv, TypeOK, CallsInv, Told, InTime, BreakersInv, Awaited, AnswersInv, Sound
<1> QED BY <1>2, <1>3, <1>5, <1>6, <1>7, <1>8, <1>9, <1>10 DEF Next, Run

(* The inductive invariant holds of every run of a shared backend.         *)
THEOREM InvariantHolds == Spec => []BackendInv
  BY InitBackendInv, StepBackendInv, PTL DEF Spec

(* Every state variable has its type, and no breaker opens in the future.  *)
THEOREM TypeCorrect == Spec => []TypeOK
<1>1. BackendInv => TypeOK
  BY DEF BackendInv
<1> QED BY <1>1, InvariantHolds, PTL

(* A breaker that trips refuses calls for less than recovery_seconds and   *)
(* one timeout, for any number of callers and keys and any threshold.      *)
THEOREM OpenPeriodEnds == Spec => []OpenPeriodIsBounded
<1>1. BackendInv => OpenPeriodIsBounded
  <2> SUFFICES ASSUME BackendInv, NEW k \in Keys, Tripped(breakers[k])
               PROVE  now < observed[k].trippedAt + Timeout + Recovery
    BY DEF OpenPeriodIsBounded
  <2>1. /\ now \in Nat /\ breakers[k].openedAt \in Nat /\ observed[k].trippedAt \in Nat
        /\ Timeout \in Nat /\ Recovery \in Nat
    BY PolicyAssumption DEF BackendInv, TypeOK, Breaker, Observation
  <2>2. now - breakers[k].openedAt < Recovery
    BY DEF Tripped
  <2>3. breakers[k].openedAt <= observed[k].trippedAt + Timeout
    BY DEF Tripped, BackendInv, BreakersInv
  <2> QED BY <2>1, <2>2, <2>3
<1> QED BY <1>1, InvariantHolds, PTL

(* No call of run lasts longer than its own timeout and that of the audit  *)
(* write that reports its degradation.                                     *)
THEOREM CallsReturn == Spec => []RunReturnsInTime
<1>1. BackendInv => RunReturnsInTime
  <2> SUFFICES ASSUME BackendInv, NEW p \in Processes, calls[p] # Idle
               PROVE  now <= calls[p].began + 2 * Timeout
    BY DEF RunReturnsInTime
  <2>1. calls[p] \in Running /\ now \in Nat /\ Timeout \in Nat
    BY PolicyAssumption DEF BackendInv, TypeOK
  <2>2. /\ calls[p].began \in Nat /\ calls[p].since \in Nat
        /\ calls[p].pc \in {"calling", "auditing"}
    BY <2>1 DEF Running
  <2>3. now <= calls[p].since + Timeout /\ calls[p].since <= calls[p].began + Timeout
    BY <2>1, <2>2 DEF BackendInv, CallsInv, Told, InTime
  <2> QED BY <2>1, <2>2, <2>3
<1> QED BY <1>1, InvariantHolds, PTL

(* A caller that proceeds without its check, or is refused for want of it, *)
(* has been told, and so has the audit log unless the caller was told that *)
(* it failed too.                                                          *)
THEOREM NoSilentDegradation == Spec => []DegradedIsReported
<1>1. BackendInv => DegradedIsReported
  BY DEF BackendInv, AnswersInv, Sound, DegradedIsReported
<1> QED BY <1>1, InvariantHolds, PTL

(* A fallback only under open policies, an error only in the name of a     *)
(* category with a closed one.                                             *)
THEOREM PolicyIsApplied == Spec => []PolicyDecides
<1>1. BackendInv => PolicyDecides
  BY DEF BackendInv, AnswersInv, Sound, PolicyDecides
<1> QED BY <1>1, InvariantHolds, PTL

----------------------------------------------------------------------------
(* The audit log in files.                                                 *)

File == [lines : Seq(Nat), size : Nat]

(* KeptIsTheTail, of any files.                                            *)
Newer(f, j, i) == j < i /\ f[j].lines # <<>>

Tailed(f, last) ==
    \A i \in Numbers : f[i].lines # <<>> =>
        /\ \A k \in DOMAIN f[i].lines : f[i].lines[k] = f[i].lines[1] + k - 1
        /\ (\A j \in Numbers : ~Newer(f, j, i)) => f[i].lines[Len(f[i].lines)] = last
        /\ \A j \in Numbers : Newer(f, j, i) /\ (\A k \in Numbers : Newer(f, k, i) => k <= j)
              => f[j].lines[1] = f[i].lines[Len(f[i].lines)] + 1

(* A rotation has a place for the next file it renames, or discards the    *)
(* oldest, since it has renamed the one before; and its line has a size.   *)
RotationInv ==
    /\ rotating \in {NotRotating, Reopen} \cup Numbers
    /\ rotating # NotRotating => line \in Sizes
    /\ rotating = Reopen => files[0] = NoFile
    /\ rotating \in Numbers =>
          /\ rotating < BackupCount \/ BackupCount = 0
          /\ rotating + 1 < BackupCount => files[rotating + 1] = NoFile

LoggerInv ==
    /\ files \in [Numbers -> File] /\ written \in Nat
    /\ \A i \in Numbers : files[i].lines = <<>> => files[i] = NoFile
    /\ RotationInv
    /\ Tailed(files, written)
    /\ FilesAreBounded

(* A sequence of consecutive numbers, with another at its end.             *)
LEMMA Appending ==
    ASSUME NEW s \in Seq(Nat), NEW x \in Nat
    PROVE  /\ Append(s, x) # <<>> /\ Len(Append(s, x)) = Len(s) + 1
           /\ Append(s, x)[Len(s) + 1] = x
           /\ DOMAIN Append(s, x) = DOMAIN s \cup {Len(s) + 1}
           /\ \A k \in DOMAIN s : Append(s, x)[k] = s[k]
           /\ s # <<>> => 1 \in DOMAIN s /\ Len(s) \in DOMAIN s /\ s[1] \in Nat
           /\ s = <<>> => Len(s) = 0 /\ DOMAIN s = {}
<1>1. DOMAIN Append(s, x) = DOMAIN s \cup {Len(s) + 1}
  OBVIOUS
<1>2. Append(s, x) # <<>> /\ Len(Append(s, x)) = Len(s) + 1
  OBVIOUS
<1>3. /\ Append(s, x)[Len(s) + 1] = x
      /\ \A k \in DOMAIN s : Append(s, x)[k] = s[k]
  OBVIOUS
<1>4. s # <<>> => 1 \in DOMAIN s /\ Len(s) \in DOMAIN s /\ s[1] \in Nat
  OBVIOUS
<1>5. s = <<>> => Len(s) = 0 /\ DOMAIN s = {}
  OBVIOUS
<1> QED BY <1>1, <1>2, <1>3, <1>4, <1>5

LEMMA AppendingFollows ==
    ASSUME NEW s \in Seq(Nat), NEW x \in Nat,
           \A k \in DOMAIN s : s[k] = s[1] + k - 1,
           s # <<>> => s[Len(s)] + 1 = x
    PROVE  \A k \in DOMAIN Append(s, x) : Append(s, x)[k] = Append(s, x)[1] + k - 1
<1> SUFFICES ASSUME NEW k \in DOMAIN Append(s, x) PROVE Append(s, x)[k] = Append(s, x)[1] + k - 1
  OBVIOUS
<1>1. CASE s = <<>>
  <2>1. k = 1 /\ Append(s, x)[1] = x
    BY <1>1, Appending
  <2> QED BY <2>1
<1>2. CASE s # <<>>
  <2>1. /\ s[1] \in Nat /\ Len(s) \in Nat
        /\ 1 \in DOMAIN s /\ Len(s) \in DOMAIN s
    <3>1. Len(s) \in Nat
      OBVIOUS
    <3> QED BY <1>2, <3>1, Appending
  <2>2. x = s[1] + Len(s)
    BY <1>2, <2>1
  <2>3. Append(s, x)[1] = s[1]
    BY <2>1, Appending
  <2>4. CASE k \in DOMAIN s
    <3>1. Append(s, x)[k] = s[k]
      BY <2>4, Appending
    <3> QED BY <2>3, <2>4, <3>1
  <2>5. CASE k = Len(s) + 1
    <3>1. Append(s, x)[k] = x
      BY <2>5, Appending
    <3> QED BY <2>1, <2>2, <2>3, <2>5, <3>1
  <2> QED BY <2>4, <2>5, Appending
<1> QED BY <1>1, <1>2

(* A line more, in the newest file.                                        *)
LEMMA AppendKeepsTail ==
    ASSUME NEW f \in [Numbers -> File], NEW w \in Nat, Tailed(f, w), NEW g \in [Numbers -> File],
           g[0].lines = Append(f[0].lines, w + 1), \A i \in Numbers : i # 0 => g[i] = f[i]
    PROVE  Tailed(g, w + 1)
<1>1. /\ 0 \in Numbers /\ Numbers \subseteq Nat
      /\ \A i \in Numbers : f[i].lines \in Seq(Nat)
  BY LoggerAssumption DEF Numbers, File
<1>2. /\ g[0].lines # <<>>
      /\ g[0].lines[Len(g[0].lines)] = w + 1
      /\ f[0].lines # <<>> => g[0].lines[1] = f[0].lines[1]
      /\ f[0].lines = <<>> => g[0].lines[1] = w + 1
  <2> DEFINE s == f[0].lines
  <2>1. s \in Seq(Nat) /\ g[0].lines = Append(s, w + 1) /\ w + 1 \in Nat
    BY <1>1
  <2> HIDE DEF s
  <2>2. /\ g[0].lines # <<>>
        /\ g[0].lines[Len(g[0].lines)] = w + 1
        /\ s # <<>> => g[0].lines[1] = s[1]
        /\ s = <<>> => g[0].lines[1] = w + 1
    BY <2>1, Appending
  <2> QED BY <2>2 DEF s
<1>3. ASSUME f[0].lines # <<>>
      PROVE  f[0].lines[Len(f[0].lines)] = w
  BY <1>1, <1>3 DEF Tailed, Newer
<1>4. \A k \in DOMAIN g[0].lines : g[0].lines[k] = g[0].lines[1] + k - 1
  <2>1. \A k \in DOMAIN f[0].lines : f[0].lines[k] = f[0].lines[1] + k - 1
    BY <1>1 DEF Tailed
  <2>2. f[0].lines # <<>> => f[0].lines[Len(f[0].lines)] + 1 = w + 1
    BY <1>3
  <2> DEFINE s == f[0].lines
  <2>3. s \in Seq(Nat) /\ g[0].lines = Append(s, w + 1) /\ w + 1 \in Nat
    BY <1>1
  <2> HIDE DEF s
  <2>4. \A k \in DOMAIN Append(s, w + 1) : Append(s, w + 1)[k] = Append(s, w + 1)[1] + k - 1
    BY <2>1, <2>2, <2>3, AppendingFollows DEF s
  <2> QED BY <2>3, <2>4
<1>5. ASSUME NEW i \in Numbers, i # 0, g[i].lines # <<>>, NEW j \in Numbers, Newer(g, j, i),
             \A k \in Numbers : Newer(g, k, i) => k <= j
      PROVE  g[j].lines[1] = g[i].lines[Len(g[i].lines)] + 1
  <2>1. g[i] = f[i] /\ f[i].lines # <<>>
    BY <1>5
  <2>2. CASE Newer(f, j, i)
    <3>1. \A k \in Numbers : Newer(f, k, i) => Newer(g, k, i)
      BY <1>2 DEF Newer
    <3>2. f[j].lines[1] = f[i].lines[Len(f[i].lines)] + 1
      BY <1>5, <2>1, <2>2, <3>1 DEF Tailed
    <3>3. g[j].lines[1] = f[j].lines[1]
      BY <1>2, <2>2 DEF Newer
    <3> QED BY <2>1, <3>2, <3>3
  <2>3. CASE ~Newer(f, j, i)
    <3>1. j = 0 /\ f[0].lines = <<>>
      BY <1>5, <2>3 DEF Newer
    <3>2. \A k \in Numbers : ~Newer(f, k, i)
      BY <1>1, <1>5, <3>1 DEF Newer
    <3>3. f[i].lines[Len(f[i].lines)] = w
      BY <2>1, <3>2 DEF Tailed
    <3> QED BY <1>2, <2>1, <3>1, <3>3
  <2> QED BY <2>2, <2>3
<1>6. \A i \in Numbers : i # 0 => Newer(g, 0, i)
  BY <1>1, <1>2 DEF Newer
<1>7. \A j \in Numbers : ~Newer(g, j, 0)
  BY <1>1 DEF Newer
<1>8. ASSUME NEW i \in Numbers, i # 0, g[i].lines # <<>>, NEW k \in DOMAIN g[i].lines
      PROVE  g[i].lines[k] = g[i].lines[1] + k - 1
  BY <1>8 DEF Tailed
<1> QED BY <1>1, <1>2, <1>4, <1>5, <1>6, <1>7, <1>8 DEF Tailed

(* A file renamed, over the oldest or over none.                           *)
LEMMA ShiftKeepsTail ==
    ASSUME NEW f \in [Numbers -> File], NEW w \in Nat, Tailed(f, w), NEW n \in Numbers, n < BackupCount,
           n + 1 < BackupCount => f[n + 1].lines = <<>>, NEW g \in [Numbers -> File],
           g[n + 1] = f[n], g[n] = NoFile, \A i \in Numbers : i # n /\ i # n + 1 => g[i] = f[i]
    PROVE  Tailed(g, w)
<1>1. /\ Numbers \subseteq Nat /\ n + 1 \in Numbers /\ n # n + 1
      /\ \A i \in Numbers : i <= BackupCount
      /\ g[n].lines = <<>>
  BY LoggerAssumption DEF Numbers, NoFile
<1> DEFINE Old(i) == IF i = n + 1 THEN n ELSE i
<1>2. ASSUME NEW i \in Numbers, g[i].lines # <<>>
      PROVE  Old(i) \in Numbers /\ g[i] = f[Old(i)] /\ f[Old(i)].lines # <<>>
  BY <1>1, <1>2
<1>3. ASSUME NEW i \in Numbers, g[i].lines # <<>>, NEW j \in Numbers
      PROVE  /\ Newer(g, j, i) => Newer(f, Old(j), Old(i))
             /\ Newer(f, j, Old(i)) => \E k \in Numbers : Newer(g, k, i) /\ Old(k) = j
  <2>1. ASSUME Newer(g, j, i) PROVE Newer(f, Old(j), Old(i))
    <3>1. j < i /\ g[j].lines # <<>>
      BY <2>1 DEF Newer
    <3>2. j # n /\ i # n /\ Old(j) \in Numbers /\ f[Old(j)].lines # <<>>
      BY <1>1, <1>2, <1>3, <3>1
    <3>3. Old(j) < Old(i)
      BY <1>1, <3>1, <3>2
    <3> QED BY <3>2, <3>3 DEF Newer
  <2>2. ASSUME Newer(f, j, Old(i)) PROVE \E k \in Numbers : Newer(g, k, i) /\ Old(k) = j
    <3>1. j < Old(i) /\ f[j].lines # <<>> /\ i # n /\ j \in Nat /\ i \in Nat /\ n \in Nat
      BY <1>1, <1>3, <2>2 DEF Newer
    <3>2. CASE j = n
      <4>1. n + 1 < i /\ g[n + 1].lines # <<>> /\ Old(n + 1) = j
        BY <1>1, <3>1, <3>2
      <4> QED BY <1>1, <4>1 DEF Newer
    <3>3. CASE j # n
      <4>1. j # n + 1
        <5>1. CASE n + 1 < BackupCount
          BY <3>1, <5>1
        <5>2. CASE ~(n + 1 < BackupCount)
          <6>1. i <= n + 1 /\ Old(i) <= n + 1
            BY <1>1, <3>1, <5>2, LoggerAssumption
          <6> QED BY <3>1, <6>1
        <5> QED BY <5>1, <5>2
      <4>2. g[j] = f[j] /\ Old(j) = j /\ j < i
        BY <1>1, <3>1, <3>3, <4>1
      <4> QED BY <3>1, <4>2 DEF Newer
    <3> QED BY <3>2, <3>3
  <2> QED BY <2>1, <2>2
<1>4. ASSUME NEW i \in Numbers, g[i].lines # <<>>
      PROVE  /\ \A k \in DOMAIN g[i].lines : g[i].lines[k] = g[i].lines[1] + k - 1
             /\ (\A j \in Numbers : ~Newer(g, j, i)) => g[i].lines[Len(g[i].lines)] = w
             /\ \A j \in Numbers : Newer(g, j, i) /\ (\A k \in Numbers : Newer(g, k, i) => k <= j)
                   => g[j].lines[1] = g[i].lines[Len(g[i].lines)] + 1
  <2> DEFINE o == Old(i)
  <2>1. o \in Numbers /\ g[i] = f[o] /\ f[o].lines # <<>>
    BY <1>2, <1>4
  <2>2. /\ \A k \in DOMAIN f[o].lines : f[o].lines[k] = f[o].lines[1] + k - 1
        /\ (\A j \in Numbers : ~Newer(f, j, o)) => f[o].lines[Len(f[o].lines)] = w
        /\ \A j \in Numbers : Newer(f, j, o) /\ (\A k \in Numbers : Newer(f, k, o) => k <= j)
              => f[j].lines[1] = f[o].lines[Len(f[o].lines)] + 1
    <3> HIDE DEF o
    <3> QED BY <2>1 DEF Tailed
  <2>3. ASSUME \A j \in Numbers : ~Newer(g, j, i) PROVE g[i].lines[Len(g[i].lines)] = w
    <3>1. \A j \in Numbers : ~Newer(f, j, o)
      BY <1>3, <1>4, <2>3
    <3> HIDE DEF o
    <3> QED BY <2>1, <2>2, <3>1
  <2>4. ASSUME NEW j \in Numbers, Newer(g, j, i), \A k \in Numbers : Newer(g, k, i) => k <= j
        PROVE  g[j].lines[1] = g[i].lines[Len(g[i].lines)] + 1
    <3>1. g[j].lines # <<>>
      BY <2>4 DEF Newer
    <3>2. Old(j) \in Numbers /\ g[j] = f[Old(j)] /\ Newer(f, Old(j), o)
      BY <1>2, <1>3, <1>4, <2>4, <3>1
    <3>3. ASSUME NEW k \in Numbers, Newer(f, k, o) PROVE k <= Old(j)
      <4>1. PICK m \in Numbers : Newer(g, m, i) /\ Old(m) = k
        BY <1>3, <1>4, <3>3
      <4>2. m <= j /\ g[m].lines # <<>> /\ m # n /\ j # n
        BY <1>1, <2>4, <3>1, <4>1 DEF Newer
      <4> QED BY <1>1, <4>1, <4>2
    <3> HIDE DEF o, Old
    <3> QED BY <2>1, <2>2, <3>2, <3>3
  <2> HIDE DEF o, Old
  <2> QED BY <2>1, <2>2, <2>3, <2>4
<1> QED BY <1>4 DEF Tailed

LEMMA LineAppended ==
    ASSUME NEW size \in Sizes, files \in [Numbers -> File], written \in Nat, files[0].size + size <= MaxBytes
    PROVE  /\ Appended(files[0], size) \in File
           /\ Appended(files[0], size).lines = Append(files[0].lines, written + 1)
           /\ Appended(files[0], size).lines # <<>>
           /\ Appended(files[0], size) # NoFile
           /\ Appended(files[0], size).size <= MaxBytes
<1>1. 0 \in Numbers /\ files[0] \in File /\ size \in Nat
  BY LoggerAssumption DEF Numbers
<1>2. /\ files[0].lines \in Seq(Nat) /\ files[0].size \in Nat
      /\ written + 1 \in Nat
  BY <1>1 DEF File
<1>3. /\ Append(files[0].lines, written + 1) \in Seq(Nat)
      /\ Append(files[0].lines, written + 1) # <<>>
  BY <1>2
<1> QED BY <1>1, <1>2, <1>3, LoggerAssumption DEF Appended, File, NoFile

LEMMA InitLogger == LoggerInit => LoggerInv
<1> SUFFICES ASSUME LoggerInit PROVE LoggerInv
  OBVIOUS
<1>1. NoFile \in File /\ NoFile.lines = <<>> /\ NoFile.size = 0
  BY DEF NoFile, File
<1>2. \A i \in Numbers : files[i] = NoFile
  BY DEF LoggerInit
<1>3. files \in [Numbers -> File] /\ written \in Nat
  BY <1>1 DEF LoggerInit
<1>4. Tailed(files, written)
  BY <1>1, <1>2 DEF Tailed
<1>5. RotationInv
  BY LoggerAssumption DEF LoggerInit, RotationInv, NotRotating, Reopen, Numbers
<1>6. FilesAreBounded
  BY <1>1, <1>2, LoggerAssumption DEF LoggerInit, FilesAreBounded
<1> QED BY <1>2, <1>3, <1>4, <1>5, <1>6 DEF LoggerInv

(* A line is written to the file, by log() or after a rotation.            *)
LEMMA WrittenKeeps ==
    ASSUME LoggerInv, NEW size \in Sizes, files[0].size + size <= MaxBytes,
           files' = [files EXCEPT ![0] = Appended(files[0], size)],
           open' = TRUE, rotating' = NotRotating, written' = written + 1
    PROVE  LoggerInv'
<1>1. /\ files \in [Numbers -> File] /\ written \in Nat /\ 0 \in Numbers
      /\ Tailed(files, written)
  BY LoggerAssumption DEF LoggerInv, Numbers
<1>2. /\ Appended(files[0], size) \in File
      /\ Appended(files[0], size).lines = Append(files[0].lines, written + 1)
      /\ Appended(files[0], size).lines # <<>>
      /\ Appended(files[0], size) # NoFile
      /\ Appended(files[0], size).size <= MaxBytes
  BY <1>1, LineAppended
<1>3. /\ files' \in [Numbers -> File] /\ written' \in Nat
      /\ files'[0] = Appended(files[0], size)
      /\ \A i \in Numbers : i # 0 => files'[i] = files[i]
  BY <1>1, <1>2
<1>4. Tailed(files', written')
  BY <1>1, <1>2, <1>3, AppendKeepsTail
<1>5. RotationInv'
  BY LoggerAssumption DEF RotationInv, NotRotating, Reopen, Numbers
<1>6. FilesAreBounded'
  BY <1>2, <1>3 DEF LoggerInv, FilesAreBounded, Exists
<1>7. \A i \in Numbers : files'[i].lines = <<>> => files'[i] = NoFile
  BY <1>2, <1>3 DEF LoggerInv
<1>8. Tailed(files, written)'
  BY <1>4 DEF Tailed, Newer
<1> QED BY <1>3, <1>5, <1>6, <1>7, <1>8 DEF LoggerInv

(* A file is renamed, by one of the steps of a rotation.                   *)
LEMMA RenamedKeeps ==
    ASSUME LoggerInv, NEW n \in Numbers, n < BackupCount, rotating = n,
           files' = [files EXCEPT ![n + 1] = files[n], ![n] = NoFile]
    PROVE  /\ files' \in [Numbers -> File]
           /\ files'[n] = NoFile
           /\ \A i \in Numbers : files'[i].lines = <<>> => files'[i] = NoFile
           /\ \A i \in Numbers : files'[i].size <= MaxBytes
           /\ Tailed(files', written)
<1>1. /\ files \in [Numbers -> File] /\ written \in Nat
      /\ n + 1 \in Numbers /\ n # n + 1
      /\ Tailed(files, written)
  BY LoggerAssumption DEF LoggerInv, Numbers
<1>2. NoFile \in File /\ NoFile.lines = <<>> /\ NoFile.size = 0
  BY DEF NoFile, File
<1>3. /\ files' \in [Numbers -> File]
      /\ files'[n + 1] = files[n] /\ files'[n] = NoFile
      /\ \A i \in Numbers : i # n /\ i # n + 1 => files'[i] = files[i]
  BY <1>1, <1>2
<1>4. n + 1 < BackupCount => files[n + 1].lines = <<>>
  BY <1>2 DEF LoggerInv, RotationInv
<1>5. Tailed(files', written)
  BY <1>1, <1>3, <1>4, ShiftKeepsTail
<1>6. \A i \in Numbers : files'[i] \in {files[j] : j \in Numbers} \cup {NoFile}
  BY <1>1, <1>3
<1>7. \A i \in Numbers : files'[i].lines = <<>> => files'[i] = NoFile
  BY <1>6 DEF LoggerInv
<1>8. \A i \in Numbers : files'[i].size <= MaxBytes
  BY <1>2, <1>6, LoggerAssumption DEF LoggerInv, FilesAreBounded
<1> QED BY <1>3, <1>5, <1>7, <1>8

LEMMA RenameKeeps ==
    ASSUME LoggerInv, NEW i \in Numbers, Rename(i)
    PROVE  LoggerInv'
<1>1. /\ rotating = i /\ i > 0 /\ i < BackupCount
      /\ rotating' = i - 1 /\ i - 1 \in Numbers
      /\ written' = written /\ line' = line /\ open' = open
      /\ rotating # NotRotating
  BY LoggerAssumption DEF LoggerInv, RotationInv, Rename, Numbers, NotRotating
<1>2. /\ files' \in [Numbers -> File]
      /\ files'[i] = NoFile
      /\ \A j \in Numbers : files'[j].lines = <<>> => files'[j] = NoFile
      /\ \A j \in Numbers : files'[j].size <= MaxBytes
      /\ Tailed(files', written)
  <2>1. CASE Exists(i)
    BY <1>1, <2>1, RenamedKeeps DEF Rename
  <2>2. CASE ~Exists(i)
    BY <2>2 DEF Rename, Exists, LoggerInv, FilesAreBounded
  <2> QED BY <2>1, <2>2
<1>3. ~open
  BY <1>1 DEF LoggerInv, FilesAreBounded
<1>4. FilesAreBounded'
  BY <1>1, <1>2, <1>3 DEF FilesAreBounded
<1>5. RotationInv'
  BY <1>1, <1>2, LoggerAssumption DEF LoggerInv, RotationInv, NotRotating, Reopen, Numbers
<1>6. Tailed(files, written)' /\ written' \in Nat
  BY <1>1, <1>2 DEF Tailed, Newer, LoggerInv
<1> QED BY <1>2, <1>4, <1>5, <1>6 DEF LoggerInv

LEMMA FinishRotationKeeps ==
    ASSUME LoggerInv, FinishRotation
    PROVE  LoggerInv'
<1>1. /\ rotating = 0 /\ rotating' = Reopen /\ rotating # NotRotating
      /\ written' = written /\ line' = line /\ open' = open
      /\ 0 \in Numbers
  BY LoggerAssumption DEF FinishRotation, Numbers, NotRotating
<1>2. /\ files' \in [Numbers -> File]
      /\ files'[0] = NoFile
      /\ \A j \in Numbers : files'[j].lines = <<>> => files'[j] = NoFile
      /\ \A j \in Numbers : files'[j].size <= MaxBytes
      /\ Tailed(files', written)
  <2>1. CASE BackupCount = 0
    <3>1. NoFile \in File /\ NoFile.lines = <<>> /\ NoFile.size = 0
      BY DEF NoFile, File
    <3>2. Numbers = {0}
      BY <2>1 DEF Numbers
    <3>3. files' \in [Numbers -> File] /\ files'[0] = NoFile
      BY <2>1, <3>1, <3>2 DEF FinishRotation, LoggerInv
    <3>4. Tailed(files', written)
      BY <3>1, <3>2, <3>3 DEF Tailed
    <3> QED BY <3>1, <3>2, <3>3, <3>4, LoggerAssumption
  <2>2. CASE BackupCount # 0
    <3>1. files' = [files EXCEPT ![0 + 1] = files[0], ![0] = NoFile] /\ 0 < BackupCount
      BY <2>2, LoggerAssumption DEF FinishRotation
    <3> QED BY <1>1, <3>1, RenamedKeeps
  <2> QED BY <2>1, <2>2
<1>3. ~open
  BY <1>1 DEF LoggerInv, FilesAreBounded
<1>4. FilesAreBounded'
  BY <1>1, <1>2, <1>3 DEF FilesAreBounded
<1>5. RotationInv'
  BY <1>1, <1>2 DEF LoggerInv, RotationInv, NotRotating, Reopen, Numbers
<1>6. Tailed(files, written)' /\ written' \in Nat
  BY <1>1, <1>2 DEF Tailed, Newer, LoggerInv
<1> QED BY <1>2, <1>4, <1>5, <1>6 DEF LoggerInv

(* A rotation begins, the file is closed, the process dies.                *)
LEMMA FilesRest ==
    ASSUME LoggerInv, UNCHANGED <<files, written>>,
           open' => open /\ rotating' = NotRotating,
           \/ rotating' = NotRotating
           \/ line' \in Sizes /\ rotating' = (IF BackupCount = 0 THEN 0 ELSE BackupCount - 1)
    PROVE  LoggerInv'
<1>1. Tailed(files, written)'
  BY DEF LoggerInv, Tailed, Newer
<1>2. FilesAreBounded'
  BY DEF LoggerInv, FilesAreBounded, Exists
<1>3. RotationInv'
  BY LoggerAssumption DEF RotationInv, NotRotating, Reopen, Numbers
<1> QED BY <1>1, <1>2, <1>3 DEF LoggerInv

LEMMA StepLogger == LoggerInv /\ [LoggerNext]_loggerVars => LoggerInv'
<1> SUFFICES ASSUME LoggerInv, [LoggerNext]_loggerVars PROVE LoggerInv'
  OBVIOUS
<1>1. ASSUME NEW size \in Sizes, Write(size) PROVE LoggerInv'
  BY <1>1, WrittenKeeps DEF Write, Fits
<1>2. ASSUME NEW size \in Sizes, StartRotation(size) PROVE LoggerInv'
  BY <1>2, FilesRest DEF StartRotation
<1>3. ASSUME NEW i \in Numbers, Rename(i) PROVE LoggerInv'
  BY <1>3, RenameKeeps
<1>4. CASE FinishRotation
  BY <1>4, FinishRotationKeeps
<1>5. CASE WriteAfterRotation
  <2>1. /\ line \in Sizes /\ files[0] = NoFile
    BY <1>5 DEF LoggerInv, RotationInv, WriteAfterRotation, NotRotating, Reopen
  <2>2. files[0].size + line <= MaxBytes
    BY <2>1, LoggerAssumption DEF NoFile
  <2> QED BY <1>5, <2>1, <2>2, WrittenKeeps DEF WriteAfterRotation
<1>6. CASE Close
  BY <1>6, FilesRest DEF Close
<1>7. CASE Crash
  BY <1>7, FilesRest DEF Crash
<1>8. CASE UNCHANGED loggerVars
  BY <1>8 DEF loggerVars, LoggerInv, FilesAreBounded, Exists, RotationInv, Tailed, Newer
<1> QED BY <1>1, <1>2, <1>3, <1>4, <1>5, <1>6, <1>7, <1>8 DEF LoggerNext

THEOREM LoggerInvariant == LoggerSpec => []LoggerInv
<1> QED BY InitLogger, StepLogger, PTL DEF LoggerSpec

(* No file of the audit log outgrows its bound, and a handle is open only  *)
(* on a file that has a line, between rotations: log() and _rotate, with   *)
(* any number of backups and a process that may die anywhere.              *)
THEOREM FilesStayBounded == LoggerSpec => []FilesAreBounded
<1>1. LoggerInv => FilesAreBounded
  BY DEF LoggerInv
<1> QED BY <1>1, LoggerInvariant, PTL

(* The files hold the last lines that were logged, each once and in order, *)
(* wherever in a rotation a process died.                                  *)
THEOREM TheTailIsKept == LoggerSpec => []KeptIsTheTail
<1>1. ASSUME LoggerInv PROVE KeptIsTheTail
  <2>1. \A i \in Numbers : Exists(i) <=> files[i].lines # <<>>
    BY <1>1 DEF LoggerInv, Exists, NoFile
  <2> QED BY <1>1, <2>1 DEF LoggerInv, Tailed, Newer, KeptIsTheTail
<1> QED BY <1>1, LoggerInvariant, PTL

=============================================================================
