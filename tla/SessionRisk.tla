----------------------------- MODULE SessionRisk -----------------------------
(***************************************************************************)
(* Cumulative risk of sessions and actors: record_turn_risk_and_check and  *)
(* reset_session of services/rate_limiter.py over the session stores of    *)
(* sessions/, in memory, Redis, PostgreSQL and MySQL.                      *)
(*                                                                         *)
(* A turn charges its session and then, if it has one, its actor: two      *)
(* round trips, each with a clock read before it that the store receives   *)
(* as an argument.  A round trip may take effect, fail before it, or take  *)
(* effect and lose its reply; it takes no effect after the timeout.  Risk, *)
(* decay and time are integers.                                            *)
(***************************************************************************)
EXTENDS Integers, Sequences

CONSTANTS
    Sessions, Actors,  \* keys: actor_key keeps the two apart
    NoActor,           \* the None of a turn without an actor
    Processes,         \* concurrent turns
    Operators,         \* callers of reset_session and reset_actor
    Deltas,            \* risk of one turn
    Threshold,         \* cumulative_risk_threshold, actor_risk_threshold
    Ttl,               \* session_ttl_seconds, actor_ttl_seconds
    Decay,             \* risk_decay_per_second
    Timeout,           \* FailurePolicy.timeout_seconds
    Stores,            \* the deployments considered: see Deployment
    MaxTime,           \* bound: horizon of the clock
    MaxTurns           \* bound: turns of each process

Keys == Sessions \cup Actors

(* hashTags: the Redis keys of one session share a slot; failOpen: the     *)
(* failure policy of session_risk.                                         *)
Deployment == [kind : {"memory", "redis", "postgres", "mysql"},
               hashTags : BOOLEAN, failOpen : BOOLEAN]

ASSUME SessionAssumption ==
    /\ Sessions \cap Actors = {} /\ NoActor \notin Keys
    /\ Deltas \subseteq Nat
    /\ Threshold \in [Keys -> Nat \ {0}]
    /\ Ttl \in [Keys -> Nat \ {0}]
    /\ Decay \in Nat /\ Timeout \in Nat \ {0}
    /\ Stores \subseteq Deployment
    /\ MaxTime \in Nat /\ MaxTurns \in Nat

VARIABLES
    store,     \* which of Stores: fixed
    now,       \* time.time(), and the clock of the Redis server, from 1
    rows,      \* the store: what it holds of each key
    calls,     \* record_turn_risk_and_check, per process; owed: the keys
               \*   flagged when the turn began and neither reset nor ended
    turns,     \* turns begun, per process
    answers,   \* what the last turn of each process was told
    resets     \* reset_session, per operator

vars == <<store, now, rows, calls, turns, answers, resets>>

(* last 0: no last_update; flagExpires 0: not flagged; expires 0: no row.  *)
NoRow == [risk |-> 0, last |-> 0, expires |-> 0, flagExpires |-> 0]

Idle == [pc |-> "idle"]

Init ==
    /\ store \in Stores
    /\ now = 1
    /\ rows = [k \in Keys |-> NoRow]
    /\ calls = [p \in Processes |-> Idle]
    /\ turns = [p \in Processes |-> 0]
    /\ answers = [p \in Processes |-> [flagged |-> FALSE, degraded |-> FALSE, owed |-> {}]]
    /\ resets = [o \in Operators |-> <<>>]

Larger(a, b) == IF a >= b THEN a ELSE b

----------------------------------------------------------------------------
(* The stores.  at is the clock read sent along, now the store's own.      *)

Sql == store.kind \in {"postgres", "mysql"}

(* What expires at e still counts at t.                                    *)
Alive(e, t) == IF Sql THEN e >= t ELSE e > t

(* is_flagged, asked at t.                                                 *)
IsFlagged(k, t) == rows[k].flagExpires > 0 /\ Alive(rows[k].flagExpires, t)

(* The flag in the reply to an update: SQL answers what it has written.    *)
Flag(row) == row.flagExpires > 0 /\ (Sql \/ Alive(row.flagExpires, now))

Decayed(row, at) ==
    Larger(0, row.risk - (IF row.last = 0 THEN 0 ELSE Larger(0, at - row.last)) * Decay)

MemoryAddRisk(row, k, delta, at) ==
    LET prior == IF Alive(row.expires, at) THEN row ELSE NoRow
        risk  == Decayed(prior, at) + delta
    IN  [risk |-> risk, last |-> at, expires |-> at + Ttl[k],
         flagExpires |-> IF risk >= Threshold[k] \/ Alive(row.flagExpires, at)
                         THEN at + Ttl[k] ELSE row.flagExpires]

(* Mutant: the flag set by the turn alone, not by the cumulative risk.     *)
RedisAddRisk_TurnOnly(row, k, delta, at) ==
    LET prior == IF Alive(row.expires, now) THEN row ELSE NoRow
        risk  == Decayed(prior, at) + delta
    IN  [risk |-> risk, last |-> at, expires |-> now + Ttl[k],
         flagExpires |-> IF delta >= Threshold[k] THEN now + Ttl[k] ELSE row.flagExpires]

(* Keys expire by the clock of the server, risk decays by that of the      *)
(* caller; the life of the flag is renewed only at or above the threshold. *)
RedisAddRisk(row, k, delta, at) ==
    LET prior == IF Alive(row.expires, now) THEN row ELSE NoRow
        risk  == Decayed(prior, at) + delta
    IN  [risk |-> risk, last |-> at, expires |-> now + Ttl[k],
         flagExpires |-> IF risk >= Threshold[k] THEN now + Ttl[k] ELSE row.flagExpires]

(* ON CONFLICT takes whatever row is there, expired or not.                *)
PostgresAddRisk(row, k, delta, at) ==
    LET risk == Decayed(row, at) + delta
    IN  [risk |-> risk, last |-> at, expires |-> at + Ttl[k],
         flagExpires |-> IF row.flagExpires > 0 \/ risk >= Threshold[k] THEN at + Ttl[k] ELSE 0]

(* Mutant: the expired row taken for a live one.                           *)
MySqlAddRisk_Expired(row, k, delta, at) == PostgresAddRisk(row, k, delta, at)

MySqlAddRisk(row, k, delta, at) ==
    PostgresAddRisk(IF Alive(row.expires, at) THEN row ELSE NoRow, k, delta, at)

AddRisk(row, k, delta, at) ==
    CASE store.kind = "memory"   -> MemoryAddRisk(row, k, delta, at)
      [] store.kind = "redis"    -> RedisAddRisk(row, k, delta, at)
      [] store.kind = "postgres" -> PostgresAddRisk(row, k, delta, at)
      [] OTHER              -> MySqlAddRisk(row, k, delta, at)

(* A reset takes its fields in order, the flag last.  One statement takes  *)
(* the whole row, unless the keys of a session may lie on several nodes.   *)
ResetSteps ==
    IF store.kind = "redis" /\ ~store.hashTags THEN <<"risk", "last", "flagged">> ELSE <<"all">>

Without(row, field) ==
    CASE field = "risk"    -> [row EXCEPT !.risk = 0]
      [] field = "last"    -> [row EXCEPT !.last = 0]
      [] field = "flagged" -> [row EXCEPT !.flagExpires = 0]
      [] OTHER             -> NoRow

----------------------------------------------------------------------------
(* History: flags that are gone for good reason are owed to nobody.        *)
Forgiven(K) ==
    [p \in Processes |-> IF calls[p] = Idle THEN Idle
                         ELSE [calls[p] EXCEPT !.owed = @ \ K]]

(* add_risk takes effect in the store.                                     *)
Apply(k, delta, at) ==
    rows' = [rows EXCEPT ![k] = AddRisk(@, k, delta, at)]

----------------------------------------------------------------------------
(* record_turn_risk_and_check                                              *)

BeginTurn(p, s, a, delta) ==
    /\ calls[p] = Idle /\ turns[p] < MaxTurns
    /\ turns' = [turns EXCEPT ![p] = @ + 1]
    /\ calls' = [calls EXCEPT ![p] =
          [pc |-> "session", session |-> s, actor |-> a, delta |-> delta, at |-> now,
           flagged |-> FALSE, degraded |-> FALSE, owed |-> {k \in {s, a} \cap Keys : IsFlagged(k, now)}]]
    /\ UNCHANGED <<now, rows, answers, resets>>

(* A store in the process of the caller answers within one step.           *)
InTime(p) == IF store.kind = "memory" THEN now = calls[p].at ELSE now <= calls[p].at + Timeout

(* The clock is read as the round trip begins, and again by MySQL when a   *)
(* deadlock makes it start over.                                           *)
ClockReads(call) == IF store.kind = "mysql" THEN call.at..now ELSE {call.at}

Charging(call) == IF call.pc = "session" THEN call.session ELSE call.actor

(* After a round trip: on to the actor, if there is one, or back.          *)
Proceed(p, call) ==
    \/ /\ call.pc = "session" /\ call.actor # NoActor
       /\ calls' = [calls EXCEPT ![p] = [call EXCEPT !.pc = "actor", !.at = now]]
       /\ UNCHANGED answers
    \/ /\ call.pc = "actor" \/ call.actor = NoActor
       /\ calls' = [calls EXCEPT ![p] = Idle]
       /\ answers' = [answers EXCEPT ![p] =
             [flagged |-> call.flagged, degraded |-> call.degraded, owed |-> call.owed]]

(* Mutant: the answer about the actor replaces that about the session.     *)
Charge_LastAnswer(p) ==
    LET call == calls[p]
        k    == Charging(call)
    IN  /\ call # Idle /\ InTime(p)
        /\ \E at \in ClockReads(call) : Apply(k, call.delta, at)
        /\ Proceed(p, [call EXCEPT !.flagged = Flag(rows'[k])])
        /\ UNCHANGED <<now, turns, resets>>

(* The store answers with the flag as the update left it.                  *)
Charge(p) ==
    LET call == calls[p]
        k    == Charging(call)
    IN  /\ call # Idle /\ InTime(p)
        /\ \E at \in ClockReads(call) : Apply(k, call.delta, at)
        /\ Proceed(p, [call EXCEPT !.flagged = @ \/ Flag(rows'[k])])
        /\ UNCHANGED <<now, turns, resets>>

(* The store is unreachable, or its answer is lost: an open policy counts  *)
(* nothing and goes on, a closed one ends the turn with an error.          *)
Unavailable(p) ==
    LET call == calls[p] IN
    /\ call # Idle /\ store.kind # "memory"
    /\ \/ UNCHANGED rows
       \/ InTime(p) /\ \E at \in ClockReads(call) : Apply(Charging(call), call.delta, at)
    /\ \/ store.failOpen /\ Proceed(p, [call EXCEPT !.degraded = TRUE])
       \/ ~store.failOpen /\ calls' = [calls EXCEPT ![p] = Idle] /\ UNCHANGED answers
    /\ UNCHANGED <<now, turns, resets>>

----------------------------------------------------------------------------
(* reset_session, reset_actor                                              *)

BeginReset(o, k) ==
    /\ resets[o] = <<>>
    /\ resets' = [resets EXCEPT ![o] = <<k>> \o ResetSteps]
    /\ UNCHANGED <<now, rows, calls, turns, answers>>

ResetStep(o) ==
    LET k == resets[o][1] IN
    /\ resets[o] # <<>>
    /\ rows' = [rows EXCEPT ![k] = Without(@, resets[o][2])]
    /\ resets' = [resets EXCEPT ![o] = IF Len(@) = 2 THEN <<>> ELSE <<k>> \o Tail(Tail(@))]
    /\ calls' = Forgiven({k})
    /\ UNCHANGED <<now, turns, answers>>

(* The caller, or its connection, is gone between two deletions.           *)
AbandonReset(o) ==
    /\ resets[o] # <<>>
    /\ resets' = [resets EXCEPT ![o] = <<>>]
    /\ UNCHANGED <<now, rows, calls, turns, answers>>

----------------------------------------------------------------------------
(* Expired state is dropped: by the sweep in memory, in SQL by a DELETE    *)
(* whose cutoff was read before its round trip.                            *)
Cleanup(cutoff) ==
    /\ store.kind # "redis"
    /\ rows' = [k \in Keys |-> IF Alive(rows[k].expires, cutoff) THEN rows[k] ELSE NoRow]
    /\ UNCHANGED <<now, calls, turns, answers, resets>>

Tick ==
    /\ now < MaxTime
    /\ store.kind = "memory" => \A p \in Processes : calls[p] = Idle
    /\ now' = now + 1
    /\ calls' = Forgiven({k \in Keys : ~IsFlagged(k, now + 1)})
    /\ UNCHANGED <<rows, turns, answers, resets>>

Next ==
    /\ \/ \E p \in Processes :
             \/ \E s \in Sessions, a \in Actors \cup {NoActor}, delta \in Deltas :
                   BeginTurn(p, s, a, delta)
             \/ Charge(p)
             \/ Unavailable(p)
       \/ \E o \in Operators :
             \/ \E k \in Keys : BeginReset(o, k)
             \/ ResetStep(o)
             \/ AbandonReset(o)
       \/ \E cutoff \in Larger(1, now - Timeout)..now : Cleanup(cutoff)
       \/ Tick
    /\ UNCHANGED store

Spec == Init /\ [][Next]_vars

----------------------------------------------------------------------------
(* What a caller can see of a key.  A SQL row that has just expired may    *)
(* still be seen by a call that read the clock before; on PostgreSQL an    *)
(* update sees it as long as no cleanup has removed it.                    *)
Status(k) ==
    LET row  == rows[k]
        ends == Larger(row.expires, row.flagExpires)
        left == row.last > 0 \/ row.risk > 0 \/ row.flagExpires > 0
    IN  IF left /\ Alive(ends, now) THEN "live"
        ELSE IF left /\ (store.kind = "postgres" \/ (Sql /\ Alive(ends, now - Timeout))) THEN "lapsed"
        ELSE "absent"

Risk(k) == IF Status(k) = "absent" THEN 0 ELSE rows[k].risk

Flagged(k) == Status(k) # "absent" /\ Flag(rows[k])

(* The store keeps the contract of SessionStore, each as far as it does: a *)
(* flag once set stays until a reset or the end of the session (on Redis,  *)
(* until a reset or time takes it), however updates, resets and expiry     *)
(* interleave, and a session that is gone leaves neither risk nor flag.    *)
Contract == INSTANCE SessionContract WITH
    sticky  <- store.kind # "redis",
    status  <- [k \in Keys |-> Status(k)],
    risk    <- [k \in Keys |-> Risk(k)],
    flagged <- [k \in Keys |-> Flagged(k)]

KeepsContract == Contract!Spec

(* A session whose risk stands at or above the threshold is flagged,       *)
(* whatever was reset, abandoned or expired around the update that took it *)
(* there, wherever a reset takes a session whole.                          *)
OverThresholdIsFlagged ==
    \A k \in Keys : Status(k) = "live" /\ Risk(k) >= Threshold[k] /\ store.hashTags
                   => Flagged(k)

(* A turn of a session, or of an actor, that was flagged before the turn   *)
(* began is answered as flagged, unless the flag was reset or expired      *)
(* meanwhile or the store did not answer.                                  *)
KnownFlagIsAnswered ==
    \A p \in Processes :
        answers[p].owed # {} /\ ~answers[p].degraded => answers[p].flagged
=============================================================================
