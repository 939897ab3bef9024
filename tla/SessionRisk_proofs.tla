-------------------------- MODULE SessionRisk_proofs --------------------------
(* What TLC checks of SessionRisk on small instances, proved for every     *)
(* value of its constants, over every store; and that the stores keep the  *)
(* contract of SessionContract.                                            *)
EXTENDS SessionRisk, SequenceTheorems, TLAPS

(* An update that reaches a SQL store late, by no more than the timeout,   *)
(* still finds a session that lasts: it has the clock it was sent with.    *)
(* By default a session lasts an hour, and a call two seconds.             *)
SessionsOutliveCalls ==
    (\E s \in Stores : s.kind \in {"postgres", "mysql"}) => \A k \in Keys : Ttl[k] >= Timeout

RowType == [risk : Nat, last : Nat, expires : Nat, flagExpires : Nat]

CallType == [pc : {"session", "actor"}, session : Sessions, actor : Actors \cup {NoActor},
             delta : Deltas, at : Nat, flagged : BOOLEAN, degraded : BOOLEAN,
             owed : SUBSET Keys]

Fields == {"risk", "last", "flagged", "all"}

(* A reset that may be seen half done.                                     *)
Split == store.kind = "redis" /\ ~store.hashTags

ResetOK(split, r) ==
    r # <<>> => /\ r \in Seq(Keys \cup Fields) /\ Len(r) >= 2 /\ r[1] \in Keys
                /\ ~split => Len(r) = 2 /\ r[2] = "all"

TypeInv ==
    /\ store \in Stores /\ store \in Deployment
    /\ now \in Nat \ {0}
    /\ rows \in [Keys -> RowType]
    /\ calls \in [Processes -> CallType \cup {Idle}]
    /\ answers \in [Processes -> [flagged : BOOLEAN, degraded : BOOLEAN, owed : SUBSET Keys]]
    /\ resets \in [Operators -> Seq(Keys \cup Fields)]
    /\ \A o \in Operators : ResetOK(Split, resets[o])

(* A row of kind, at time t: its flag does not outlive it; in SQL it lasts *)
(* as long, and in memory as long or not at all; and where resets are      *)
(* whole, a row over the threshold has one that lasts.                     *)
RowOK(kind, tags, row, ttl, threshold, t) ==
    /\ row.flagExpires <= row.expires /\ row.expires <= t + ttl
    /\ kind \in {"postgres", "mysql"} => row.flagExpires = 0 \/ row.flagExpires = row.expires
    /\ kind = "memory" => row.flagExpires = row.expires \/ row.flagExpires <= t
    /\ tags /\ row.risk >= threshold => row.expires > 0 /\ row.flagExpires = row.expires

RowsInv == \A k \in Keys : RowOK(store.kind, store.hashTags, rows[k], Ttl[k], Threshold[k], now)

CallOK(call, t) ==
    call # Idle =>
        /\ call.at \in 1..t
        /\ call.pc = "actor" => call.actor # NoActor
        /\ call.owed \subseteq {call.session, call.actor}

CallsInv == \A p \in Processes : CallOK(calls[p], now)

(* The flags a call is owed: the call knows of its session's once it is    *)
(* charged; what it has still to charge is there to be found.              *)
Met(call) ==
    call # Idle /\ call.pc = "actor" /\ call.session \in call.owed /\ ~call.degraded
        => call.flagged

Unmet(call) ==
    IF call = Idle THEN {}
    ELSE IF call.pc = "actor" THEN call.owed \cap {call.actor} ELSE call.owed

OwedInv ==
    SessionsOutliveCalls =>
        /\ \A p \in Processes : Met(calls[p]) /\ \A k \in Unmet(calls[p]) : IsFlagged(k, now)
        /\ KnownFlagIsAnswered

SessionInv == TypeInv /\ RowsInv /\ CallsInv /\ OwedInv
----------------------------------------------------------------------------
(* What can be seen of a row, at time t.                                   *)
IsSql(kind) == kind \in {"postgres", "mysql"}

AliveAt(kind, e, t) == IF IsSql(kind) THEN e >= t ELSE e > t

FlagOf(kind, row, t) == row.flagExpires > 0 /\ (IsSql(kind) \/ row.flagExpires > t)

SetAt(kind, row, t) == row.flagExpires > 0 /\ AliveAt(kind, row.flagExpires, t)

Left(row) == row.last > 0 \/ row.risk > 0 \/ row.flagExpires > 0

StatusOf(kind, row, t) ==
    LET ends == Larger(row.expires, row.flagExpires)
    IN  IF Left(row) /\ AliveAt(kind, ends, t) THEN "live"
        ELSE IF Left(row) /\ (kind = "postgres" \/ (IsSql(kind) /\ AliveAt(kind, ends, t - Timeout)))
        THEN "lapsed" ELSE "absent"

RiskOf(kind, row, t) == IF StatusOf(kind, row, t) = "absent" THEN 0 ELSE row.risk

FlaggedOf(kind, row, t) == StatusOf(kind, row, t) # "absent" /\ FlagOf(kind, row, t)

(* The model's operators, before and after a step.                         *)
LEMMA Views ==
    ASSUME NEW k \in Keys
    PROVE  /\ Status(k) = StatusOf(store.kind, rows[k], now)
           /\ Status(k)' = StatusOf(store'.kind, rows'[k], now')
           /\ Risk(k) = RiskOf(store.kind, rows[k], now)
           /\ Risk(k)' = RiskOf(store'.kind, rows'[k], now')
           /\ Flagged(k) <=> FlaggedOf(store.kind, rows[k], now)
           /\ Flagged(k)' <=> FlaggedOf(store'.kind, rows'[k], now')
           /\ IsFlagged(k, now) <=> SetAt(store.kind, rows[k], now)
           /\ IsFlagged(k, now)' <=> SetAt(store'.kind, rows'[k], now')
<1>1. /\ Status(k) = StatusOf(store.kind, rows[k], now)
      /\ Status(k)' = StatusOf(store'.kind, rows'[k], now')
  BY DEF Status, StatusOf, Left, Alive, AliveAt, Sql, IsSql
<1>2. /\ Flag(rows[k]) <=> FlagOf(store.kind, rows[k], now)
      /\ Flag(rows[k])' <=> FlagOf(store'.kind, rows'[k], now')
  BY DEF Flag, FlagOf, Alive, Sql, IsSql
<1>3. /\ IsFlagged(k, now) <=> SetAt(store.kind, rows[k], now)
      /\ IsFlagged(k, now)' <=> SetAt(store'.kind, rows'[k], now')
  BY DEF IsFlagged, SetAt, Alive, AliveAt, Sql, IsSql
<1> QED BY <1>1, <1>2, <1>3 DEF Risk, RiskOf, Flagged, FlaggedOf

(* Decay leaves no more than there was, whatever the clock read.           *)
LEMMA DecayedIsLess ==
    ASSUME NEW row \in RowType, NEW at \in Nat
    PROVE  Decayed(row, at) \in 0..row.risk
<1> DEFINE elapsed == IF row.last = 0 THEN 0 ELSE Larger(0, at - row.last)
<1>1. elapsed \in Nat /\ row.risk \in Nat
  BY DEF RowType, Larger
<1>2. elapsed * Decay \in Nat
  BY <1>1, SessionAssumption
<1>3. Decayed(row, at) = Larger(0, row.risk - elapsed * Decay)
  BY DEF Decayed
<1> HIDE DEF elapsed
<1>4. PICK lost \in Nat : lost = elapsed * Decay
  BY <1>2
<1> QED BY <1>1, <1>3, <1>4 DEF Larger
----------------------------------------------------------------------------
(* An update of a row, as the contract has it: what is left of the risk,   *)
(* and of the flag, of a session that may still be seen, or of none.       *)
Updated(kind, row, new, k, delta, t) ==
    \E was \in BOOLEAN, before \in Nat : \E left \in 0..before :
        /\ \/ /\ StatusOf(kind, row, t) # "absent"
              /\ before = row.risk /\ was = FlagOf(kind, row, t)
           \/ /\ StatusOf(kind, row, t) # "live"
              /\ before = 0 /\ was = FALSE
        /\ new.risk = left + delta
        /\ FlagOf(kind, new, t) <=> was \/ left + delta >= Threshold[k]

(* ... and it is live, and its flag kept, if the update was not so late    *)
(* that the session it made is over.                                       *)
Lasting(kind, row, new, k, t) ==
    (IsSql(kind) => Ttl[k] >= Timeout)
    =>  /\ StatusOf(kind, new, t) = "live"
        /\ SetAt(kind, row, t) => SetAt(kind, new, t) /\ FlagOf(kind, new, t)

Good(kind, tags, row, new, k, delta, t) ==
    /\ new \in RowType
    /\ RowOK(kind, tags, new, Ttl[k], Threshold[k], t)
    /\ Updated(kind, row, new, k, delta, t)
    /\ Lasting(kind, row, new, k, t)

(* An update of a session that may be seen.                                *)
LEMMA UpdatedFromRow ==
    ASSUME NEW kind, NEW row \in RowType, NEW new, NEW k \in Keys, NEW delta \in Nat, NEW t,
           StatusOf(kind, row, t) # "absent", NEW left \in 0..row.risk, new.risk = left + delta,
           FlagOf(kind, new, t) <=> FlagOf(kind, row, t) \/ left + delta >= Threshold[k]
    PROVE  Updated(kind, row, new, k, delta, t)
<1>1. row.risk \in Nat /\ FlagOf(kind, row, t) \in BOOLEAN
  BY DEF RowType, FlagOf
<1> QED BY <1>1 DEF Updated

(* An update of a session that is not there, or may be taken for gone.     *)
LEMMA UpdatedFromNone ==
    ASSUME NEW kind, NEW row, NEW new, NEW k \in Keys, NEW delta \in Nat, NEW t,
           StatusOf(kind, row, t) # "live", new.risk = delta,
           FlagOf(kind, new, t) <=> delta >= Threshold[k]
    PROVE  Updated(kind, row, new, k, delta, t)
<1>1. \E left \in 0..0 : new.risk = left + delta /\ (FlagOf(kind, new, t) <=> left + delta >= Threshold[k])
  <2>1. 0 \in 0..0 /\ 0 + delta = delta
    OBVIOUS
  <2> QED BY <2>1
<1>2. PICK before \in Nat : before = 0
  OBVIOUS
<1>3. PICK was \in BOOLEAN : was = FALSE
  OBVIOUS
<1> QED BY <1>1, <1>2, <1>3 DEF Updated

(* InMemorySessionStore.add_risk makes a good row.                         *)
LEMMA MemoryIsGood ==
    ASSUME store \in Deployment, store.kind = "memory", now \in Nat \ {0}, NEW k \in Keys,
           NEW row \in RowType, RowOK("memory", store.hashTags, row, Ttl[k], Threshold[k], now),
           NEW delta \in Deltas, NEW at, at = now,
           NEW new, new = MemoryAddRisk(row, k, delta, at)
    PROVE  Good("memory", store.hashTags, row, new, k, delta, now)
<1> PICK prior : prior = IF row.expires > at THEN row ELSE NoRow
  OBVIOUS
<1> PICK left : left = Decayed(prior, at)
  OBVIOUS
<1> PICK risk : risk = left + delta
  OBVIOUS
<1>1. /\ prior \in RowType /\ at \in Nat /\ delta \in Nat
      /\ Ttl[k] \in Nat \ {0} /\ Threshold[k] \in Nat \ {0}
  BY SessionAssumption DEF RowType, NoRow
<1>2. left \in 0..prior.risk
  BY <1>1, DecayedIsLess
<1>3. new = [risk |-> risk, last |-> at, expires |-> at + Ttl[k],
             flagExpires |-> IF risk >= Threshold[k] \/ row.flagExpires > at
                             THEN at + Ttl[k] ELSE row.flagExpires]
  BY DEF MemoryAddRisk, Alive, Sql
<1>4. /\ new.risk = risk /\ new.last = at /\ new.expires = at + Ttl[k]
      /\ new.flagExpires = IF risk >= Threshold[k] \/ row.flagExpires > at
                           THEN at + Ttl[k] ELSE row.flagExpires
  BY <1>3
<1>5. /\ row.risk \in Nat /\ row.last \in Nat /\ row.expires \in Nat /\ row.flagExpires \in Nat
      /\ risk \in Nat /\ prior.risk \in Nat
  BY <1>1, <1>2 DEF RowType
<1>6. new \in RowType
  BY <1>1, <1>3, <1>5 DEF RowType
<1>7. RowOK("memory", store.hashTags, new, Ttl[k], Threshold[k], now)
  BY <1>1, <1>4, <1>5 DEF RowOK
<1>8. /\ StatusOf("memory", row, now) = IF Left(row) /\ row.expires > now THEN "live" ELSE "absent"
      /\ StatusOf("memory", new, now) = "live"
      /\ \A r : FlagOf("memory", r, now) <=> r.flagExpires > 0 /\ r.flagExpires > now
      /\ \A r : SetAt("memory", r, now) <=> r.flagExpires > 0 /\ r.flagExpires > now
  BY <1>1, <1>4, <1>5, <1>7
     DEF StatusOf, Left, AliveAt, IsSql, FlagOf, SetAt, Larger, RowOK
<1>9. Updated("memory", row, new, k, delta, now)
  <2>1. CASE StatusOf("memory", row, now) = "live"
    <3>1. prior = row /\ left \in 0..row.risk
      BY <1>2, <1>8, <2>1
    <3>2. FlagOf("memory", new, now) <=> FlagOf("memory", row, now) \/ left + delta >= Threshold[k]
      BY <1>1, <1>4, <1>5, <1>8
    <3> QED BY <1>1, <1>4, <2>1, <3>1, <3>2, UpdatedFromRow
  <2>2. CASE StatusOf("memory", row, now) # "live"
    <3>1. left = 0 /\ ~(row.flagExpires > now)
      BY <1>1, <1>2, <1>5, <1>8, <2>2 DEF RowOK, Left, NoRow
    <3>2. new.risk = delta /\ (FlagOf("memory", new, now) <=> delta >= Threshold[k])
      BY <1>1, <1>4, <1>5, <1>8, <3>1
    <3> QED BY <1>1, <2>2, <3>2, UpdatedFromNone
  <2> QED BY <2>1, <2>2
<1>10. Lasting("memory", row, new, k, now)
  BY <1>1, <1>4, <1>5, <1>8 DEF Lasting
<1> QED BY <1>6, <1>7, <1>9, <1>10 DEF Good

(* RedisSessionStore.add_risk makes a good row.                            *)
LEMMA RedisIsGood ==
    ASSUME store \in Deployment, store.kind = "redis", now \in Nat \ {0}, NEW k \in Keys,
           NEW row \in RowType, RowOK("redis", store.hashTags, row, Ttl[k], Threshold[k], now),
           NEW delta \in Deltas, NEW at \in 1..now,
           NEW new, new = RedisAddRisk(row, k, delta, at)
    PROVE  Good("redis", store.hashTags, row, new, k, delta, now)
<1> PICK prior : prior = IF row.expires > now THEN row ELSE NoRow
  OBVIOUS
<1> PICK left : left = Decayed(prior, at)
  OBVIOUS
<1> PICK risk : risk = left + delta
  OBVIOUS
<1>1. /\ prior \in RowType /\ at \in Nat \ {0} /\ delta \in Nat
      /\ Ttl[k] \in Nat \ {0} /\ Threshold[k] \in Nat \ {0}
  BY SessionAssumption DEF RowType, NoRow
<1>2. left \in 0..prior.risk
  BY <1>1, DecayedIsLess
<1>3. new = [risk |-> risk, last |-> at, expires |-> now + Ttl[k],
             flagExpires |-> IF risk >= Threshold[k] THEN now + Ttl[k] ELSE row.flagExpires]
  BY DEF RedisAddRisk, Alive, Sql
<1>4. /\ new.risk = risk /\ new.last = at /\ new.expires = now + Ttl[k]
      /\ new.flagExpires = IF risk >= Threshold[k] THEN now + Ttl[k] ELSE row.flagExpires
  BY <1>3
<1>5. /\ row.risk \in Nat /\ row.last \in Nat /\ row.expires \in Nat /\ row.flagExpires \in Nat
      /\ risk \in Nat /\ prior.risk \in Nat
  BY <1>1, <1>2 DEF RowType
<1>6. new \in RowType
  BY <1>1, <1>3, <1>5 DEF RowType
<1>7. RowOK("redis", store.hashTags, new, Ttl[k], Threshold[k], now)
  BY <1>1, <1>4, <1>5 DEF RowOK
<1>8. /\ StatusOf("redis", row, now) = IF Left(row) /\ row.expires > now THEN "live" ELSE "absent"
      /\ StatusOf("redis", new, now) = "live"
      /\ \A r : FlagOf("redis", r, now) <=> r.flagExpires > 0 /\ r.flagExpires > now
      /\ \A r : SetAt("redis", r, now) <=> r.flagExpires > 0 /\ r.flagExpires > now
  BY <1>1, <1>4, <1>5, <1>7
     DEF StatusOf, Left, AliveAt, IsSql, FlagOf, SetAt, Larger, RowOK
<1>9. Updated("redis", row, new, k, delta, now)
  <2>1. CASE StatusOf("redis", row, now) = "live"
    <3>1. prior = row /\ left \in 0..row.risk
      BY <1>2, <1>8, <2>1
    <3>2. FlagOf("redis", new, now) <=> FlagOf("redis", row, now) \/ left + delta >= Threshold[k]
      BY <1>1, <1>4, <1>5, <1>8
    <3> QED BY <1>1, <1>4, <2>1, <3>1, <3>2, UpdatedFromRow
  <2>2. CASE StatusOf("redis", row, now) # "live"
    <3>1. left = 0 /\ ~(row.flagExpires > now)
      BY <1>1, <1>2, <1>5, <1>8, <2>2 DEF RowOK, Left, NoRow
    <3>2. new.risk = delta /\ (FlagOf("redis", new, now) <=> delta >= Threshold[k])
      BY <1>1, <1>4, <1>5, <1>8, <3>1
    <3> QED BY <1>1, <2>2, <3>2, UpdatedFromNone
  <2> QED BY <2>1, <2>2
<1>10. Lasting("redis", row, new, k, now)
  BY <1>1, <1>4, <1>5, <1>8 DEF Lasting
<1> QED BY <1>6, <1>7, <1>9, <1>10 DEF Good

(* A SQL update, from the row it takes: as found, or none.                 *)
SqlUpdated(kind, prior, new, k, delta, t) ==
    \E left \in 0..prior.risk :
        /\ new.risk = left + delta
        /\ FlagOf(kind, new, t) <=> FlagOf(kind, prior, t) \/ left + delta >= Threshold[k]

(* What an upsert makes of the row it takes.                               *)
LEMMA SqlUpdate ==
    ASSUME NEW kind \in {"postgres", "mysql"}, NEW tags, NEW t \in Nat \ {0}, NEW k \in Keys,
           NEW prior \in RowType, NEW delta \in Deltas, NEW at \in 1..t,
           NEW new, new = PostgresAddRisk(prior, k, delta, at)
    PROVE  /\ new \in RowType
           /\ RowOK(kind, tags, new, Ttl[k], Threshold[k], t)
           /\ SqlUpdated(kind, prior, new, k, delta, t)
           /\ FlagOf(kind, prior, t) => FlagOf(kind, new, t)
           /\ t <= at + Timeout /\ Ttl[k] >= Timeout =>
                 /\ StatusOf(kind, new, t) = "live"
                 /\ FlagOf(kind, new, t) => SetAt(kind, new, t)
<1> PICK left : left = Decayed(prior, at)
  OBVIOUS
<1> PICK risk : risk = left + delta
  OBVIOUS
<1>1. /\ at \in Nat \ {0} /\ delta \in Nat /\ Timeout \in Nat
      /\ Ttl[k] \in Nat \ {0} /\ Threshold[k] \in Nat \ {0}
  BY SessionAssumption
<1>2. left \in 0..prior.risk
  BY <1>1, DecayedIsLess
<1>3. new = [risk |-> risk, last |-> at, expires |-> at + Ttl[k],
             flagExpires |-> IF prior.flagExpires > 0 \/ risk >= Threshold[k]
                             THEN at + Ttl[k] ELSE 0]
  BY DEF PostgresAddRisk
<1>4. /\ new.risk = risk /\ new.last = at /\ new.expires = at + Ttl[k]
      /\ new.flagExpires = IF prior.flagExpires > 0 \/ risk >= Threshold[k] THEN at + Ttl[k] ELSE 0
  BY <1>3
<1>5. /\ prior.risk \in Nat /\ prior.flagExpires \in Nat /\ risk \in Nat
  BY <1>1, <1>2 DEF RowType
<1>6. new \in RowType
  BY <1>1, <1>3, <1>5 DEF RowType
<1>7. RowOK(kind, tags, new, Ttl[k], Threshold[k], t)
  BY <1>1, <1>4, <1>5 DEF RowOK
<1>8. \A r : FlagOf(kind, r, t) <=> r.flagExpires > 0
  BY DEF FlagOf, IsSql
<1>9. t <= at + Timeout /\ Ttl[k] >= Timeout =>
         /\ StatusOf(kind, new, t) = "live"
         /\ FlagOf(kind, new, t) => SetAt(kind, new, t)
  BY <1>1, <1>4, <1>5, <1>8 DEF StatusOf, Left, AliveAt, IsSql, SetAt, Larger
<1>10. FlagOf(kind, new, t) <=> FlagOf(kind, prior, t) \/ left + delta >= Threshold[k]
  BY <1>1, <1>4, <1>5, <1>8
<1>11. SqlUpdated(kind, prior, new, k, delta, t)
  BY <1>2, <1>4, <1>10 DEF SqlUpdated
<1>12. FlagOf(kind, prior, t) => FlagOf(kind, new, t)
  BY <1>10
<1> QED BY <1>6, <1>7, <1>9, <1>11, <1>12

(* PostgresSessionStore.add_risk makes a good row of whatever it finds.    *)
LEMMA PostgresIsGood ==
    ASSUME NEW tags, NEW t \in Nat \ {0}, NEW k \in Keys, NEW row \in RowType,
           NEW delta \in Deltas, NEW at \in 1..t, t <= at + Timeout,
           NEW new, new = PostgresAddRisk(row, k, delta, at)
    PROVE  Good("postgres", tags, row, new, k, delta, t)
<1>1. /\ new \in RowType
      /\ RowOK("postgres", tags, new, Ttl[k], Threshold[k], t)
      /\ SqlUpdated("postgres", row, new, k, delta, t)
      /\ FlagOf("postgres", row, t) => FlagOf("postgres", new, t)
      /\ Ttl[k] >= Timeout =>
            /\ StatusOf("postgres", new, t) = "live"
            /\ FlagOf("postgres", new, t) => SetAt("postgres", new, t)
  BY SqlUpdate
<1>2. PICK left \in 0..row.risk :
            /\ new.risk = left + delta
            /\ FlagOf("postgres", new, t) <=>
                  FlagOf("postgres", row, t) \/ left + delta >= Threshold[k]
  BY <1>1 DEF SqlUpdated
<1>3. /\ row.risk \in Nat /\ row.last \in Nat /\ row.flagExpires \in Nat
      /\ delta \in Nat /\ Threshold[k] \in Nat
  BY SessionAssumption DEF RowType
<1>4. Updated("postgres", row, new, k, delta, t)
  <2>1. CASE StatusOf("postgres", row, t) # "absent"
    BY <1>2, <1>3, <2>1, UpdatedFromRow
  <2>2. CASE StatusOf("postgres", row, t) = "absent"
    <3>1. row.risk = 0 /\ ~FlagOf("postgres", row, t)
      BY <1>3, <2>2 DEF StatusOf, Left, FlagOf
    <3>2. left = 0
      BY <3>1
    <3>3. new.risk = delta /\ (FlagOf("postgres", new, t) <=> delta >= Threshold[k])
      BY <1>2, <1>3, <3>1, <3>2
    <3> QED BY <1>3, <2>2, <3>3, UpdatedFromNone
  <2> QED BY <2>1, <2>2
<1>5. Lasting("postgres", row, new, k, t)
  BY <1>1 DEF Lasting, SetAt, FlagOf, IsSql
<1> QED BY <1>1, <1>4, <1>5 DEF Good

(* The same, of a row MySQL takes for live or for none.                    *)
LEMMA MySqlUpdate ==
    ASSUME NEW tags, NEW t \in Nat \ {0}, NEW k \in Keys, NEW prior \in RowType,
           NEW delta \in Deltas, NEW at \in 1..t, t <= at + Timeout,
           NEW new, new = PostgresAddRisk(prior, k, delta, at)
    PROVE  /\ new \in RowType
           /\ RowOK("mysql", tags, new, Ttl[k], Threshold[k], t)
           /\ SqlUpdated("mysql", prior, new, k, delta, t)
           /\ FlagOf("mysql", prior, t) => FlagOf("mysql", new, t)
           /\ Ttl[k] >= Timeout =>
                 /\ StatusOf("mysql", new, t) = "live"
                 /\ FlagOf("mysql", new, t) => SetAt("mysql", new, t)
  BY SqlUpdate

(* MySQLSessionStore.add_risk makes a good row, an expired one being none. *)
LEMMA MySqlIsGood ==
    ASSUME store.kind = "mysql", now \in Nat \ {0}, NEW k \in Keys, NEW row \in RowType,
           RowOK("mysql", store.hashTags, row, Ttl[k], Threshold[k], now),
           NEW delta \in Deltas, NEW at \in 1..now, now <= at + Timeout,
           NEW new, new = MySqlAddRisk(row, k, delta, at)
    PROVE  Good("mysql", store.hashTags, row, new, k, delta, now)
<1> PICK prior : prior = IF row.expires >= at THEN row ELSE NoRow
  OBVIOUS
<1>0. prior \in RowType /\ new = PostgresAddRisk(prior, k, delta, at)
  BY DEF RowType, NoRow, MySqlAddRisk, Alive, Sql
<1>1. /\ new \in RowType
      /\ RowOK("mysql", store.hashTags, new, Ttl[k], Threshold[k], now)
      /\ SqlUpdated("mysql", prior, new, k, delta, now)
      /\ FlagOf("mysql", prior, now) => FlagOf("mysql", new, now)
      /\ Ttl[k] >= Timeout =>
            /\ StatusOf("mysql", new, now) = "live"
            /\ FlagOf("mysql", new, now) => SetAt("mysql", new, now)
  BY <1>0, MySqlUpdate
<1>2. PICK left \in 0..prior.risk :
            /\ new.risk = left + delta
            /\ FlagOf("mysql", new, now) <=>
                  FlagOf("mysql", prior, now) \/ left + delta >= Threshold[k]
  BY <1>1 DEF SqlUpdated
<1>3. /\ row.risk \in Nat /\ row.last \in Nat /\ row.flagExpires \in Nat /\ row.expires \in Nat
      /\ delta \in Nat /\ Threshold[k] \in Nat /\ Timeout \in Nat
      /\ row.flagExpires <= row.expires
  BY SessionAssumption DEF RowType, RowOK
<1>4. Updated("mysql", row, new, k, delta, now)
  <2>1. CASE row.expires >= at /\ Left(row)
    <3>1. prior = row
      BY <2>1
    <3>2. StatusOf("mysql", row, now) # "absent"
      BY <1>3, <2>1 DEF StatusOf, AliveAt, IsSql, Larger
    <3> QED BY <1>2, <1>3, <3>1, <3>2, UpdatedFromRow
  <2>2. CASE ~(row.expires >= at /\ Left(row))
    <3>1. prior.risk = 0 /\ ~FlagOf("mysql", prior, now)
      BY <1>3, <2>2 DEF Left, FlagOf, NoRow
    <3>2. left = 0
      BY <3>1
    <3>3. new.risk = delta /\ (FlagOf("mysql", new, now) <=> delta >= Threshold[k])
      BY <1>2, <1>3, <3>1, <3>2
    <3>4. StatusOf("mysql", row, now) # "live"
      BY <1>3, <2>2 DEF StatusOf, AliveAt, IsSql, Larger
    <3> QED BY <1>3, <3>3, <3>4, UpdatedFromNone
  <2> QED BY <2>1, <2>2
<1>5. Lasting("mysql", row, new, k, now)
  <2>1. SetAt("mysql", row, now) => FlagOf("mysql", prior, now)
    BY <1>3 DEF SetAt, FlagOf, AliveAt, IsSql
  <2> QED BY <1>1, <2>1 DEF Lasting, IsSql
<1> QED BY <1>1, <1>4, <1>5 DEF Good
----------------------------------------------------------------------------
(* What a call charges, with a clock it can have read, makes a good row.   *)
LEMMA ChargeIsGood ==
    ASSUME TypeInv, RowsInv, CallsInv, NEW p \in Processes, calls[p] # Idle, InTime(p),
           NEW at \in ClockReads(calls[p]), NEW k, k = Charging(calls[p]),
           NEW new, new = AddRisk(rows[k], k, calls[p].delta, at)
    PROVE  /\ k \in Keys /\ calls[p].delta \in Deltas
           /\ Good(store.kind, store.hashTags, rows[k], new, k, calls[p].delta, now)
<1> PICK call : call = calls[p]
  OBVIOUS
<1>1. /\ call \in CallType /\ CallOK(call, now) /\ call # Idle
      /\ store \in Deployment /\ now \in Nat \ {0}
  BY DEF TypeInv, CallsInv
<1>2. /\ call.at \in 1..now /\ call.delta \in Deltas
      /\ call.pc \in {"session", "actor"} /\ call.session \in Sessions
      /\ call.actor \in Actors \cup {NoActor} /\ (call.pc = "actor" => call.actor # NoActor)
  BY <1>1 DEF CallOK, CallType
<1>3. k \in Keys
  BY <1>2 DEF Charging, Keys
<1>4. rows[k] \in RowType /\ RowOK(store.kind, store.hashTags, rows[k], Ttl[k], Threshold[k], now)
  BY <1>3 DEF TypeInv, RowsInv
<1>5. store.kind \in {"memory", "redis", "postgres", "mysql"}
  BY <1>1 DEF Deployment
<1> PICK delta \in Deltas : delta = call.delta
  BY <1>2
<1> PICK row \in RowType : row = rows[k]
  BY <1>4
<1>6. CASE store.kind = "memory"
  <2>1. at = now /\ new = MemoryAddRisk(row, k, delta, at)
    BY <1>1, <1>2, <1>6 DEF ClockReads, InTime, AddRisk
  <2> QED BY <1>1, <1>2, <1>3, <1>4, <1>6, <2>1, MemoryIsGood
<1>7. CASE store.kind = "redis"
  <2>1. at \in 1..now /\ new = RedisAddRisk(row, k, delta, at)
    BY <1>1, <1>2, <1>7 DEF ClockReads, AddRisk
  <2> QED BY <1>1, <1>2, <1>3, <1>4, <1>7, <2>1, RedisIsGood
<1>8. CASE store.kind \in {"postgres", "mysql"}
  <2>1. /\ at \in 1..now /\ now <= at + Timeout
        /\ new = IF store.kind = "postgres" THEN PostgresAddRisk(row, k, delta, at)
                 ELSE MySqlAddRisk(row, k, delta, at)
    <3>1. at \in call.at..now /\ now <= call.at + Timeout
      BY <1>1, <1>2, <1>8 DEF ClockReads, InTime
    <3>2. new = IF store.kind = "postgres" THEN PostgresAddRisk(row, k, delta, at)
                ELSE MySqlAddRisk(row, k, delta, at)
      BY <1>8 DEF AddRisk
    <3> QED BY <1>1, <1>2, <3>1, <3>2, SessionAssumption
  <2>2. CASE store.kind = "postgres"
    <3> PICK t \in Nat \ {0} : t = now
      BY <1>1
    <3> PICK tags : tags = store.hashTags
      OBVIOUS
    <3>1. Good("postgres", tags, row, new, k, delta, t)
      BY <1>3, <2>1, <2>2, PostgresIsGood
    <3> QED BY <1>2, <1>3, <2>2, <3>1
  <2>3. CASE store.kind = "mysql"
    <3>1. new = MySqlAddRisk(row, k, delta, at)
      BY <2>1, <2>3
    <3> QED BY <1>1, <1>2, <1>3, <1>4, <2>1, <2>3, <3>1, MySqlIsGood
  <2> QED BY <1>8, <2>2, <2>3
<1> QED BY <1>5, <1>6, <1>7, <1>8

(* The rows, once a charge has taken effect.                               *)
LEMMA Applied ==
    ASSUME TypeInv, RowsInv, CallsInv, NEW p \in Processes, calls[p] # Idle, InTime(p),
           NEW at \in ClockReads(calls[p]), NEW k, k = Charging(calls[p]),
           Apply(k, calls[p].delta, at), UNCHANGED <<store, now>>
    PROVE  /\ k \in Keys /\ calls[p].delta \in Deltas
           /\ rows' \in [Keys -> RowType] /\ RowsInv'
           /\ \A j \in Keys \ {k} : rows'[j] = rows[j]
           /\ Good(store.kind, store.hashTags, rows[k], rows'[k], k, calls[p].delta, now)
<1> PICK new : new = AddRisk(rows[k], k, calls[p].delta, at)
  OBVIOUS
<1>1. /\ k \in Keys /\ calls[p].delta \in Deltas
      /\ Good(store.kind, store.hashTags, rows[k], new, k, calls[p].delta, now)
  BY ChargeIsGood
<1>2. rows \in [Keys -> RowType] /\ rows' = [rows EXCEPT ![k] = new]
  BY DEF TypeInv, Apply
<1>3. rows'[k] = new /\ \A j \in Keys \ {k} : rows'[j] = rows[j]
  BY <1>1, <1>2
<1>4. /\ new \in RowType
      /\ RowOK(store.kind, store.hashTags, new, Ttl[k], Threshold[k], now)
  BY <1>1 DEF Good
<1>5. rows' \in [Keys -> RowType]
  BY <1>1, <1>2, <1>4
<1>6. RowsInv'
  <2> SUFFICES ASSUME NEW j \in Keys
               PROVE  RowOK(store.kind, store.hashTags, rows'[j], Ttl[j], Threshold[j], now)
    BY DEF RowsInv
  <2>1. CASE j = k
    BY <1>3, <1>4, <2>1
  <2>2. CASE j # k
    BY <1>3, <2>2 DEF RowsInv
  <2> QED BY <2>1, <2>2
<1> QED BY <1>1, <1>3, <1>5, <1>6

(* A charge takes no flag away, and answers one that was there.            *)
LEMMA FlagsLast ==
    ASSUME TypeInv, RowsInv, CallsInv, NEW p \in Processes, calls[p] # Idle, InTime(p),
           NEW at \in ClockReads(calls[p]), NEW k, k = Charging(calls[p]),
           Apply(k, calls[p].delta, at), UNCHANGED <<store, now>>,
           SessionsOutliveCalls
    PROVE  /\ \A j \in Keys : IsFlagged(j, now) => IsFlagged(j, now)'
           /\ IsFlagged(k, now) => Flag(rows'[k])
<1>1. /\ k \in Keys /\ \A j \in Keys \ {k} : rows'[j] = rows[j]
      /\ Lasting(store.kind, rows[k], rows'[k], k, now)
  BY Applied DEF Good
<1>2. IsSql(store.kind) => Ttl[k] >= Timeout
  BY <1>1 DEF SessionsOutliveCalls, TypeInv, IsSql
<1>3. SetAt(store.kind, rows[k], now) =>
         SetAt(store.kind, rows'[k], now) /\ FlagOf(store.kind, rows'[k], now)
  BY <1>1, <1>2 DEF Lasting
<1>4. Flag(rows'[k]) <=> FlagOf(store.kind, rows'[k], now)
  BY DEF Flag, FlagOf, Alive, Sql, IsSql
<1>5. \A j \in Keys : IsFlagged(j, now) => IsFlagged(j, now)'
  <2> TAKE j \in Keys
  <2>1. /\ IsFlagged(j, now) <=> SetAt(store.kind, rows[j], now)
        /\ IsFlagged(j, now)' <=> SetAt(store.kind, rows'[j], now)
    BY Views
  <2>2. CASE j = k
    BY <1>3, <2>1, <2>2
  <2>3. CASE j # k
    BY <1>1, <2>1, <2>3
  <2> QED BY <2>2, <2>3
<1>6. IsFlagged(k, now) <=> SetAt(store.kind, rows[k], now)
  BY <1>1, Views
<1> QED BY <1>3, <1>4, <1>5, <1>6
----------------------------------------------------------------------------
(* The calls.                                                              *)
LEMMA CallsAreNotIdle ==
    ASSUME NEW call \in CallType
    PROVE  call # Idle
BY DEF CallType, Idle

(* The call, on its way to the actor.                                      *)
OnTo(call, t) == [call EXCEPT !.pc = "actor", !.at = t]

(* The call is otherwise as it was.                                        *)
LEMMA OnToActor ==
    ASSUME NEW call \in CallType, NEW t \in Nat,
           NEW next, next = OnTo(call, t)
    PROVE  /\ next \in CallType /\ next.pc = "actor" /\ next.at = t
           /\ next.session = call.session /\ next.actor = call.actor
           /\ next.flagged = call.flagged /\ next.degraded = call.degraded
           /\ next.owed = call.owed
<1> PICK there : there = [call EXCEPT !.pc = "actor"]
  OBVIOUS
<1>1. /\ there \in CallType /\ there.pc = "actor"
      /\ there.session = call.session /\ there.actor = call.actor
      /\ there.flagged = call.flagged /\ there.degraded = call.degraded
      /\ there.owed = call.owed
  BY DEF CallType
<1>2. next = [there EXCEPT !.at = t]
  BY DEF CallType, OnTo
<1> QED BY <1>1, <1>2 DEF CallType

(* A call after its round trip: what it remembers has only grown, and the  *)
(* flag it has asked for is there if the store answered.                   *)
After(old, call, k) ==
    /\ call \in CallType
    /\ call.pc = old.pc /\ call.session = old.session /\ call.actor = old.actor
    /\ call.at = old.at /\ call.owed = old.owed
    /\ old.flagged => call.flagged
    /\ call.degraded \/ (~old.degraded /\ (SessionsOutliveCalls /\ k \in call.owed => call.flagged))

(* On to the actor or back, the flags that were owed are found or told.    *)
LEMMA Proceeding ==
    ASSUME TypeInv, CallsInv, OwedInv, NEW p \in Processes, calls[p] # Idle,
           NEW call, After(calls[p], call, Charging(calls[p])), Proceed(p, call),
           UNCHANGED <<store, now, turns, resets>>,
           SessionsOutliveCalls => \A j \in Keys : IsFlagged(j, now) => IsFlagged(j, now)'
    PROVE  /\ calls' \in [Processes -> CallType \cup {Idle}] /\ CallsInv'
           /\ answers' \in [Processes -> [flagged : BOOLEAN, degraded : BOOLEAN, owed : SUBSET Keys]]
           /\ OwedInv'
<1> PICK old : old = calls[p]
  OBVIOUS
<1> PICK k : k = Charging(old)
  OBVIOUS
<1>1. /\ old \in CallType /\ CallOK(old, now) /\ now \in Nat \ {0}
      /\ calls \in [Processes -> CallType \cup {Idle}]
      /\ answers \in [Processes -> [flagged : BOOLEAN, degraded : BOOLEAN, owed : SUBSET Keys]]
  BY DEF TypeInv, CallsInv
<1>2. After(old, call, k) /\ call \in CallType
  BY DEF After
<1>3. /\ call.pc \in {"session", "actor"} /\ call.owed \in SUBSET Keys
      /\ call.flagged \in BOOLEAN /\ call.degraded \in BOOLEAN
      /\ call.session \in Sessions /\ call.actor \in Actors \cup {NoActor}
  BY <1>2 DEF CallType
<1>4. /\ old.at \in 1..now /\ (old.pc = "actor" => old.actor # NoActor)
      /\ old.owed \subseteq {old.session, old.actor}
  BY <1>1, CallsAreNotIdle DEF CallOK
<1>5. CASE call.pc = "session" /\ call.actor # NoActor
           /\ calls' = [calls EXCEPT ![p] = [call EXCEPT !.pc = "actor", !.at = now]]
           /\ UNCHANGED answers
  <2> PICK t \in Nat \ {0} : t = now
    BY <1>1
  <2> PICK next : next = OnTo(call, t)
    OBVIOUS
  <2>1. /\ next \in CallType /\ next.pc = "actor" /\ next.at = t
        /\ next.session = call.session /\ next.actor = call.actor
        /\ next.flagged = call.flagged /\ next.degraded = call.degraded
        /\ next.owed = call.owed
    BY <1>2, OnToActor
  <2>2. calls' = [calls EXCEPT ![p] = next]
    BY <1>5, Zenon DEF OnTo
  <2>3. calls' \in [Processes -> CallType \cup {Idle}]
    BY <1>1, <2>1, <2>2
  <2>4. CallOK(next, t)
    BY <1>2, <1>4, <1>5, <2>1 DEF CallOK, After
  <2>5. CallsInv'
    <3> SUFFICES ASSUME NEW q \in Processes
                 PROVE  CallOK(calls'[q], now)
      BY DEF CallsInv
    <3>1. CASE q = p
      BY <1>1, <2>2, <2>4, <3>1
    <3>2. CASE q # p
      BY <1>1, <2>2, <3>2 DEF CallsInv
    <3> QED BY <3>1, <3>2
  <2>6. ASSUME SessionsOutliveCalls
        PROVE  Met(next) /\ Unmet(next) \subseteq Unmet(old)
    <3>1. k = call.session
      BY <1>2, <1>5 DEF Charging, After
    <3>2. Met(next)
      BY <1>2, <2>1, <2>6, <3>1 DEF Met, After
    <3>3. Unmet(next) \subseteq Unmet(old)
      BY <1>1, <1>2, <1>5, <2>1, CallsAreNotIdle DEF Unmet, After
    <3> QED BY <3>2, <3>3
  <2>7. OwedInv'
    <3> SUFFICES ASSUME SessionsOutliveCalls
                 PROVE  /\ \A q \in Processes : Met(calls'[q])
                                                /\ \A j \in Unmet(calls'[q]) : IsFlagged(j, now)'
                        /\ KnownFlagIsAnswered'
      BY DEF OwedInv, SessionsOutliveCalls
    <3>1. KnownFlagIsAnswered'
      BY <1>5 DEF OwedInv, KnownFlagIsAnswered
    <3>2. ASSUME NEW q \in Processes
          PROVE  Met(calls'[q]) /\ Unmet(calls'[q]) \subseteq Unmet(calls[q])
      <4>1. CASE q = p
        BY <1>1, <2>2, <2>6, <4>1
      <4>2. CASE q # p
        BY <1>1, <2>2, <4>2 DEF OwedInv
      <4> QED BY <4>1, <4>2
    <3>3. ASSUME NEW q \in Processes, NEW j \in Unmet(calls'[q])
          PROVE  IsFlagged(j, now)'
      <4>1. j \in Unmet(calls[q]) /\ IsFlagged(j, now)
        BY <3>2, <3>3 DEF OwedInv
      <4>2. j \in Keys
        BY <1>1, <4>1 DEF Unmet, CallType
      <4> QED BY <4>1, <4>2
    <3> QED BY <3>1, <3>2, <3>3
  <2> QED BY <1>1, <1>5, <2>3, <2>5, <2>7
<1>6. CASE (call.pc = "actor" \/ call.actor = NoActor) /\ calls' = [calls EXCEPT ![p] = Idle]
           /\ answers' = [answers EXCEPT ![p] =
                 [flagged |-> call.flagged, degraded |-> call.degraded, owed |-> call.owed]]
  <2> PICK answer : answer = [flagged |-> call.flagged, degraded |-> call.degraded, owed |-> call.owed]
    OBVIOUS
  <2>1. /\ answer \in [flagged : BOOLEAN, degraded : BOOLEAN, owed : SUBSET Keys]
        /\ answer.flagged = call.flagged /\ answer.degraded = call.degraded
        /\ answer.owed = call.owed
    BY <1>3
  <2>2. answers' = [answers EXCEPT ![p] = answer] /\ calls' = [calls EXCEPT ![p] = Idle]
    BY <1>6
  <2>3. /\ calls' \in [Processes -> CallType \cup {Idle}]
        /\ answers' \in [Processes -> [flagged : BOOLEAN, degraded : BOOLEAN, owed : SUBSET Keys]]
    BY <1>1, <2>1, <2>2
  <2>4. CallsInv'
    <3> SUFFICES ASSUME NEW q \in Processes
                 PROVE  CallOK(calls'[q], now)
      BY DEF CallsInv
    <3>1. CASE q = p
      BY <1>1, <2>2, <3>1 DEF CallOK
    <3>2. CASE q # p
      BY <1>1, <2>2, <3>2 DEF CallsInv
    <3> QED BY <3>1, <3>2
  <2>5. ASSUME SessionsOutliveCalls, answer.owed # {}, ~answer.degraded
        PROVE  answer.flagged
    <3>1. Met(old)
      BY <2>5 DEF OwedInv
    <3>2. PICK j \in call.owed : TRUE
      BY <2>1, <2>5
    <3>3. ~old.degraded /\ (k \in call.owed => call.flagged) /\ (old.flagged => call.flagged)
      BY <1>2, <2>1, <2>5 DEF After
    <3>4. j \in {old.session, old.actor} /\ j # NoActor
      BY <1>2, <1>3, <1>4, SessionAssumption DEF After
    <3>5. CASE j = k
      BY <2>1, <3>3, <3>5
    <3>6. CASE j # k
      <4>1. old.pc = "actor" /\ j = old.session
        BY <1>2, <1>3, <1>6, <3>4, <3>6 DEF Charging, After
      <4>2. old.flagged
        BY <1>1, <1>2, <3>1, <3>3, <4>1, CallsAreNotIdle DEF Met, After
      <4> QED BY <2>1, <3>3, <4>2
    <3> QED BY <3>5, <3>6
  <2>6. OwedInv'
    <3> SUFFICES ASSUME SessionsOutliveCalls
                 PROVE  /\ \A q \in Processes : Met(calls'[q])
                                                /\ \A j \in Unmet(calls'[q]) : IsFlagged(j, now)'
                        /\ KnownFlagIsAnswered'
      BY DEF OwedInv, SessionsOutliveCalls
    <3>1. ASSUME NEW q \in Processes, answers'[q].owed # {}, ~answers'[q].degraded
          PROVE  answers'[q].flagged
      <4>1. CASE q = p
        BY <1>1, <2>2, <2>5, <3>1, <4>1
      <4>2. CASE q # p
        BY <1>1, <2>2, <3>1, <4>2 DEF OwedInv, KnownFlagIsAnswered
      <4> QED BY <4>1, <4>2
    <3>2. KnownFlagIsAnswered'
      BY <3>1 DEF KnownFlagIsAnswered
    <3>3. ASSUME NEW q \in Processes
          PROVE  Met(calls'[q]) /\ Unmet(calls'[q]) \subseteq Unmet(calls[q])
      <4>1. CASE q = p
        BY <1>1, <2>2, <4>1 DEF Met, Unmet
      <4>2. CASE q # p
        BY <1>1, <2>2, <4>2 DEF OwedInv
      <4> QED BY <4>1, <4>2
    <3>4. ASSUME NEW q \in Processes, NEW j \in Unmet(calls'[q])
          PROVE  IsFlagged(j, now)'
      <4>1. j \in Unmet(calls[q]) /\ IsFlagged(j, now)
        BY <3>3, <3>4 DEF OwedInv
      <4>2. j \in Keys
        BY <1>1, <4>1 DEF Unmet, CallType
      <4> QED BY <4>1, <4>2
    <3> QED BY <3>2, <3>3, <3>4
  <2> QED BY <2>3, <2>4, <2>6
<1> QED BY <1>5, <1>6 DEF Proceed
----------------------------------------------------------------------------
(* Each action preserves the invariant.                                    *)
LEMMA InitSession == Init => SessionInv
<1> SUFFICES ASSUME Init PROVE SessionInv
  OBVIOUS
<1> USE DEF Init
<1>1. NoRow \in RowType /\ NoRow.risk = 0 /\ NoRow.last = 0
      /\ NoRow.expires = 0 /\ NoRow.flagExpires = 0
  BY DEF NoRow, RowType
<1>2. TypeInv
  <2>1. store \in Deployment /\ now \in Nat \ {0}
    BY SessionAssumption
  <2>2. rows \in [Keys -> RowType]
    BY <1>1
  <2>3. \A o \in Operators : ResetOK(Split, resets[o])
    BY DEF ResetOK
  <2>4. answers \in [Processes -> [flagged : BOOLEAN, degraded : BOOLEAN, owed : SUBSET Keys]]
    OBVIOUS
  <2> QED BY <2>1, <2>2, <2>3, <2>4 DEF TypeInv
<1>3. RowsInv
  BY <1>1, SessionAssumption DEF RowsInv, RowOK
<1>4. CallsInv
  BY DEF CallsInv, CallOK
<1>5. OwedInv
  BY DEF OwedInv, Met, Unmet, KnownFlagIsAnswered
<1> QED BY <1>2, <1>3, <1>4, <1>5 DEF SessionInv

(* What the rows keep, the flags owed keep: calls and answers unchanged.   *)
LEMMA FlagsKept ==
    ASSUME TypeInv, OwedInv, UNCHANGED <<store, calls, answers>>,
           \A j \in Keys : IsFlagged(j, now) => IsFlagged(j, now)'
    PROVE  OwedInv'
<1> SUFFICES ASSUME SessionsOutliveCalls
             PROVE  /\ \A q \in Processes : Met(calls[q])
                                            /\ \A j \in Unmet(calls[q]) : IsFlagged(j, now)'
                    /\ KnownFlagIsAnswered'
  BY DEF OwedInv, SessionsOutliveCalls
<1>1. KnownFlagIsAnswered'
  BY DEF OwedInv, KnownFlagIsAnswered
<1>2. ASSUME NEW q \in Processes, NEW j \in Unmet(calls[q])
      PROVE  IsFlagged(j, now)'
  <2>1. calls[q] \in CallType \cup {Idle} /\ IsFlagged(j, now)
    BY <1>2 DEF TypeInv, OwedInv
  <2>2. j \in Keys
    BY <1>2, <2>1 DEF Unmet, CallType
  <2> QED BY <2>1, <2>2
<1> QED BY <1>1, <1>2 DEF OwedInv

(* A turn begins: it is owed the flags that stand.                         *)
LEMMA BeginTurnPreserves ==
    ASSUME SessionInv, store' = store, NEW p \in Processes, NEW s \in Sessions,
           NEW a \in Actors \cup {NoActor}, NEW delta \in Deltas, BeginTurn(p, s, a, delta)
    PROVE  SessionInv'
<1> USE DEF SessionInv
<1> PICK t \in Nat \ {0} : t = now
  BY DEF TypeInv
<1> PICK owed : owed = {j \in {s, a} \cap Keys : IsFlagged(j, now)}
  OBVIOUS
<1> PICK call : call = [pc |-> "session", session |-> s, actor |-> a, delta |-> delta, at |-> t,
                        flagged |-> FALSE, degraded |-> FALSE, owed |-> owed]
  OBVIOUS
<1>1. owed \subseteq Keys /\ owed \subseteq {s, a} /\ \A j \in owed : IsFlagged(j, now)
  OBVIOUS
<1>2. /\ call \in CallType /\ call.pc = "session" /\ call.at = t /\ call.owed = owed
      /\ call.session = s /\ call.actor = a
  BY <1>1 DEF CallType
<1>3. /\ calls' = [calls EXCEPT ![p] = call]
      /\ calls \in [Processes -> CallType \cup {Idle}]
      /\ now' = now /\ rows' = rows /\ answers' = answers /\ resets' = resets
  BY DEF BeginTurn, TypeInv
<1>4. /\ calls'[p] = call /\ \A q \in Processes \ {p} : calls'[q] = calls[q]
      /\ calls' \in [Processes -> CallType \cup {Idle}]
  BY <1>2, <1>3
<1>5. TypeInv'
  BY <1>3, <1>4 DEF TypeInv, Split
<1>6. RowsInv'
  BY <1>3 DEF RowsInv
<1>7. CallsInv'
  <2>1. CallOK(call, t)
    BY <1>1, <1>2 DEF CallOK
  <2> QED BY <1>3, <1>4, <2>1 DEF CallsInv
<1>8. OwedInv'
  <2> SUFFICES ASSUME SessionsOutliveCalls
               PROVE  /\ \A q \in Processes : Met(calls'[q])
                                              /\ \A j \in Unmet(calls'[q]) : IsFlagged(j, now)'
                      /\ KnownFlagIsAnswered'
    BY DEF OwedInv, SessionsOutliveCalls
  <2>1. KnownFlagIsAnswered'
    BY <1>3 DEF OwedInv, KnownFlagIsAnswered
  <2>2. \A j : IsFlagged(j, now)' <=> IsFlagged(j, now)
    BY <1>3 DEF IsFlagged, Alive, Sql
  <2>3. Met(call) /\ Unmet(call) = owed
    BY <1>2, CallsAreNotIdle DEF Met, Unmet
  <2>4. ASSUME NEW q \in Processes
        PROVE  Met(calls'[q]) /\ \A j \in Unmet(calls'[q]) : IsFlagged(j, now)
    <3>1. CASE q = p
      BY <1>1, <1>4, <2>3, <3>1
    <3>2. CASE q # p
      BY <1>4, <3>2 DEF OwedInv
    <3> QED BY <3>1, <3>2
  <2> QED BY <2>1, <2>2, <2>4
<1> QED BY <1>5, <1>6, <1>7, <1>8

(* A charge that is answered: the flag of its key, if owed, is in the      *)
(* answer.                                                                 *)
LEMMA ChargePreserves ==
    ASSUME SessionInv, store' = store, NEW p \in Processes, Charge(p)
    PROVE  SessionInv'
<1> USE DEF SessionInv
<1> PICK old : old = calls[p]
  OBVIOUS
<1> PICK k : k = Charging(old)
  OBVIOUS
<1> PICK told \in BOOLEAN : told = Flag(rows'[k])
  BY DEF Flag
<1> PICK call : call = [old EXCEPT !.flagged = @ \/ told]
  OBVIOUS
<1>1. /\ old # Idle /\ InTime(p) /\ UNCHANGED <<store, now, turns, resets>>
      /\ Proceed(p, call)
  BY DEF Charge
<1>2. PICK at \in ClockReads(old) : Apply(k, old.delta, at)
  BY DEF Charge
<1>3. rows' \in [Keys -> RowType] /\ RowsInv' /\ k \in Keys
  BY <1>1, <1>2, Applied
<1>4. ASSUME SessionsOutliveCalls
      PROVE  /\ \A j \in Keys : IsFlagged(j, now) => IsFlagged(j, now)'
             /\ IsFlagged(k, now) => told
  BY <1>1, <1>2, <1>4, FlagsLast
<1>5. old \in CallType
  BY <1>1 DEF TypeInv
<1>6. /\ call \in CallType /\ call.pc = old.pc /\ call.session = old.session
      /\ call.actor = old.actor /\ call.at = old.at /\ call.owed = old.owed
      /\ call.degraded = old.degraded /\ (call.flagged <=> old.flagged \/ told)
  BY <1>5 DEF CallType
<1>7. SessionsOutliveCalls /\ k \in call.owed => call.flagged
  <2> SUFFICES ASSUME SessionsOutliveCalls, k \in call.owed
               PROVE  call.flagged
    OBVIOUS
  <2>1. call.pc \in {"session", "actor"}
    BY <1>6 DEF CallType
  <2>2. k \in Unmet(old)
    BY <1>1, <1>6, <2>1 DEF Unmet, Charging
  <2>3. IsFlagged(k, now)
    BY <2>2 DEF OwedInv
  <2> QED BY <1>4, <1>6, <2>3
<1>8. After(old, call, k)
  BY <1>5, <1>6, <1>7 DEF After, CallType
<1>9. /\ calls' \in [Processes -> CallType \cup {Idle}] /\ CallsInv'
      /\ answers' \in [Processes -> [flagged : BOOLEAN, degraded : BOOLEAN, owed : SUBSET Keys]]
      /\ OwedInv'
  BY <1>1, <1>4, <1>8, Proceeding
<1>10. TypeInv'
  BY <1>1, <1>3, <1>9 DEF TypeInv, Split
<1> QED BY <1>3, <1>9, <1>10

(* A charge without an answer, whether or not it took effect.              *)
LEMMA UnavailablePreserves ==
    ASSUME SessionInv, store' = store, NEW p \in Processes, Unavailable(p)
    PROVE  SessionInv'
<1> USE DEF SessionInv
<1> PICK old : old = calls[p]
  OBVIOUS
<1> PICK k : k = Charging(old)
  OBVIOUS
<1> PICK call : call = [old EXCEPT !.degraded = TRUE]
  OBVIOUS
<1>1. old # Idle /\ UNCHANGED <<store, now, turns, resets>>
  BY DEF Unavailable
<1>2. /\ rows' \in [Keys -> RowType] /\ RowsInv'
      /\ SessionsOutliveCalls => \A j \in Keys : IsFlagged(j, now) => IsFlagged(j, now)'
  <2>1. CASE UNCHANGED rows
    <3>1. \A j : IsFlagged(j, now) => IsFlagged(j, now)'
      BY <1>1, <2>1 DEF IsFlagged, Alive, Sql
    <3> QED BY <1>1, <2>1, <3>1 DEF TypeInv, RowsInv
  <2>2. CASE InTime(p) /\ \E at \in ClockReads(old) : Apply(k, old.delta, at)
    <3>1. PICK at \in ClockReads(old) : Apply(k, old.delta, at)
      BY <2>2
    <3> QED BY <1>1, <2>2, <3>1, Applied, FlagsLast
  <2> QED BY <2>1, <2>2 DEF Unavailable
<1>3. /\ calls' \in [Processes -> CallType \cup {Idle}] /\ CallsInv'
      /\ answers' \in [Processes -> [flagged : BOOLEAN, degraded : BOOLEAN, owed : SUBSET Keys]]
      /\ OwedInv'
  <2>1. old \in CallType
    BY <1>1 DEF TypeInv
  <2>2. CASE Proceed(p, call)
    <3>1. /\ call \in CallType /\ call.pc = old.pc /\ call.session = old.session
          /\ call.actor = old.actor /\ call.at = old.at /\ call.owed = old.owed
          /\ call.degraded = TRUE /\ call.flagged = old.flagged
      BY <2>1 DEF CallType
    <3>2. After(old, call, k)
      BY <3>1 DEF After
    <3> QED BY <1>1, <1>2, <2>2, <3>2, Proceeding
  <2>3. CASE calls' = [calls EXCEPT ![p] = Idle] /\ UNCHANGED answers
    <3>1. /\ calls \in [Processes -> CallType \cup {Idle}]
          /\ answers \in [Processes -> [flagged : BOOLEAN, degraded : BOOLEAN, owed : SUBSET Keys]]
      BY DEF TypeInv
    <3>2. \A q \in Processes : calls'[q] = IF q = p THEN Idle ELSE calls[q]
      BY <2>3, <3>1
    <3>3. calls' \in [Processes -> CallType \cup {Idle}]
      BY <2>3, <3>1
    <3>4. CallsInv'
      BY <1>1, <3>2 DEF CallsInv, CallOK
    <3>5. OwedInv'
      <4> SUFFICES ASSUME SessionsOutliveCalls
                   PROVE  /\ \A q \in Processes : Met(calls'[q])
                                                  /\ \A j \in Unmet(calls'[q]) : IsFlagged(j, now)'
                          /\ KnownFlagIsAnswered'
        BY DEF OwedInv, SessionsOutliveCalls
      <4>1. KnownFlagIsAnswered'
        BY <2>3 DEF OwedInv, KnownFlagIsAnswered
      <4>2. ASSUME NEW q \in Processes
            PROVE  Met(calls'[q]) /\ Unmet(calls'[q]) \subseteq Unmet(calls[q])
        BY <3>2, <4>2 DEF OwedInv, Met, Unmet
      <4>3. ASSUME NEW q \in Processes, NEW j \in Unmet(calls'[q])
            PROVE  IsFlagged(j, now)'
        <5>1. j \in Unmet(calls[q]) /\ IsFlagged(j, now)
          BY <4>2, <4>3 DEF OwedInv
        <5>2. j \in Keys
          BY <3>1, <5>1 DEF Unmet, CallType
        <5> QED BY <1>2, <5>1, <5>2
      <4> QED BY <4>1, <4>2, <4>3
    <3> QED BY <2>3, <3>1, <3>3, <3>4, <3>5
  <2> QED BY <2>2, <2>3 DEF Unavailable
<1>4. TypeInv'
  BY <1>1, <1>2, <1>3 DEF TypeInv, Split
<1> QED BY <1>2, <1>3, <1>4
----------------------------------------------------------------------------
(* Resets, and time.                                                       *)
LEMMA BeginResetPreserves ==
    ASSUME SessionInv, store' = store, NEW o \in Operators, NEW k \in Keys, BeginReset(o, k)
    PROVE  SessionInv'
<1> USE DEF SessionInv
<1> PICK r : r = <<k>> \o ResetSteps
  OBVIOUS
<1>1. /\ resets' = [resets EXCEPT ![o] = r] /\ UNCHANGED <<now, rows, calls, turns, answers>>
      /\ resets \in [Operators -> Seq(Keys \cup Fields)]
  BY DEF BeginReset, TypeInv
<1>2. r \in Seq(Keys \cup Fields) /\ ResetOK(Split, r)
  <2> PICK steps : steps = ResetSteps
    OBVIOUS
  <2>1. /\ steps \in Seq(Keys \cup Fields) /\ Len(steps) >= 1 /\ Len(steps) \in Nat
        /\ ~Split => Len(steps) = 1 /\ steps[1] = "all"
    <3>1. CASE Split
      <4>1. steps = <<"risk", "last", "flagged">>
        BY <3>1 DEF ResetSteps, Split
      <4> QED BY <3>1, <4>1 DEF Fields
    <3>2. CASE ~Split
      <4>1. steps = <<"all">>
        BY <3>2 DEF ResetSteps, Split
      <4> QED BY <3>2, <4>1 DEF Fields
    <3> QED BY <3>1, <3>2
  <2>2. /\ r \in Seq(Keys \cup Fields) /\ Len(r) = 1 + Len(steps) /\ r[1] = k
        /\ r[2] = steps[1]
    BY <2>1
  <2> QED BY <2>1, <2>2 DEF ResetOK
<1>3. TypeInv'
  <2>1. /\ resets' \in [Operators -> Seq(Keys \cup Fields)]
        /\ \A i \in Operators : ResetOK(Split, resets'[i])
    BY <1>1, <1>2 DEF TypeInv
  <2> QED BY <1>1, <2>1 DEF TypeInv, Split
<1>4. RowsInv' /\ CallsInv'
  BY <1>1 DEF RowsInv, CallsInv
<1>5. OwedInv'
  <2>1. \A j : IsFlagged(j, now) => IsFlagged(j, now)'
    BY <1>1 DEF IsFlagged, Alive, Sql
  <2> QED BY <1>1, <2>1, FlagsKept
<1> QED BY <1>3, <1>4, <1>5

(* A reset that is left where it is.                                       *)
LEMMA AbandonResetPreserves ==
    ASSUME SessionInv, store' = store, NEW o \in Operators, AbandonReset(o)
    PROVE  SessionInv'
<1> USE DEF SessionInv
<1>1. /\ resets' = [resets EXCEPT ![o] = <<>>] /\ UNCHANGED <<now, rows, calls, turns, answers>>
      /\ resets \in [Operators -> Seq(Keys \cup Fields)]
  BY DEF AbandonReset, TypeInv
<1>2. TypeInv'
  <2>1. /\ resets' \in [Operators -> Seq(Keys \cup Fields)]
        /\ \A i \in Operators : ResetOK(Split, resets'[i])
    BY <1>1 DEF TypeInv, ResetOK
  <2> QED BY <1>1, <2>1 DEF TypeInv, Split
<1>3. RowsInv' /\ CallsInv'
  BY <1>1 DEF RowsInv, CallsInv
<1>4. OwedInv'
  <2>1. \A j : IsFlagged(j, now) => IsFlagged(j, now)'
    BY <1>1 DEF IsFlagged, Alive, Sql
  <2> QED BY <1>1, <2>1, FlagsKept
<1> QED BY <1>2, <1>3, <1>4

(* A call that is forgiven the flags of K.                                 *)
Forgive(call, K) == IF call = Idle THEN Idle ELSE [call EXCEPT !.owed = @ \ K]

(* A call forgiven flags is otherwise as it was.                           *)
LEMMA ForgivenCall ==
    ASSUME NEW call \in CallType \cup {Idle}, NEW K, NEW new, new = Forgive(call, K)
    PROVE  /\ new \in CallType \cup {Idle}
           /\ \A t : CallOK(call, t) => CallOK(new, t)
           /\ Met(call) => Met(new)
           /\ Unmet(new) = Unmet(call) \ K
<1>1. CASE call = Idle
  BY <1>1 DEF Forgive, CallOK, Met, Unmet
<1>2. CASE call \in CallType
  <2>1. call # Idle
    BY <1>2, CallsAreNotIdle
  <2>2. new = [call EXCEPT !.owed = @ \ K]
    BY <2>1 DEF Forgive
  <2>3. /\ new \in CallType /\ new.pc = call.pc /\ new.session = call.session
        /\ new.actor = call.actor /\ new.at = call.at /\ new.owed = call.owed \ K
        /\ new.flagged = call.flagged /\ new.degraded = call.degraded
    BY <1>2, <2>2 DEF CallType
  <2>4. new # Idle
    BY <2>3, CallsAreNotIdle
  <2>5. \A t : CallOK(call, t) => CallOK(new, t)
    BY <2>1, <2>3, <2>4 DEF CallOK
  <2>6. Met(call) => Met(new)
    BY <2>1, <2>3, <2>4 DEF Met
  <2>7. Unmet(new) = Unmet(call) \ K
    BY <2>1, <2>3, <2>4 DEF Unmet
  <2> QED BY <2>3, <2>5, <2>6, <2>7
<1> QED BY <1>1, <1>2

(* Flags that go are forgiven: what is still owed is still there.          *)
LEMMA ForgivenOwed ==
    ASSUME TypeInv, CallsInv, OwedInv, NEW K, calls' = Forgiven(K),
           UNCHANGED <<store, answers>>, now' \in Nat, now' >= now,
           \A j \in Keys \ K : IsFlagged(j, now) => IsFlagged(j, now)'
    PROVE  calls' \in [Processes -> CallType \cup {Idle}] /\ CallsInv' /\ OwedInv'
<1>1. \A q \in Processes : calls[q] \in CallType \cup {Idle} /\ calls'[q] = Forgive(calls[q], K)
  BY DEF TypeInv, Forgiven, Forgive
<1>2. \A q \in Processes : /\ calls'[q] \in CallType \cup {Idle}
                           /\ \A t : CallOK(calls[q], t) => CallOK(calls'[q], t)
                           /\ Met(calls[q]) => Met(calls'[q])
                           /\ Unmet(calls'[q]) = Unmet(calls[q]) \ K
  BY <1>1, ForgivenCall
<1>3. calls' \in [Processes -> CallType \cup {Idle}]
  <2>1. calls' = [q \in Processes |-> Forgive(calls[q], K)]
    BY DEF Forgiven, Forgive
  <2> QED BY <1>2, <2>1
<1>4. CallsInv'
  <2> SUFFICES ASSUME NEW q \in Processes
               PROVE  CallOK(calls'[q], now')
    BY DEF CallsInv
  <2>1. CallOK(calls'[q], now)
    BY <1>2 DEF CallsInv
  <2> QED BY <2>1 DEF CallOK, TypeInv
<1>5. OwedInv'
  <2> SUFFICES ASSUME SessionsOutliveCalls
               PROVE  /\ \A q \in Processes : Met(calls'[q])
                                              /\ \A j \in Unmet(calls'[q]) : IsFlagged(j, now)'
                      /\ KnownFlagIsAnswered'
    BY DEF OwedInv, SessionsOutliveCalls
  <2>1. KnownFlagIsAnswered'
    BY DEF OwedInv, KnownFlagIsAnswered
  <2>2. ASSUME NEW q \in Processes, NEW j \in Unmet(calls'[q])
        PROVE  IsFlagged(j, now)'
    <3>1. j \in Unmet(calls[q]) /\ j \notin K /\ IsFlagged(j, now)
      BY <1>2, <2>2 DEF OwedInv
    <3>2. j \in Keys
      BY <1>1, <3>1 DEF Unmet, CallType
    <3> QED BY <3>1, <3>2
  <2> QED BY <1>2, <2>1, <2>2 DEF OwedInv
<1> QED BY <1>3, <1>4, <1>5

(* What is left of a row by a reset, or by a step of one that is split.    *)
LEMMA WithoutIsOK ==
    ASSUME store \in Deployment, now \in Nat \ {0}, NEW k \in Keys, NEW row \in RowType,
           RowOK(store.kind, store.hashTags, row, Ttl[k], Threshold[k], now),
           NEW field, ~Split => field = "all"
    PROVE  /\ Without(row, field) \in RowType
           /\ RowOK(store.kind, store.hashTags, Without(row, field), Ttl[k], Threshold[k], now)
<1>1. /\ NoRow \in RowType /\ NoRow.risk = 0 /\ NoRow.last = 0
      /\ NoRow.expires = 0 /\ NoRow.flagExpires = 0
      /\ Ttl[k] \in Nat \ {0} /\ Threshold[k] \in Nat \ {0}
  BY SessionAssumption DEF NoRow, RowType
<1>2. RowOK(store.kind, store.hashTags, NoRow, Ttl[k], Threshold[k], now)
  BY <1>1 DEF RowOK
<1> PICK new : new = Without(row, field)
  OBVIOUS
<1>3. CASE new = NoRow
  BY <1>1, <1>2, <1>3
<1>4. CASE new # NoRow
  <2>1. /\ field \in {"risk", "last", "flagged"}
        /\ new = CASE field = "risk" -> [row EXCEPT !.risk = 0]
                   [] field = "last" -> [row EXCEPT !.last = 0]
                   [] OTHER          -> [row EXCEPT !.flagExpires = 0]
    BY <1>4 DEF Without
  <2>2. Split
    BY <2>1
  <2>3. /\ new \in RowType /\ new.expires = row.expires
        /\ new.flagExpires \in {0, row.flagExpires}
    BY <2>1 DEF RowType
  <2>4. store.kind = "redis" /\ store.hashTags = FALSE
    BY <2>2 DEF Split, Deployment
  <2> QED BY <2>3, <2>4 DEF RowOK, RowType
<1> QED BY <1>3, <1>4

(* A list without its head, with another, and a reset after a step of it.  *)
LEMMA TailOfReset ==
    ASSUME NEW S, NEW s \in Seq(S), Len(s) > 0
    PROVE  Tail(s) \in Seq(S) /\ Len(Tail(s)) = Len(s) - 1
OBVIOUS

(* A list with one more at its head.                                       *)
LEMMA HeadOnReset ==
    ASSUME NEW S, NEW k \in S, NEW s \in Seq(S)
    PROVE  <<k>> \o s \in Seq(S) /\ Len(<<k>> \o s) = Len(s) + 1 /\ (<<k>> \o s)[1] = k
OBVIOUS

(* A list whose second element is taken out.                               *)
LEMMA RestOfReset ==
    ASSUME NEW S, NEW k \in S, NEW r \in Seq(S), Len(r) > 2
    PROVE  /\ <<k>> \o Tail(Tail(r)) \in Seq(S)
           /\ Len(<<k>> \o Tail(Tail(r))) = Len(r) - 1
           /\ (<<k>> \o Tail(Tail(r)))[1] = k
<1>1. Tail(r) \in Seq(S) /\ Len(Tail(r)) = Len(r) - 1
  BY TailOfReset
<1>2. Len(Tail(r)) > 0 /\ Len(r) \in Nat
  BY <1>1
<1>3. Tail(Tail(r)) \in Seq(S) /\ Len(Tail(Tail(r))) = Len(Tail(r)) - 1
  BY <1>1, <1>2, TailOfReset, Zenon
<1>4. /\ <<k>> \o Tail(Tail(r)) \in Seq(S)
      /\ Len(<<k>> \o Tail(Tail(r))) = Len(Tail(Tail(r))) + 1
      /\ (<<k>> \o Tail(Tail(r)))[1] = k
  BY <1>3, HeadOnReset, Zenon
<1>5. Len(<<k>> \o Tail(Tail(r))) = Len(r) - 1
  <2> PICK once, twice, all : once = Len(Tail(r)) /\ twice = Len(Tail(Tail(r)))
                              /\ all = Len(<<k>> \o Tail(Tail(r)))
    BY Zenon
  <2>1. once = Len(r) - 1 /\ twice = once - 1 /\ all = twice + 1
    BY <1>1, <1>3, <1>4, Zenon
  <2>2. all = Len(r) - 1
    BY <1>2, <2>1
  <2> QED BY <2>2, Zenon
<1> QED BY <1>4, <1>5, Zenon

(* What is left to do of a reset.                                          *)
Rest(r) == IF Len(r) = 2 THEN <<>> ELSE <<r[1]>> \o Tail(Tail(r))

(* What is left of a reset is a reset, or nothing.                         *)
LEMMA RestIsOK ==
    ASSUME NEW r \in Seq(Keys \cup Fields), Len(r) >= 2, r[1] \in Keys, NEW split \in BOOLEAN,
           ~split => Len(r) = 2,
           NEW rest, rest = Rest(r)
    PROVE  rest \in Seq(Keys \cup Fields) /\ ResetOK(split, rest)
<1>1. CASE Len(r) = 2
  <2>1. rest = <<>> /\ rest \in Seq(Keys \cup Fields)
    BY <1>1 DEF Rest
  <2> QED BY <2>1 DEF ResetOK
<1>2. CASE Len(r) # 2
  <2>1. split /\ Len(r) > 2 /\ Len(r) \in Nat /\ Len(r) - 1 >= 2 /\ r[1] \in Keys \cup Fields
    <3>1. split /\ r[1] \in Keys \cup Fields
      BY <1>2, Zenon
    <3>2. \A n \in Nat : n >= 2 /\ n # 2 => n > 2 /\ n - 1 >= 2
      OBVIOUS
    <3>3. Len(r) \in Nat
      BY LenProperties
    <3> QED BY <1>2, <3>1, <3>2, <3>3, Zenon
  <2>2. rest = <<r[1]>> \o Tail(Tail(r))
    BY <1>2, Zenon DEF Rest
  <2>3. /\ rest \in Seq(Keys \cup Fields) /\ Len(rest) = Len(r) - 1 /\ rest[1] = r[1]
    <3> PICK S : S = Keys \cup Fields
      OBVIOUS
    <3> PICK k \in S : k = r[1]
      BY <2>1, Zenon
    <3>1. r \in Seq(S) /\ Len(r) > 2
      BY <2>1, Zenon
    <3>2. /\ <<k>> \o Tail(Tail(r)) \in Seq(S)
          /\ Len(<<k>> \o Tail(Tail(r))) = Len(r) - 1
          /\ (<<k>> \o Tail(Tail(r)))[1] = k
      BY <3>1, RestOfReset, Zenon
    <3> QED BY <2>2, <3>2, Zenon
  <2>4. Len(rest) >= 2 /\ rest[1] \in Keys
    BY <2>1, <2>3, Zenon
  <2> QED BY <2>1, <2>3, <2>4, Zenon DEF ResetOK
<1> QED BY <1>1, <1>2, Zenon

(* A command of a reset: the flag it may take is owed to nobody any more.  *)
LEMMA ResetStepPreserves ==
    ASSUME SessionInv, store' = store, NEW o \in Operators, ResetStep(o)
    PROVE  SessionInv'
<1> USE DEF SessionInv
<1> PICK r : r = resets[o]
  OBVIOUS
<1> PICK k : k = r[1]
  OBVIOUS
<1>1. /\ r # <<>> /\ rows' = [rows EXCEPT ![k] = Without(@, r[2])]
      /\ resets' = [resets EXCEPT ![o] = IF Len(@) = 2 THEN <<>> ELSE <<k>> \o Tail(Tail(@))]
      /\ calls' = Forgiven({k}) /\ UNCHANGED <<now, turns, answers>>
  BY DEF ResetStep
<1>2. /\ r \in Seq(Keys \cup Fields) /\ Len(r) \in Nat /\ Len(r) >= 2 /\ k \in Keys
      /\ ~Split => Len(r) = 2 /\ r[2] = "all"
  BY <1>1 DEF TypeInv, ResetOK
<1>3. rows[k] \in RowType /\ rows \in [Keys -> RowType]
  BY <1>2 DEF TypeInv
<1>4. /\ Without(rows[k], r[2]) \in RowType
      /\ RowOK(store.kind, store.hashTags, Without(rows[k], r[2]), Ttl[k], Threshold[k], now)
  <2>1. store \in Deployment /\ now \in Nat \ {0}
    BY DEF TypeInv
  <2>2. RowOK(store.kind, store.hashTags, rows[k], Ttl[k], Threshold[k], now)
    BY <1>2 DEF RowsInv
  <2>3. ~Split => r[2] = "all"
    BY <1>2
  <2> QED BY <1>2, <1>3, <2>1, <2>2, <2>3, WithoutIsOK
<1>5. /\ rows'[k] = Without(rows[k], r[2]) /\ \A j \in Keys \ {k} : rows'[j] = rows[j]
      /\ rows' \in [Keys -> RowType]
  BY <1>1, <1>2, <1>3, <1>4
<1>6. RowsInv'
  <2> SUFFICES ASSUME NEW j \in Keys
               PROVE  RowOK(store.kind, store.hashTags, rows'[j], Ttl[j], Threshold[j], now)
    BY <1>1 DEF RowsInv
  <2>1. CASE j = k
    BY <1>4, <1>5, <2>1
  <2>2. CASE j # k
    BY <1>5, <2>2 DEF RowsInv
  <2> QED BY <2>1, <2>2
<1>7. calls' \in [Processes -> CallType \cup {Idle}] /\ CallsInv' /\ OwedInv'
  <2>1. \A j \in Keys \ {k} : IsFlagged(j, now) => IsFlagged(j, now)'
    BY <1>1, <1>5 DEF IsFlagged, Alive, Sql
  <2>2. now' \in Nat /\ now' >= now
    BY <1>1 DEF TypeInv
  <2>3. UNCHANGED <<store, answers>> /\ calls' = Forgiven({k})
    BY <1>1
  <2> QED BY <2>1, <2>2, <2>3, ForgivenOwed
<1>8. /\ resets' \in [Operators -> Seq(Keys \cup Fields)]
      /\ \A i \in Operators : ResetOK(Split, resets'[i])
  <2> PICK rest : rest = Rest(r)
    OBVIOUS
  <2>1. resets' = [resets EXCEPT ![o] = rest] /\ resets \in [Operators -> Seq(Keys \cup Fields)]
    BY <1>1, Zenon DEF TypeInv, Rest
  <2>2. rest \in Seq(Keys \cup Fields) /\ ResetOK(Split, rest)
    <3>1. Split \in BOOLEAN /\ (~Split => Len(r) = 2)
      BY <1>2 DEF Split
    <3> QED BY <1>2, <3>1, RestIsOK
  <2> QED BY <2>1, <2>2 DEF TypeInv
<1>9. TypeInv'
  BY <1>1, <1>5, <1>7, <1>8 DEF TypeInv, Split
<1> QED BY <1>6, <1>7, <1>9

(* A sweep takes no flag that still counts.                                *)
LEMMA CleanupPreserves ==
    ASSUME SessionInv, store' = store, NEW cutoff \in Larger(1, now - Timeout)..now, Cleanup(cutoff)
    PROVE  SessionInv'
<1> USE DEF SessionInv
<1>1. /\ rows' = [j \in Keys |-> IF Alive(rows[j].expires, cutoff) THEN rows[j] ELSE NoRow]
      /\ UNCHANGED <<now, calls, turns, answers, resets>> /\ now \in Nat \ {0}
      /\ rows \in [Keys -> RowType]
  BY DEF Cleanup, TypeInv
<1>2. /\ NoRow \in RowType /\ NoRow.risk = 0 /\ NoRow.last = 0
      /\ NoRow.expires = 0 /\ NoRow.flagExpires = 0
  BY DEF NoRow, RowType
<1>3. rows' \in [Keys -> RowType]
  BY <1>1, <1>2
<1>4. TypeInv'
  BY <1>1, <1>3 DEF TypeInv, Split
<1>5. RowsInv'
  <2> SUFFICES ASSUME NEW j \in Keys
               PROVE  RowOK(store.kind, store.hashTags, rows'[j], Ttl[j], Threshold[j], now)
    BY <1>1 DEF RowsInv
  <2>1. RowOK(store.kind, store.hashTags, rows[j], Ttl[j], Threshold[j], now)
    BY DEF RowsInv
  <2>2. RowOK(store.kind, store.hashTags, NoRow, Ttl[j], Threshold[j], now)
    BY <1>1, <1>2, SessionAssumption DEF RowOK
  <2>3. rows'[j] \in {rows[j], NoRow}
    BY <1>1
  <2> QED BY <2>1, <2>2, <2>3
<1>6. CallsInv'
  BY <1>1 DEF CallsInv
<1>7. OwedInv'
  <2>1. ASSUME NEW j \in Keys, IsFlagged(j, now)
        PROVE  IsFlagged(j, now)'
    <3>1. /\ rows[j].flagExpires <= rows[j].expires /\ rows[j] \in RowType
      BY <1>1 DEF RowsInv, RowOK
    <3>2. cutoff <= now /\ cutoff \in Int
      BY <1>1 DEF TypeInv
    <3>3. Alive(rows[j].flagExpires, now)
      BY <2>1 DEF IsFlagged
    <3>4. Alive(rows[j].expires, cutoff)
      BY <1>1, <3>1, <3>2, <3>3 DEF Alive, RowType
    <3>5. rows'[j] = rows[j]
      BY <1>1, <3>4
    <3> QED BY <1>1, <2>1, <3>5 DEF IsFlagged, Alive, Sql
  <2> QED BY <1>1, <2>1, FlagsKept
<1> QED BY <1>4, <1>5, <1>6, <1>7

(* Time passes: flags that expire are owed to nobody.                      *)
LEMMA TickPreserves ==
    ASSUME SessionInv, store' = store, Tick
    PROVE  SessionInv'
<1> USE DEF SessionInv
<1> PICK K : K = {j \in Keys : ~IsFlagged(j, now + 1)}
  OBVIOUS
<1>1. /\ now' = now + 1 /\ calls' = Forgiven(K) /\ UNCHANGED <<rows, turns, answers, resets>>
      /\ now \in Nat \ {0}
  BY DEF Tick, TypeInv
<1>2. calls' \in [Processes -> CallType \cup {Idle}] /\ CallsInv' /\ OwedInv'
  <2>1. \A j \in Keys \ K : IsFlagged(j, now)'
    BY <1>1 DEF IsFlagged, Alive, Sql
  <2>2. \A j \in Keys \ K : IsFlagged(j, now) => IsFlagged(j, now)'
    BY <2>1
  <2>3. now' \in Nat /\ now' >= now /\ UNCHANGED <<store, answers>> /\ calls' = Forgiven(K)
    BY <1>1
  <2> QED BY <2>2, <2>3, ForgivenOwed
<1>3. TypeInv'
  BY <1>1, <1>2 DEF TypeInv, Split
<1>4. RowsInv'
  <2> SUFFICES ASSUME NEW j \in Keys
               PROVE  RowOK(store.kind, store.hashTags, rows[j], Ttl[j], Threshold[j], now + 1)
    BY <1>1 DEF RowsInv
  <2>1. RowOK(store.kind, store.hashTags, rows[j], Ttl[j], Threshold[j], now)
    BY DEF RowsInv
  <2>2. rows[j] \in RowType /\ Ttl[j] \in Nat
    BY SessionAssumption DEF TypeInv
  <2> QED BY <1>1, <2>1, <2>2 DEF RowOK, RowType
<1> QED BY <1>2, <1>3, <1>4

(* Nothing happens.                                                        *)
LEMMA StutterPreserves ==
    ASSUME SessionInv, UNCHANGED vars
    PROVE  SessionInv'
BY DEF SessionInv, vars, TypeInv, Split, RowsInv, CallsInv, OwedInv, KnownFlagIsAnswered,
       IsFlagged, Alive, Sql, SessionsOutliveCalls

(* Each action keeps the invariant.                                        *)
LEMMA SessionStep == SessionInv /\ [Next]_vars => SessionInv'
<1> SUFFICES ASSUME SessionInv, [Next]_vars
             PROVE  SessionInv'
  OBVIOUS
<1>1. ASSUME NEW p \in Processes, NEW s \in Sessions, NEW a \in Actors \cup {NoActor},
             NEW delta \in Deltas, BeginTurn(p, s, a, delta), store' = store
      PROVE  SessionInv'
  BY <1>1, BeginTurnPreserves
<1>2. ASSUME NEW p \in Processes, Charge(p), store' = store
      PROVE  SessionInv'
  BY <1>2, ChargePreserves
<1>3. ASSUME NEW p \in Processes, Unavailable(p), store' = store
      PROVE  SessionInv'
  BY <1>3, UnavailablePreserves
<1>4. ASSUME NEW o \in Operators, NEW k \in Keys, BeginReset(o, k), store' = store
      PROVE  SessionInv'
  BY <1>4, BeginResetPreserves
<1>5. ASSUME NEW o \in Operators, ResetStep(o), store' = store
      PROVE  SessionInv'
  BY <1>5, ResetStepPreserves
<1>6. ASSUME NEW o \in Operators, AbandonReset(o), store' = store
      PROVE  SessionInv'
  BY <1>6, AbandonResetPreserves
<1>7. ASSUME NEW cutoff \in Larger(1, now - Timeout)..now, Cleanup(cutoff), store' = store
      PROVE  SessionInv'
  BY <1>7, CleanupPreserves
<1>8. CASE Tick /\ store' = store
  BY <1>8, TickPreserves
<1>9. CASE UNCHANGED vars
  BY <1>9, StutterPreserves
<1> QED BY <1>1, <1>2, <1>3, <1>4, <1>5, <1>6, <1>7, <1>8, <1>9 DEF Next

(* The invariant of the session stores.                                    *)
THEOREM SessionInvariant == Spec => []SessionInv
BY InitSession, SessionStep, PTL DEF Spec

(* A session at or over the threshold is flagged, on every store whose     *)
(* resets take a session whole: record_turn_risk_and_check of              *)
(* services/rate_limiter.py over sessions/, whatever the interleaving.     *)
THEOREM RiskyIsFlagged == Spec => []OverThresholdIsFlagged
<1>1. SessionInv => OverThresholdIsFlagged
  <2> SUFFICES ASSUME SessionInv, NEW k \in Keys, Status(k) = "live",
                      Risk(k) >= Threshold[k], store.hashTags
               PROVE  Flagged(k)
    BY DEF OverThresholdIsFlagged
  <2>1. /\ rows[k] \in RowType /\ now \in Nat \ {0}
        /\ RowOK(store.kind, store.hashTags, rows[k], Ttl[k], Threshold[k], now)
    BY DEF SessionInv, TypeInv, RowsInv
  <2>2. StatusOf(store.kind, rows[k], now) = "live" /\ RiskOf(store.kind, rows[k], now) >= Threshold[k]
    BY Views
  <2>3. rows[k].risk >= Threshold[k]
    BY <2>2 DEF RiskOf
  <2>4. rows[k].expires > 0 /\ rows[k].flagExpires = rows[k].expires
    BY <2>1, <2>3 DEF RowOK
  <2>5. AliveAt(store.kind, rows[k].flagExpires, now)
    BY <2>1, <2>2, <2>4 DEF StatusOf, Larger, RowType
  <2>6. FlaggedOf(store.kind, rows[k], now)
    BY <2>1, <2>2, <2>4, <2>5 DEF FlaggedOf, FlagOf, AliveAt
  <2> QED BY <2>6, Views
<1> QED BY <1>1, SessionInvariant, PTL

(* A turn of a session or an actor flagged when it began is answered as    *)
(* flagged, unless the flag went meanwhile or the store did not answer:    *)
(* record_turn_risk_and_check, where sessions outlive the calls about them.*)
THEOREM FlagsAreAnswered ==
    ASSUME SessionsOutliveCalls
    PROVE  Spec => []KnownFlagIsAnswered
<1>1. SessionInv => KnownFlagIsAnswered
  BY DEF SessionInv, OwedInv
<1> QED BY <1>1, SessionInvariant, PTL
----------------------------------------------------------------------------
(* The stores keep the contract of SessionContract.                        *)

(* What is seen of a key whose row stays.                                  *)
LEMMA SeenTheSame ==
    ASSUME NEW k \in Keys, rows'[k] = rows[k], UNCHANGED <<store, now>>
    PROVE  Status(k)' = Status(k) /\ Risk(k)' = Risk(k) /\ (Flagged(k)' <=> Flagged(k))
BY Views, Zenon

(* A key is seen flagged or not.                                           *)
LEMMA FlaggedIsBoolean ==
    ASSUME NEW k \in Keys
    PROVE  Flagged(k) \in BOOLEAN /\ Flagged(k)' \in BOOLEAN
BY DEF Flagged

(* A row that is updated, as the contract sees it: a Charge.               *)
LEMMA ContractCharges ==
    ASSUME NEW k \in Keys, NEW delta \in Deltas, UNCHANGED <<store, now>>,
           \A j \in Keys \ {k} : rows'[j] = rows[j],
           Updated(store.kind, rows[k], rows'[k], k, delta, now),
           StatusOf(store.kind, rows'[k], now) = "live"
    PROVE  Contract!Next
<1>1. \A j \in Keys \ {k} : /\ Status(j)' = Status(j) /\ Risk(j)' = Risk(j)
                            /\ Flagged(j)' <=> Flagged(j)
  BY SeenTheSame
<1>2. \A j \in Keys : Flagged(j) \in BOOLEAN /\ Flagged(j)' \in BOOLEAN
  BY FlaggedIsBoolean
<1>3. PICK was \in BOOLEAN, before \in Nat : \E left \in 0..before :
        /\ \/ /\ StatusOf(store.kind, rows[k], now) # "absent"
              /\ before = rows[k].risk /\ was = FlagOf(store.kind, rows[k], now)
           \/ /\ StatusOf(store.kind, rows[k], now) # "live"
              /\ before = 0 /\ was = FALSE
        /\ rows'[k].risk = left + delta
        /\ FlagOf(store.kind, rows'[k], now) <=> was \/ left + delta >= Threshold[k]
  BY DEF Updated
<1>4. PICK left \in 0..before :
        /\ rows'[k].risk = left + delta
        /\ FlagOf(store.kind, rows'[k], now) <=> was \/ left + delta >= Threshold[k]
  BY <1>3
<1>5. \/ Status(k) # "absent" /\ before = Risk(k) /\ was = Flagged(k)
      \/ Status(k) # "live" /\ before = 0 /\ was = FALSE
  <2>1. CASE /\ StatusOf(store.kind, rows[k], now) # "absent"
             /\ before = rows[k].risk /\ was = FlagOf(store.kind, rows[k], now)
    BY <1>2, <2>1, Views DEF RiskOf, FlaggedOf
  <2>2. CASE /\ StatusOf(store.kind, rows[k], now) # "live"
             /\ before = 0 /\ was = FALSE
    BY <2>2, Views
  <2> QED BY <1>3, <2>1, <2>2
<1>6. /\ Status(k)' = "live" /\ Risk(k)' = left + delta
      /\ Flagged(k)' = (was \/ left + delta >= Threshold[k])
  <2>1. Status(k)' = "live" /\ Risk(k)' = left + delta
    BY <1>4, Views DEF RiskOf
  <2>2. Flagged(k)' <=> was \/ left + delta >= Threshold[k]
    BY <1>4, Views DEF FlaggedOf
  <2> QED BY <1>2, <2>1, <2>2
<1>7. /\ [j \in Keys |-> Status(j)]' = [[j \in Keys |-> Status(j)] EXCEPT ![k] = "live"]
      /\ [j \in Keys |-> Risk(j)]' = [[j \in Keys |-> Risk(j)] EXCEPT ![k] = left + delta]
      /\ [j \in Keys |-> Flagged(j)]' =
            [[j \in Keys |-> Flagged(j)] EXCEPT ![k] = was \/ left + delta >= Threshold[k]]
  BY <1>1, <1>2, <1>6
<1>8. Contract!Update(k, before, was)
  BY <1>4, <1>7 DEF Contract!Update
<1>9. Contract!Charge(k)
  BY <1>5, <1>8 DEF Contract!Charge
<1> QED BY <1>9 DEF Contract!Next

(* What time, or a sweep, does to what is seen of a row.                   *)
Lapsing(sticky, status, risk, flagged, status1, risk1, flagged1) ==
    \/ status1 = "lapsed" /\ status # "absent" /\ risk1 = risk /\ flagged1 = flagged
    \/ status1 = "absent" /\ risk1 = 0 /\ ~flagged1
    \/ ~sticky /\ status1 = status /\ risk1 = risk /\ ~flagged1
    \/ status1 = status /\ risk1 = risk /\ flagged1 = flagged

(* Keys that lapse, each in its way: a step of the contract.               *)
LEMMA ContractLapses ==
    ASSUME store' = store,
           \A k \in Keys : Lapsing(store.kind # "redis", Status(k), Risk(k), Flagged(k),
                                   Status(k)', Risk(k)', Flagged(k)')
    PROVE  Contract!Next
<1>1. ASSUME NEW k \in Keys
      PROVE  Contract!Lapse(k)
  BY <1>1 DEF Contract!Lapse, Lapsing
<1> QED BY <1>1 DEF Contract!Next

(* A row lapses, or stays, as a tick passes.                               *)
LEMMA TickLapses ==
    ASSUME NEW kind \in {"memory", "redis", "postgres", "mysql"}, NEW tags, NEW row \in RowType,
           NEW ttl, NEW threshold, NEW t \in Nat \ {0}, RowOK(kind, tags, row, ttl, threshold, t)
    PROVE  Lapsing(kind # "redis", StatusOf(kind, row, t), RiskOf(kind, row, t),
                   FlaggedOf(kind, row, t), StatusOf(kind, row, t + 1),
                   RiskOf(kind, row, t + 1), FlaggedOf(kind, row, t + 1))
<1>1. /\ row.risk \in Nat /\ row.last \in Nat /\ row.expires \in Nat /\ row.flagExpires \in Nat
      /\ Timeout \in Nat
  BY SessionAssumption DEF RowType
<1>2. CASE StatusOf(kind, row, t + 1) = "absent"
  BY <1>2 DEF Lapsing, RiskOf, FlaggedOf
<1>3. CASE StatusOf(kind, row, t + 1) = "lapsed"
  <2>1. IsSql(kind)
    BY <1>3 DEF StatusOf, IsSql
  <2>2. StatusOf(kind, row, t) # "absent"
    <3> PICK ends : ends = Larger(row.expires, row.flagExpires)
      OBVIOUS
    <3>1. ends \in Nat
      BY <1>1 DEF Larger
    <3>2. Left(row) /\ (kind = "postgres" \/ AliveAt(kind, ends, (t + 1) - Timeout))
      <4>1. ~Left(row) => StatusOf(kind, row, t + 1) = "absent"
        BY DEF StatusOf
      <4>2. kind # "postgres" /\ ~AliveAt(kind, ends, (t + 1) - Timeout) =>
               StatusOf(kind, row, t + 1) \in {"live", "absent"}
        BY DEF StatusOf
      <4> QED BY <1>3, <4>1, <4>2
    <3>3. AliveAt(kind, ends, (t + 1) - Timeout) => AliveAt(kind, ends, t - Timeout)
      BY <1>1, <3>1 DEF AliveAt
    <3> QED BY <2>1, <3>2, <3>3 DEF StatusOf
  <2>3. FlagOf(kind, row, t) = FlagOf(kind, row, t + 1)
    BY <2>1 DEF FlagOf
  <2> QED BY <1>3, <2>2, <2>3 DEF Lapsing, RiskOf, FlaggedOf
<1>4. CASE StatusOf(kind, row, t + 1) = "live"
  <2>1. StatusOf(kind, row, t) = "live" /\ AliveAt(kind, row.expires, t + 1)
    BY <1>1, <1>4 DEF StatusOf, IsSql, AliveAt, Larger, RowOK
  <2>2. kind # "redis" => FlagOf(kind, row, t) = FlagOf(kind, row, t + 1)
    <3>1. CASE IsSql(kind)
      BY <3>1 DEF FlagOf
    <3>2. CASE kind = "memory"
      <4>1. ~IsSql(kind) /\ row.expires > t + 1
        BY <2>1, <3>2 DEF IsSql, AliveAt
      <4>2. row.flagExpires = row.expires \/ row.flagExpires <= t
        BY <3>2 DEF RowOK
      <4> QED BY <1>1, <4>1, <4>2 DEF FlagOf
    <3> QED BY <3>1, <3>2 DEF IsSql
  <2>3. FlagOf(kind, row, t + 1) => FlagOf(kind, row, t)
    BY <1>1 DEF FlagOf
  <2>4. CASE FlagOf(kind, row, t) = FlagOf(kind, row, t + 1)
    BY <1>4, <2>1, <2>4 DEF Lapsing, RiskOf, FlaggedOf
  <2>5. CASE FlagOf(kind, row, t) # FlagOf(kind, row, t + 1)
    <3>1. kind = "redis" /\ ~FlagOf(kind, row, t + 1)
      BY <2>2, <2>3, <2>5 DEF FlagOf
    <3> QED BY <1>4, <2>1, <3>1 DEF Lapsing, RiskOf, FlaggedOf
  <2> QED BY <2>4, <2>5
<1> QED BY <1>2, <1>3, <1>4 DEF StatusOf

(* Of a row that is not there nothing is seen.                             *)
LEMMA NothingIsSeen ==
    ASSUME NEW kind, NEW t
    PROVE  /\ StatusOf(kind, NoRow, t) = "absent" /\ RiskOf(kind, NoRow, t) = 0
           /\ ~FlaggedOf(kind, NoRow, t)
<1>1. ~Left(NoRow)
  BY DEF Left, NoRow
<1>2. StatusOf(kind, NoRow, t) = "absent"
  BY <1>1 DEF StatusOf
<1> QED BY <1>2 DEF RiskOf, FlaggedOf

(* A tick is a lapse of the contract.                                      *)
LEMMA ContractTicks ==
    ASSUME SessionInv, store' = store, Tick
    PROVE  Contract!Next
<1>1. /\ now' = now + 1 /\ rows' = rows /\ now \in Nat \ {0}
      /\ store.kind \in {"memory", "redis", "postgres", "mysql"}
  BY DEF Tick, SessionInv, TypeInv, Deployment
<1>2. ASSUME NEW k \in Keys
      PROVE  Lapsing(store.kind # "redis", Status(k), Risk(k), Flagged(k),
                     Status(k)', Risk(k)', Flagged(k)')
  <2>1. rows[k] \in RowType /\ RowOK(store.kind, store.hashTags, rows[k], Ttl[k], Threshold[k], now)
    BY DEF SessionInv, TypeInv, RowsInv
  <2>2. Lapsing(store.kind # "redis", StatusOf(store.kind, rows[k], now),
                RiskOf(store.kind, rows[k], now), FlaggedOf(store.kind, rows[k], now),
                StatusOf(store.kind, rows[k], now + 1), RiskOf(store.kind, rows[k], now + 1),
                FlaggedOf(store.kind, rows[k], now + 1))
    BY <1>1, <2>1, TickLapses
  <2>3. /\ Status(k)' = StatusOf(store.kind, rows[k], now + 1)
        /\ Risk(k)' = RiskOf(store.kind, rows[k], now + 1)
        /\ Flagged(k)' = FlaggedOf(store.kind, rows[k], now + 1)
    BY <1>1, Views, FlaggedIsBoolean DEF FlaggedOf
  <2>4. /\ Status(k) = StatusOf(store.kind, rows[k], now)
        /\ Risk(k) = RiskOf(store.kind, rows[k], now)
        /\ Flagged(k) = FlaggedOf(store.kind, rows[k], now)
    BY Views, FlaggedIsBoolean DEF FlaggedOf
  <2> QED BY <2>2, <2>3, <2>4
<1> QED BY <1>2, ContractLapses

(* So is a sweep.                                                          *)
LEMMA ContractSweeps ==
    ASSUME SessionInv, store' = store, NEW cutoff, Cleanup(cutoff)
    PROVE  Contract!Next
<1>1. /\ now' = now
      /\ \A k \in Keys : rows'[k] \in {rows[k], NoRow}
  BY DEF Cleanup
<1>2. ASSUME NEW k \in Keys
      PROVE  Lapsing(store.kind # "redis", Status(k), Risk(k), Flagged(k),
                     Status(k)', Risk(k)', Flagged(k)')
  <2>1. CASE rows'[k] = rows[k]
    <3>1. Status(k)' = Status(k) /\ Risk(k)' = Risk(k) /\ Flagged(k)' = Flagged(k)
      BY <1>1, <2>1, SeenTheSame, FlaggedIsBoolean
    <3> QED BY <3>1 DEF Lapsing
  <2>2. CASE rows'[k] = NoRow
    <3>1. Status(k)' = "absent" /\ Risk(k)' = 0 /\ ~Flagged(k)'
      BY <2>2, Views, NothingIsSeen
    <3> QED BY <3>1 DEF Lapsing
  <2> QED BY <1>1, <2>1, <2>2
<1> QED BY <1>2, ContractLapses

(* What is seen of a row after a reset, or a step of one that is split:    *)
(* nothing; or all but the risk; or all but the flag; or the same.         *)
Resetting(split, status, risk, flagged, status1, risk1, flagged1) ==
    \/ status1 = "absent" /\ risk1 = 0 /\ ~flagged1
    \/ status1 = status /\ risk1 = 0 /\ flagged1 = flagged
    \/ split /\ status1 = status /\ risk1 = risk /\ ~flagged1
    \/ status1 = status /\ risk1 = risk /\ flagged1 = flagged

(* A reset, or a command of one, is a reset, a lapse or nothing.           *)
LEMMA ContractResets ==
    ASSUME NEW k \in Keys, UNCHANGED <<store, now>>, \A j \in Keys \ {k} : rows'[j] = rows[j],
           Resetting(Split, Status(k), Risk(k), Flagged(k), Status(k)', Risk(k)', Flagged(k)')
    PROVE  Contract!Next \/ UNCHANGED Contract!vars
<1>1. \A j \in Keys \ {k} : Status(j)' = Status(j) /\ Risk(j)' = Risk(j) /\ Flagged(j)' = Flagged(j)
  BY SeenTheSame, FlaggedIsBoolean
<1>2. Flagged(k) \in BOOLEAN /\ Flagged(k)' \in BOOLEAN
  BY FlaggedIsBoolean
<1>3. CASE Status(k)' = "absent" /\ Risk(k)' = 0 /\ ~Flagged(k)'
  <2>1. /\ [j \in Keys |-> Status(j)]' = [[j \in Keys |-> Status(j)] EXCEPT ![k] = "absent"]
        /\ [j \in Keys |-> Risk(j)]' = [[j \in Keys |-> Risk(j)] EXCEPT ![k] = 0]
        /\ [j \in Keys |-> Flagged(j)]' = [[j \in Keys |-> Flagged(j)] EXCEPT ![k] = FALSE]
    BY <1>1, <1>2, <1>3
  <2>2. Contract!Reset(k)
    BY <2>1 DEF Contract!Reset
  <2> QED BY <2>2 DEF Contract!Next
<1>4. CASE Status(k)' = Status(k) /\ Risk(k)' = 0 /\ Flagged(k)' = Flagged(k)
  <2>1. /\ [j \in Keys |-> Status(j)]' = [j \in Keys |-> Status(j)]
        /\ [j \in Keys |-> Risk(j)]' = [[j \in Keys |-> Risk(j)] EXCEPT ![k] = 0]
        /\ [j \in Keys |-> Flagged(j)]' = [j \in Keys |-> Flagged(j)]
    BY <1>1, <1>4
  <2>2. Contract!ResetRisk(k)
    BY <2>1 DEF Contract!ResetRisk
  <2> QED BY <2>2 DEF Contract!Next
<1>5. CASE Split /\ Status(k)' = Status(k) /\ Risk(k)' = Risk(k) /\ ~Flagged(k)'
  <2>1. ASSUME NEW j \in Keys
        PROVE  Lapsing(store.kind # "redis", Status(j), Risk(j), Flagged(j),
                       Status(j)', Risk(j)', Flagged(j)')
    BY <1>1, <1>5 DEF Lapsing, Split
  <2> QED BY <2>1, ContractLapses
<1>6. CASE Status(k)' = Status(k) /\ Risk(k)' = Risk(k) /\ Flagged(k)' = Flagged(k)
  <2>1. /\ [j \in Keys |-> Status(j)]' = [j \in Keys |-> Status(j)]
        /\ [j \in Keys |-> Risk(j)]' = [j \in Keys |-> Risk(j)]
        /\ [j \in Keys |-> Flagged(j)]' = [j \in Keys |-> Flagged(j)]
    BY <1>1, <1>6
  <2> QED BY <2>1 DEF Contract!vars
<1> QED BY <1>3, <1>4, <1>5, <1>6 DEF Resetting

(* What each command of a reset leaves to be seen.                         *)
LEMMA ResetIsSeen ==
    ASSUME NEW kind, NEW split \in BOOLEAN, split => kind = "redis", NEW row \in RowType,
           row.flagExpires <= row.expires, NEW t \in Nat \ {0},
           NEW field, ~split => field = "all"
    PROVE  Resetting(split, StatusOf(kind, row, t), RiskOf(kind, row, t), FlaggedOf(kind, row, t),
                     StatusOf(kind, Without(row, field), t), RiskOf(kind, Without(row, field), t),
                     FlaggedOf(kind, Without(row, field), t))
<1> PICK new : new = Without(row, field)
  OBVIOUS
<1>1. CASE new = NoRow
  BY <1>1, NothingIsSeen DEF Resetting
<1>2. CASE new # NoRow
  <2>1. split /\ kind = "redis" /\ ~IsSql(kind)
    BY <1>2 DEF Without, IsSql
  <2>2. \/ new = [row EXCEPT !.risk = 0]
        \/ new = [row EXCEPT !.last = 0]
        \/ new = [row EXCEPT !.flagExpires = 0]
    BY <1>2 DEF Without
  <2>3. /\ new \in RowType
        /\ row.risk \in Nat /\ row.last \in Nat /\ row.expires \in Nat /\ row.flagExpires \in Nat
    BY <2>2 DEF RowType
  <2>4. /\ StatusOf(kind, row, t) = IF Left(row) /\ row.expires > t THEN "live" ELSE "absent"
        /\ FlagOf(kind, row, t) = (row.flagExpires > 0 /\ row.flagExpires > t)
    BY <2>1, <2>3 DEF StatusOf, AliveAt, FlagOf, Larger
  <2>5. /\ StatusOf(kind, new, t) = IF Left(new) /\ new.expires > t THEN "live" ELSE "absent"
        /\ FlagOf(kind, new, t) = (new.flagExpires > 0 /\ new.flagExpires > t)
        /\ new.expires = row.expires
    <3>1. new.expires = row.expires /\ new.flagExpires <= new.expires /\ new.flagExpires \in Nat
      BY <2>2, <2>3 DEF RowType
    <3> QED BY <2>1, <2>3, <3>1 DEF StatusOf, AliveAt, FlagOf, Larger
  <2>6. CASE StatusOf(kind, new, t) = "absent"
    BY <2>6 DEF Resetting, RiskOf, FlaggedOf
  <2>7. CASE StatusOf(kind, new, t) # "absent"
    <3>1. StatusOf(kind, new, t) = "live"
      BY <2>5, <2>7
    <3>2. Left(row)
      BY <2>2, <2>3, <2>5, <3>1 DEF Left, RowType
    <3>3. StatusOf(kind, row, t) = "live"
      BY <2>4, <2>5, <3>1, <3>2
    <3>4. CASE new = [row EXCEPT !.risk = 0]
      <4>1. new.risk = 0 /\ new.flagExpires = row.flagExpires
        BY <3>4 DEF RowType
      <4>2. FlagOf(kind, new, t) = FlagOf(kind, row, t)
        BY <2>4, <2>5, <4>1
      <4> QED BY <3>1, <3>3, <4>1, <4>2 DEF Resetting, RiskOf, FlaggedOf
    <3>5. CASE new = [row EXCEPT !.last = 0]
      <4>1. new.risk = row.risk /\ new.flagExpires = row.flagExpires
        BY <3>5 DEF RowType
      <4>2. FlagOf(kind, new, t) = FlagOf(kind, row, t)
        BY <2>4, <2>5, <4>1
      <4> QED BY <3>1, <3>3, <4>1, <4>2 DEF Resetting, RiskOf, FlaggedOf
    <3>6. CASE new = [row EXCEPT !.flagExpires = 0]
      <4>1. new.risk = row.risk /\ new.flagExpires = 0
        BY <3>6 DEF RowType
      <4>2. ~FlagOf(kind, new, t)
        BY <4>1 DEF FlagOf
      <4> QED BY <2>1, <3>1, <3>3, <4>1, <4>2 DEF Resetting, RiskOf, FlaggedOf
    <3> QED BY <2>2, <3>4, <3>5, <3>6
  <2> QED BY <2>6, <2>7
<1> QED BY <1>1, <1>2

(* A command of a reset keeps the contract.                                *)
LEMMA ContractResetSteps ==
    ASSUME SessionInv, store' = store, NEW o \in Operators, ResetStep(o)
    PROVE  Contract!Next \/ UNCHANGED Contract!vars
<1> PICK k, field : k = resets[o][1] /\ field = resets[o][2]
  OBVIOUS
<1>1. /\ rows' = [rows EXCEPT ![k] = Without(@, field)] /\ now' = now /\ resets[o] # <<>>
      /\ rows \in [Keys -> RowType] /\ now \in Nat \ {0}
  BY DEF ResetStep, SessionInv, TypeInv
<1>2. k \in Keys /\ (~Split => field = "all")
  BY <1>1 DEF SessionInv, TypeInv, ResetOK
<1>3. rows'[k] = Without(rows[k], field) /\ \A j \in Keys \ {k} : rows'[j] = rows[j]
  BY <1>1, <1>2
<1>4. /\ rows[k] \in RowType /\ rows[k].flagExpires <= rows[k].expires
      /\ Split \in BOOLEAN /\ (Split => store.kind = "redis")
  BY <1>1, <1>2 DEF SessionInv, RowsInv, RowOK, Split
<1>5. Resetting(Split, StatusOf(store.kind, rows[k], now), RiskOf(store.kind, rows[k], now),
                FlaggedOf(store.kind, rows[k], now), StatusOf(store.kind, rows'[k], now),
                RiskOf(store.kind, rows'[k], now), FlaggedOf(store.kind, rows'[k], now))
  BY <1>1, <1>2, <1>3, <1>4, ResetIsSeen
<1>6. /\ Status(k) = StatusOf(store.kind, rows[k], now)
      /\ Risk(k) = RiskOf(store.kind, rows[k], now)
      /\ Flagged(k) = FlaggedOf(store.kind, rows[k], now)
      /\ Status(k)' = StatusOf(store.kind, rows'[k], now)
      /\ Risk(k)' = RiskOf(store.kind, rows'[k], now)
      /\ Flagged(k)' = FlaggedOf(store.kind, rows'[k], now)
  BY <1>1, <1>2, Views, FlaggedIsBoolean DEF FlaggedOf
<1>7. Resetting(Split, Status(k), Risk(k), Flagged(k), Status(k)', Risk(k)', Flagged(k)')
  BY <1>5, <1>6
<1> QED BY <1>1, <1>2, <1>3, <1>7, ContractResets

(* Where neither rows nor time change nothing else is seen.                *)
LEMMA SeenAsBefore ==
    ASSUME UNCHANGED <<store, now, rows>>
    PROVE  UNCHANGED Contract!vars
<1>1. \A j \in Keys : Status(j)' = Status(j) /\ Risk(j)' = Risk(j) /\ Flagged(j)' = Flagged(j)
  BY SeenTheSame, FlaggedIsBoolean
<1>2. /\ [j \in Keys |-> Status(j)]' = [j \in Keys |-> Status(j)]
      /\ [j \in Keys |-> Risk(j)]' = [j \in Keys |-> Risk(j)]
      /\ [j \in Keys |-> Flagged(j)]' = [j \in Keys |-> Flagged(j)]
  BY <1>1
<1> QED BY <1>2 DEF Contract!vars

(* A charge that takes effect keeps the contract, answered or not.         *)
LEMMA ContractApplied ==
    ASSUME SessionInv, SessionsOutliveCalls, store' = store, NEW p \in Processes,
           calls[p] # Idle, InTime(p), UNCHANGED now,
           \E at \in ClockReads(calls[p]) : Apply(Charging(calls[p]), calls[p].delta, at)
    PROVE  Contract!Next
<1> PICK k, delta : k = Charging(calls[p]) /\ delta = calls[p].delta
  OBVIOUS
<1>1. PICK at \in ClockReads(calls[p]) : Apply(k, delta, at)
  OBVIOUS
<1>2. /\ k \in Keys /\ delta \in Deltas /\ \A j \in Keys \ {k} : rows'[j] = rows[j]
      /\ Good(store.kind, store.hashTags, rows[k], rows'[k], k, delta, now)
  BY <1>1, Applied DEF SessionInv
<1>3. IsSql(store.kind) => Ttl[k] >= Timeout
  BY <1>2 DEF SessionsOutliveCalls, SessionInv, TypeInv, IsSql
<1>4. /\ Updated(store.kind, rows[k], rows'[k], k, delta, now)
      /\ StatusOf(store.kind, rows'[k], now) = "live"
  BY <1>2, <1>3 DEF Good, Lasting
<1> QED BY <1>2, <1>4, ContractCharges

(* Each action is a step of the contract or a stutter.                     *)
LEMMA ContractStep ==
    ASSUME SessionsOutliveCalls, SessionInv, [Next]_vars
    PROVE  [Contract!Next]_(Contract!vars)
<1> SUFFICES Contract!Next \/ UNCHANGED Contract!vars
  OBVIOUS
<1>1. ASSUME NEW p \in Processes, NEW s \in Sessions, NEW a \in Actors \cup {NoActor},
             NEW delta \in Deltas, BeginTurn(p, s, a, delta), store' = store
      PROVE  UNCHANGED Contract!vars
  BY <1>1, SeenAsBefore DEF BeginTurn
<1>2. ASSUME NEW p \in Processes, Charge(p), store' = store
      PROVE  Contract!Next
  BY <1>2, ContractApplied DEF Charge
<1>3. ASSUME NEW p \in Processes, Unavailable(p), store' = store
      PROVE  Contract!Next \/ UNCHANGED Contract!vars
  <2>1. now' = now /\ calls[p] # Idle
    BY <1>3 DEF Unavailable
  <2>2. CASE UNCHANGED rows
    BY <1>3, <2>1, <2>2, SeenAsBefore
  <2>3. CASE InTime(p) /\ \E at \in ClockReads(calls[p]) : Apply(Charging(calls[p]), calls[p].delta, at)
    BY <1>3, <2>1, <2>3, ContractApplied
  <2> QED BY <1>3, <2>2, <2>3 DEF Unavailable
<1>4. ASSUME NEW o \in Operators, NEW k \in Keys, BeginReset(o, k), store' = store
      PROVE  UNCHANGED Contract!vars
  BY <1>4, SeenAsBefore DEF BeginReset
<1>5. ASSUME NEW o \in Operators, ResetStep(o), store' = store
      PROVE  Contract!Next \/ UNCHANGED Contract!vars
  BY <1>5, ContractResetSteps
<1>6. ASSUME NEW o \in Operators, AbandonReset(o), store' = store
      PROVE  UNCHANGED Contract!vars
  BY <1>6, SeenAsBefore DEF AbandonReset
<1>7. ASSUME NEW cutoff \in Larger(1, now - Timeout)..now, Cleanup(cutoff), store' = store
      PROVE  Contract!Next
  BY <1>7, ContractSweeps
<1>8. CASE Tick /\ store' = store
  BY <1>8, ContractTicks
<1>9. CASE UNCHANGED vars
  BY <1>9, SeenAsBefore DEF vars
<1> QED BY <1>1, <1>2, <1>3, <1>4, <1>5, <1>6, <1>7, <1>8, <1>9 DEF Next

(* At first the contract holds of empty stores.                            *)
LEMMA ContractInit == Init => Contract!Init
<1> SUFFICES ASSUME Init PROVE Contract!Init
  OBVIOUS
<1>1. ASSUME NEW k \in Keys
      PROVE  Status(k) = "absent" /\ Risk(k) = 0 /\ Flagged(k) = FALSE
  <2>1. rows[k] = NoRow
    BY DEF Init
  <2> QED BY <2>1, Views, NothingIsSeen, FlaggedIsBoolean
<1> QED BY <1>1 DEF Contract!Init

(* The session stores of sessions/, each kind of them, implement the       *)
(* contract of SessionStore: what is seen of a key changes only as an      *)
(* update, a reset or time may change it, where sessions outlive calls.    *)
THEOREM StoresKeepTheContract ==
    ASSUME SessionsOutliveCalls
    PROVE  Spec => KeepsContract
<1>1. SessionInv /\ [Next]_vars => [Contract!Next]_(Contract!vars)
  BY ContractStep
<1> QED BY <1>1, ContractInit, SessionInvariant, PTL DEF Spec, KeepsContract, Contract!Spec
=============================================================================
