-------------------------- MODULE ScopeGuard_proofs --------------------------
(* What TLC checks of the two halves of the scope guard, CapabilityTokens  *)
(* and KeyRotation, on small instances, proved for every value of their    *)
(* constants: first the tokens, then, over any number of keys and guards,  *)
(* any interval and TTLs and both procedures, the rotation of the key.     *)
EXTENDS CapabilityTokens, KeyRotation, TLAPS

(* A process that is not idle is inside an authorize call.                 *)
LEMMA WaitingIsAuthorizing ==
    ASSUME NEW p \in Processes, calls \in [Processes -> Call], calls[p].pc # "idle"
    PROVE  calls[p] \in Authorizing
  BY DEF Call, Idle, Authorizing

(* A revocation that is not idle is one under way.                         *)
LEMMA WaitingIsRevoking ==
    ASSUME NEW r \in Revokers, revokes \in [Revokers -> Revoke], revokes[r].pc # "idle"
    PROVE  revokes[r] \in Revoking
  BY DEF Revoke, Idle, Revoking

(* A TTL cut to whole seconds loses less than one second, and is at least  *)
(* a tick.                                                                 *)
LEMMA RemainingTtlBounds ==
    ASSUME TypeOK, NEW call \in Authorizing, tokens[call.nonce] \in Token,
           call.checkedAt <= tokens[call.nonce].expires
    PROVE  /\ RemainingTtl(call) \in Nat
           /\ RemainingTtl(call) >= 1
           /\ call.checkedAt + RemainingTtl(call)
                > tokens[call.nonce].expires - TicksPerSecond
<1> DEFINE x == tokens[call.nonce].expires - call.checkedAt
<1> DEFINE q == x \div TicksPerSecond
<1>1. /\ x \in Nat /\ TicksPerSecond \in Nat \ {0}
      /\ tokens[call.nonce].expires \in Nat /\ call.checkedAt \in Nat
  BY ConstantsAssumption DEF Token, Authorizing, Times
<1>2. q \in Nat /\ TicksPerSecond * q \in Nat /\ x < TicksPerSecond * q + TicksPerSecond
  <2> HIDE DEF x
  <2> QED BY <1>1
<1>3. CASE q >= 1
  <2>1. RemainingTtl(call) = TicksPerSecond * q
    BY <1>3 DEF RemainingTtl
  <2>2. TicksPerSecond * q >= 1
    <3> HIDE DEF q
    <3> QED BY <1>1, <1>2, <1>3
  <2> QED BY <2>1, <2>2, <1>1, <1>2
<1>4. CASE ~(q >= 1)
  <2>1. RemainingTtl(call) = TicksPerSecond * 1
    BY <1>4 DEF RemainingTtl
  <2>2. q = 0
    <3> HIDE DEF q
    <3> QED BY <1>2, <1>4
  <2>3. TicksPerSecond * q = 0
    <3> HIDE DEF q
    <3> QED BY <2>2, <1>1
  <2>4. RemainingTtl(call) = TicksPerSecond /\ x < TicksPerSecond
    <3> HIDE DEF x, q
    <3> QED BY <2>1, <2>3, <1>1, <1>2
  <2> QED BY <2>4, <1>1
<1> QED BY <1>3, <1>4

----------------------------------------------------------------------------
(* The instants a statement can carry lie between its call and its effect. *)
LEMMA StoreTimesBounds ==
    ASSUME now \in Times, NEW start \in Times, start <= now, NEW at \in StoreTimes(start)
    PROVE  at \in Times /\ start <= at /\ at <= now /\ (Store # "sql" => at = now)
  BY ConstantsAssumption DEF StoreTimes, Times

----------------------------------------------------------------------------
(* Recording a use or a revocation writes a record of the right type.      *)
LEMMA IncrementedType ==
    ASSUME NEW record \in [uses : Nat, expires : Times], NEW at \in Times, NEW ttl \in Nat
    PROVE  Incremented(record, at, ttl) \in [uses : Nat, expires : Times]
  BY ConstantsAssumption
     DEF Incremented, MemoryIncremented, RedisIncremented, SqlIncremented, Times

(* What the three stores keep of a revocation is a revocation.             *)
LEMMA StoredRevocationType ==
    ASSUME NEW record \in [at : Times, expires : Times],
           NEW revokedAt \in Times, NEW at \in Times
    PROVE  StoredRevocation(record, revokedAt, at) \in [at : Times, expires : Times]
  BY ConstantsAssumption
     DEF StoredRevocation, MemoryRevocation, RedisRevocation, SqlRevocation, Later, Times

(* What a process waits for was checked against an issued token, and its   *)
(* calls never start in the future.                                        *)
Checked(call) ==
    /\ tokens[call.nonce] \in Token
    /\ call.checkedAt <= tokens[call.nonce].expires
    /\ 1 <= call.checkedAt /\ call.checkedAt <= call.startedAt /\ call.startedAt <= now

CallsInv ==
    /\ now >= 1
    /\ \A p \in Processes : calls[p].pc # "idle" => Checked(calls[p])
    /\ \A r \in Revokers : revokes[r].pc # "idle" => 1 <= revokes[r].at /\ revokes[r].at <= now

(* At first nothing is issued, stored or called.                           *)
LEMMA InitTypeOK == Init => TypeOK /\ CallsInv
  BY ConstantsAssumption
     DEF Init, TypeOK, CallsInv, Checked, Times, NoUse, NoRevocation, Call, Revoke, Idle, Bindings, Services

(* Each action keeps the types, and what calls have checked.               *)
LEMMA StepTypeOK == TypeOK /\ CallsInv /\ [Next]_vars => TypeOK' /\ CallsInv'
<1> SUFFICES ASSUME TypeOK, CallsInv, [Next]_vars
             PROVE  TypeOK' /\ CallsInv'
  OBVIOUS
<1> USE ConstantsAssumption, NoTokenAssumption
<1>1. ASSUME NEW n \in Nonces, NEW scopes \in SUBSET Actions, NEW subject \in Bindings,
             NEW aud \in Services, NEW ttl \in Ttls, NEW maxUses \in UseLimits,
             Issue(n, scopes, subject, aud, ttl, maxUses)
      PROVE  TypeOK' /\ CallsInv'
  <2>1. [scopes |-> scopes, subject |-> subject, aud |-> aud,
         issued |-> now, expires |-> now + ttl, maxUses |-> maxUses,
         depth |-> 0, root |-> n] \in Token
    BY DEF TypeOK, Token, Times
  <2>2. TypeOK'
    BY <1>1, <2>1 DEF Issue, TypeOK
  <2>3. CallsInv'
    BY <1>1 DEF Issue, CallsInv, Checked, TypeOK, Call, Authorizing, Idle
  <2> QED BY <2>2, <2>3
<1>2. ASSUME NEW n \in Nonces, NEW scopes \in SUBSET Actions, NEW parent \in Issued,
             NEW ttl \in Ttls, NEW maxUses \in UseLimits,
             Attenuate(n, parent, scopes, now + ttl, maxUses)
      PROVE  TypeOK' /\ CallsInv'
  <2> DEFINE payload == tokens[parent]
  <2>1. payload \in Token
    BY <1>2 DEF TypeOK, Issued
  <2>2. [scopes |-> scopes, subject |-> payload.subject, aud |-> payload.aud,
         issued |-> now, expires |-> Earlier(payload.expires, now + ttl),
         maxUses |-> maxUses, depth |-> payload.depth + 1,
         root |-> payload.root] \in Token
    BY <1>2, <2>1 DEF Attenuate, TypeOK, Token, Times, Earlier
  <2>3. TypeOK'
    BY <1>2, <2>2 DEF Attenuate, TypeOK
  <2>4. CallsInv'
    BY <1>2 DEF Attenuate, CallsInv, Checked, TypeOK, Call, Authorizing, Idle
  <2> QED BY <2>3, <2>4
<1>3. ASSUME NEW p \in Processes, NEW n \in Nonces, NEW action \in Actions,
             NEW presented \in Bindings, BeginAuthorize(p, n, action, presented)
      PROVE  TypeOK' /\ CallsInv'
  <2>1. tokens[n] \in Token
    BY <1>3 DEF BeginAuthorize, Issued, TypeOK
  <2>2. calls'[p] \in Call
    BY <1>3 DEF BeginAuthorize, TypeOK, Call, Authorizing
  <2>3. TypeOK'
    BY <1>3, <2>2 DEF BeginAuthorize, TypeOK
  <2>4. CallsInv'
    BY <1>3, <2>1 DEF BeginAuthorize, Admissible, CallsInv, Checked, TypeOK, Idle, Token, Times
  <2> QED BY <2>3, <2>4
<1>4. ASSUME NEW p \in Processes, ReadRevocation(p) \/ RevocationUnavailable(p)
      PROVE  TypeOK' /\ CallsInv'
  <2>1. calls[p] \in Authorizing
    BY <1>4, WaitingIsAuthorizing DEF ReadRevocation, RevocationUnavailable, TypeOK
  <2>2. \/ calls' = ToSpend(p)
        \/ calls' = [calls EXCEPT ![p] = Idle]
    BY <1>4 DEF ReadRevocation, RevocationUnavailable
  <2>3. calls' \in [Processes -> Call]
    BY <2>1, <2>2 DEF ToSpend, TypeOK, Call, Authorizing
  <2>4. TypeOK'
    BY <1>4, <2>3 DEF ReadRevocation, RevocationUnavailable, TypeOK
  <2>5. now' = now /\ tokens' = tokens /\ revokes' = revokes
    BY <1>4 DEF ReadRevocation, RevocationUnavailable
  <2>6. CASE calls' = ToSpend(p)
    <3>1. /\ calls'[p].nonce = calls[p].nonce /\ calls'[p].checkedAt = calls[p].checkedAt
          /\ calls'[p].startedAt = now /\ calls[p].pc # "idle"
          /\ calls[p].checkedAt \in Times /\ calls[p].startedAt \in Times
      BY <1>4, <2>1, <2>6 DEF ToSpend, Authorizing, TypeOK, ReadRevocation, RevocationUnavailable
    <3>2. \A q \in Processes \ {p} : calls'[q] = calls[q]
      BY <2>6 DEF ToSpend, TypeOK
    <3>3. Checked(calls[p])'
      BY <2>5, <3>1 DEF CallsInv, Checked, TypeOK, Times
    <3>4. \A q \in Processes : calls'[q].pc # "idle" => Checked(calls[q])'
      BY <2>5, <3>2, <3>3 DEF CallsInv, Checked
    <3> QED BY <2>4, <2>5, <3>4 DEF CallsInv, Checked
  <2>7. CASE calls' = [calls EXCEPT ![p] = Idle]
    <3>1. calls'[p].pc = "idle" /\ \A q \in Processes \ {p} : calls'[q] = calls[q]
      BY <2>7 DEF TypeOK, Idle
    <3>2. \A q \in Processes : calls'[q].pc # "idle" => Checked(calls[q])'
      BY <2>5, <3>1 DEF CallsInv, Checked
    <3> QED BY <2>4, <2>5, <3>2 DEF CallsInv, Checked
  <2> QED BY <2>2, <2>4, <2>6, <2>7
<1>5. ASSUME NEW p \in Processes, Spend(p) \/ SpendReplyLost(p) \/ SpendUnavailable(p)
      PROVE  TypeOK' /\ CallsInv'
  <2>1. calls[p] \in Authorizing /\ calls[p].pc # "idle"
    BY <1>5, WaitingIsAuthorizing DEF Spend, SpendReplyLost, SpendUnavailable, TypeOK
  <2> DEFINE n == calls[p].nonce
  <2>2. n \in Nonces /\ tokens[n] \in Token
    BY <2>1 DEF CallsInv, Checked, Authorizing
  <2>3. RemainingTtl(calls[p]) \in Nat
    BY <2>1, <2>2, RemainingTtlBounds DEF CallsInv, Checked
  <2>4. ASSUME NEW at \in StoreTimes(calls[p].startedAt), CheckAndIncrement(p, at)
        PROVE  nonces' \in [Nonces -> [uses : Nat, expires : Times]]
    <3>1. at \in Times
      BY <2>1, StoreTimesBounds DEF CallsInv, Checked, TypeOK, Authorizing
    <3> QED BY <2>2, <2>3, <2>4, <3>1, IncrementedType DEF CheckAndIncrement, TypeOK
  <2>5. nonces' \in [Nonces -> [uses : Nat, expires : Times]]
    <3>1. CASE Spend(p)
      BY <2>4, <3>1 DEF Spend
    <3>2. CASE SpendReplyLost(p)
      BY <2>4, <3>2 DEF SpendReplyLost
    <3>3. CASE SpendUnavailable(p)
      BY <3>3 DEF SpendUnavailable, TypeOK, Times
    <3> QED BY <1>5, <3>1, <3>2, <3>3
  <2>6. accepted' \in [Nonces -> [early : Nat, late : Nat, unmetered : Nat]]
    <3>1. \/ accepted' = accepted
          \/ accepted' = [accepted EXCEPT ![n].early = @ + 1]
          \/ accepted' = [accepted EXCEPT ![n].late = @ + 1]
          \/ accepted' = [accepted EXCEPT ![n].unmetered = @ + 1]
      BY <1>5 DEF Spend, SpendReplyLost, SpendUnavailable, Degrade
    <3>2. accepted[n] \in [early : Nat, late : Nat, unmetered : Nat]
      BY <2>2 DEF TypeOK
    <3>3. /\ [accepted[n] EXCEPT !.early = @ + 1] \in [early : Nat, late : Nat, unmetered : Nat]
          /\ [accepted[n] EXCEPT !.late = @ + 1] \in [early : Nat, late : Nat, unmetered : Nat]
          /\ [accepted[n] EXCEPT !.unmetered = @ + 1] \in [early : Nat, late : Nat, unmetered : Nat]
      BY <3>2
    <3> QED BY <2>2, <3>1, <3>2, <3>3 DEF TypeOK
  <2>7. calls' = [calls EXCEPT ![p] = Idle]
    BY <1>5 DEF Spend, SpendReplyLost, SpendUnavailable, Degrade
  <2>8. TypeOK'
    BY <1>5, <2>5, <2>6, <2>7 DEF Spend, SpendReplyLost, SpendUnavailable, TypeOK, Call
  <2>9. CallsInv'
    BY <1>5, <2>7 DEF Spend, SpendReplyLost, SpendUnavailable, CallsInv, Checked, TypeOK, Idle
  <2> QED BY <2>8, <2>9
<1>6. ASSUME NEW r \in Revokers, NEW s \in Subjects, BeginRevoke(r, s)
      PROVE  TypeOK' /\ CallsInv'
  BY <1>6 DEF BeginRevoke, TypeOK, CallsInv, Checked, Revoke, Revoking, Times
<1>7. ASSUME NEW r \in Revokers, Revoked(r) \/ RevokeUnavailable(r)
      PROVE  TypeOK' /\ CallsInv'
  <2>1. revokes[r] \in Revoking /\ revokes[r].pc # "idle"
    BY <1>7, WaitingIsRevoking DEF Revoked, RevokeUnavailable, TypeOK
  <2>2. ASSUME NEW at \in StoreTimes(revokes[r].at), RecordRevocation(r, at)
        PROVE  /\ revocations' \in [Subjects -> [at : Times, expires : Times]]
               /\ revokedUpTo' \in [Subjects -> Times]
    <3>1. at \in Times
      BY <2>1, StoreTimesBounds DEF CallsInv, Checked, TypeOK, Revoking
    <3> QED BY <2>1, <2>2, <3>1, StoredRevocationType
            DEF RecordRevocation, TypeOK, Revoking, Later, Times
  <2>3. /\ revocations' \in [Subjects -> [at : Times, expires : Times]]
        /\ revokedUpTo' \in [Subjects -> Times]
    BY <1>7, <2>2 DEF Revoked, RevokeUnavailable, TypeOK
  <2>4. revokes' = [revokes EXCEPT ![r] = Idle]
    BY <1>7 DEF Revoked, RevokeUnavailable
  <2>5. TypeOK'
    BY <1>7, <2>3, <2>4 DEF Revoked, RevokeUnavailable, TypeOK, Revoke
  <2>6. CallsInv'
    BY <1>7, <2>4 DEF Revoked, RevokeUnavailable, CallsInv, Checked, TypeOK, Idle
  <2> QED BY <2>5, <2>6
<1>8. CASE MemorySweep
  BY <1>8 DEF MemorySweep, TypeOK, CallsInv, Checked, NoUse, NoRevocation, Times
<1>9. ASSUME NEW cutoff \in 1..now, SqlCleanup(cutoff)
      PROVE  TypeOK' /\ CallsInv'
  BY <1>9 DEF SqlCleanup, TypeOK, CallsInv, Checked, NoUse, NoRevocation, Times
<1>10. CASE Tick
  <2>1. TypeOK'
    BY <1>10 DEF Tick, TypeOK, Times
  <2>2. CallsInv'
    BY <1>10 DEF Tick, CallsInv, Checked, TypeOK, Times, Call, Idle, Authorizing, Revoke, Revoking
  <2> QED BY <2>1, <2>2
<1>11. CASE UNCHANGED vars
  BY <1>11 DEF vars, TypeOK, CallsInv, Checked
<1> QED
  BY <1>1, <1>2, <1>3, <1>4, <1>5, <1>6, <1>7, <1>8, <1>9, <1>10, <1>11
     DEF Next, Mint, Authorize, RevokeSubject

(* Every variable keeps its type: nothing authorize, revoke_subject,       *)
(* attenuate or a store writes is out of the range its readers expect, the *)
(* delegation depth among them.                                            *)
THEOREM TypeCorrect == Spec => []TypeOK
<1>1. TypeOK /\ CallsInv /\ [Next]_vars => TypeOK' /\ CallsInv'
  BY StepTypeOK
<1> QED BY InitTypeOK, <1>1, PTL DEF Spec

----------------------------------------------------------------------------
(* The use count.  EarlySpendsWithinLimit is not inductive: it needs that  *)
(* the record of a token outlives the last second of the token's life, and *)
(* that until then the record counts every acceptance.                     *)
Counted(n) ==
    /\ nonces[n].uses = 0 => nonces[n].expires = 0
    /\ tokens[n] = NoToken => nonces[n].uses = 0 /\ accepted[n].early = 0
    /\ tokens[n] # NoToken =>
          /\ accepted[n].early <= tokens[n].maxUses
          /\ nonces[n].uses > 0 => nonces[n].expires > tokens[n].expires - TicksPerSecond
          /\ IsEarly(n) => accepted[n].early <= nonces[n].uses

UsesInv == \A n \in Nonces : Counted(n)

(* What one check_and_increment does to the record of the nonce.           *)
LEMMA CheckAndIncrementEffect ==
    ASSUME TypeOK, CallsInv, UsesInv, NEW p \in Processes, calls[p].pc = "spend",
           NEW at \in StoreTimes(calls[p].startedAt), CheckAndIncrement(p, at),
           NEW n, n = calls[p].nonce
    PROVE  /\ n \in Nonces /\ tokens[n] \in Token
           /\ nonces'[n].uses >= 1
           /\ nonces'[n].expires > tokens[n].expires - TicksPerSecond
           /\ IsEarly(n) => nonces'[n].uses = nonces[n].uses + 1
           /\ \A m \in Nonces \ {n} : nonces'[m] = nonces[m]
<1>1. calls[p] \in Authorizing
  BY WaitingIsAuthorizing DEF TypeOK
<1>2. Checked(calls[p]) /\ n \in Nonces /\ tokens[n] \in Token
  BY <1>1 DEF CallsInv, Checked, Authorizing
<1> DEFINE ttl == RemainingTtl(calls[p])
           E == tokens[n].expires
<1>3. /\ ttl \in Nat /\ ttl >= 1
      /\ calls[p].checkedAt + ttl > E - TicksPerSecond
  BY <1>1, <1>2, RemainingTtlBounds DEF Checked
<1>4. at \in Nat /\ calls[p].startedAt <= at /\ at <= now /\ (Store # "sql" => at = now)
  BY <1>1, <1>2, StoreTimesBounds DEF TypeOK, Checked, Authorizing, Times
<1>5. at >= 1 /\ at + ttl > E - TicksPerSecond
  <2>1. calls[p].checkedAt \in Nat /\ calls[p].startedAt \in Nat /\ E \in Nat
        /\ TicksPerSecond \in Nat
    BY <1>1, <1>2, ConstantsAssumption DEF Authorizing, Token, Times
  <2> HIDE DEF ttl, E
  <2> QED BY <1>2, <1>3, <1>4, <2>1 DEF Checked
<1>6. nonces'[n] = Incremented(nonces[n], at, ttl)
  BY <1>2 DEF CheckAndIncrement, TypeOK
<1>7. \A m \in Nonces \ {n} : nonces'[m] = nonces[m]
  BY DEF CheckAndIncrement, TypeOK
<1>8. /\ nonces[n].uses \in Nat /\ nonces[n].expires \in Nat /\ E \in Nat /\ now \in Nat
      /\ TicksPerSecond \in Nat
      /\ nonces[n].uses = 0 => nonces[n].expires = 0
      /\ nonces[n].uses > 0 => nonces[n].expires > E - TicksPerSecond
  BY <1>2, ConstantsAssumption, NoTokenAssumption DEF UsesInv, Counted, TypeOK, Token, Times
<1>9. nonces'[n].uses >= 1 /\ nonces'[n].expires > E - TicksPerSecond
  <2> HIDE DEF ttl, E
  <2> QED BY <1>3, <1>4, <1>5, <1>6, <1>8
          DEF Incremented, MemoryIncremented, RedisIncremented, SqlIncremented
<1>10. IsEarly(n) => nonces'[n].uses = nonces[n].uses + 1
  <2> HIDE DEF ttl
  <2> QED BY <1>3, <1>4, <1>5, <1>6, <1>8
          DEF Incremented, MemoryIncremented, RedisIncremented, SqlIncremented, IsEarly
<1> QED BY <1>2, <1>7, <1>9, <1>10

(* At first nothing has been used.                                         *)
LEMMA InitUses == Init => UsesInv
  BY DEF Init, UsesInv, Counted, NoUse

(* Each action keeps the count of a nonce at or above its acceptances.     *)
LEMMA StepUses == TypeOK /\ CallsInv /\ UsesInv /\ [Next]_vars => UsesInv'
<1> SUFFICES ASSUME TypeOK, CallsInv, UsesInv, [Next]_vars
             PROVE  UsesInv'
  OBVIOUS
<1> USE ConstantsAssumption, NoTokenAssumption
<1>1. ASSUME NEW n \in Nonces, NEW scopes \in SUBSET Actions, NEW subject \in Bindings,
             NEW aud \in Services, NEW ttl \in Ttls, NEW maxUses \in UseLimits,
             Issue(n, scopes, subject, aud, ttl, maxUses)
      PROVE  UsesInv'
  BY <1>1 DEF Issue, UsesInv, Counted, TypeOK, IsEarly
<1>2. ASSUME NEW n \in Nonces, NEW scopes \in SUBSET Actions, NEW parent \in Issued,
             NEW ttl \in Ttls, NEW maxUses \in UseLimits,
             Attenuate(n, parent, scopes, now + ttl, maxUses)
      PROVE  UsesInv'
  BY <1>2 DEF Attenuate, UsesInv, Counted, TypeOK, IsEarly
<1>3. ASSUME UNCHANGED <<now, tokens, nonces, accepted>>
      PROVE  UsesInv'
  BY <1>3 DEF UsesInv, Counted, IsEarly
<1>4. ASSUME NEW p \in Processes, Spend(p) \/ SpendReplyLost(p) \/ SpendUnavailable(p)
      PROVE  UsesInv'
  <2>1. calls[p].pc = "spend" /\ now' = now /\ tokens' = tokens
    BY <1>4 DEF Spend, SpendReplyLost, SpendUnavailable
  <2>2. PICK n \in Nonces : n = calls[p].nonce /\ tokens[n] \in Token
    BY <2>1, WaitingIsAuthorizing DEF TypeOK, CallsInv, Checked, Authorizing
  <2>3. /\ n \in Nonces /\ tokens[n] # NoToken /\ tokens[n].maxUses \in Nat
        /\ accepted[n].early \in Nat /\ nonces[n].uses \in Nat
    BY <2>2 DEF TypeOK, Token
  <2>4. \A m \in Nonces : accepted'[m].early = accepted[m].early
                          \/ /\ m = n /\ Spend(p) /\ IsEarly(n)
                             /\ nonces'[n].uses <= tokens[n].maxUses
                             /\ accepted'[n].early = accepted[n].early + 1
    BY <1>4, <2>2, <2>3 DEF Spend, SpendReplyLost, SpendUnavailable, Degrade, TypeOK
  <2>5. CASE nonces' = nonces
    <3>1. ~Spend(p) \/ ~IsEarly(n)
      <4> SUFFICES ASSUME Spend(p), IsEarly(n) PROVE FALSE
        OBVIOUS
      <4>1. PICK at \in StoreTimes(calls[p].startedAt) : CheckAndIncrement(p, at)
        BY DEF Spend
      <4> QED BY <2>1, <2>2, <2>3, <2>5, <4>1, CheckAndIncrementEffect
    <3> QED BY <2>1, <2>4, <2>5, <3>1 DEF UsesInv, Counted, IsEarly
  <2>6. CASE nonces' # nonces
    <3>1. PICK at \in StoreTimes(calls[p].startedAt) : CheckAndIncrement(p, at)
      BY <1>4, <2>6 DEF Spend, SpendReplyLost, SpendUnavailable
    <3>2. /\ nonces'[n].uses >= 1
          /\ nonces'[n].expires > tokens[n].expires - TicksPerSecond
          /\ IsEarly(n) => nonces'[n].uses = nonces[n].uses + 1
          /\ \A m \in Nonces \ {n} : nonces'[m] = nonces[m]
      BY <2>1, <2>2, <3>1, CheckAndIncrementEffect
    <3>3. \A m \in Nonces \ {n} : Counted(m)'
      BY <2>1, <2>4, <3>2 DEF UsesInv, Counted, IsEarly
    <3>4. /\ accepted'[n].early <= tokens[n].maxUses
          /\ IsEarly(n) => accepted'[n].early <= nonces'[n].uses
      BY <2>3, <2>4, <3>2 DEF UsesInv, Counted
    <3>5. Counted(n)'
      BY <2>1, <2>3, <3>2, <3>4 DEF Counted, IsEarly
    <3> QED BY <3>3, <3>5 DEF UsesInv, Counted
  <2> QED BY <2>5, <2>6
<1>5. CASE MemorySweep
  BY <1>5 DEF MemorySweep, UsesInv, Counted, IsEarly, TypeOK, Token, NoUse, Times
<1>6. ASSUME NEW cutoff \in 1..now, SqlCleanup(cutoff)
      PROVE  UsesInv'
  BY <1>6 DEF SqlCleanup, UsesInv, Counted, IsEarly, TypeOK, Token, NoUse, Times
<1>7. CASE Tick
  <2>1. \A n \in Nonces : tokens[n] # NoToken /\ IsEarly(n)' => IsEarly(n)
    BY <1>7 DEF Tick, IsEarly, TypeOK, Token, Times
  <2> QED BY <1>7, <2>1 DEF Tick, UsesInv, Counted
<1>8. ASSUME NEW p \in Processes, NEW n \in Nonces, NEW action \in Actions,
             NEW presented \in Bindings, BeginAuthorize(p, n, action, presented)
      PROVE  UsesInv'
  BY <1>3, <1>8 DEF BeginAuthorize
<1>9. ASSUME NEW p \in Processes, ReadRevocation(p) \/ RevocationUnavailable(p)
      PROVE  UsesInv'
  BY <1>3, <1>9 DEF ReadRevocation, RevocationUnavailable
<1>10. ASSUME NEW r \in Revokers, RevokeSubject(r)
      PROVE  UsesInv'
  BY <1>3, <1>10 DEF RevokeSubject, BeginRevoke, Revoked, RevokeUnavailable
<1>11. CASE UNCHANGED vars
  BY <1>3, <1>11 DEF vars
<1> QED
  BY <1>1, <1>2, <1>4, <1>5, <1>6, <1>7, <1>8, <1>9, <1>10, <1>11 DEF Next, Mint, Authorize

(* A token is accepted against its use count at most max_uses times while  *)
(* a second of its life remains, for any number of callers and tokens, any *)
(* store, and any loss of calls and replies.                               *)
THEOREM UsesBounded == Spec => []EarlySpendsWithinLimit
<1>1. UsesInv => EarlySpendsWithinLimit
  BY DEF UsesInv, Counted, EarlySpendsWithinLimit, Issued
<1>2. Init => TypeOK /\ CallsInv /\ UsesInv
  BY InitTypeOK, InitUses
<1>3. TypeOK /\ CallsInv /\ UsesInv /\ [Next]_vars => (TypeOK /\ CallsInv /\ UsesInv)'
  BY StepTypeOK, StepUses
<1> QED BY <1>1, <1>2, <1>3, PTL DEF Spec

----------------------------------------------------------------------------
(* Revocation.  The record of a revocation has to outlive every token that *)
(* it covers: by the SQL stores' own clock skew, its expiry may have been  *)
(* computed up to a timeout before the write.                              *)
RevocationOutlives(life) ==
    /\ \A ttl \in Ttls : ttl <= life
    /\ RevocationTtl > life + (IF Store = "sql" THEN Timeout ELSE 0)

Recorded(s, life) ==
    /\ revokedUpTo[s] <= now
    /\ revokedUpTo[s] > 0 /\ now <= revokedUpTo[s] + life =>
          /\ revocations[s].at >= revokedUpTo[s]
          /\ revocations[s].expires > revokedUpTo[s] + life

LivesUpTo(n, life) ==
    tokens[n] # NoToken => tokens[n].issued <= now /\ tokens[n].expires <= tokens[n].issued + life

RevocationInv(life) ==
    /\ \A s \in Subjects : Recorded(s, life)
    /\ \A n \in Nonces : LivesUpTo(n, life)
    /\ \A p \in Processes : calls[p].pc = "revocation" =>
          tokens[calls[p].nonce].subject # NoSubject

(* What the write of a revocation leaves in the store, whichever of two    *)
(* racing revocations it is.                                               *)
LEMMA RecordRevocationEffect ==
    ASSUME NEW life \in Nat, RevocationOutlives(life),
           TypeOK, CallsInv, RevocationInv(life), NEW r \in Revokers,
           revokes[r].pc = "record", now <= revokes[r].at + Timeout,
           NEW at \in StoreTimes(revokes[r].at), RecordRevocation(r, at), now' = now
    PROVE  \A s \in Subjects : Recorded(s, life)'
<1>1. revokes[r] \in Revoking
  BY WaitingIsRevoking DEF TypeOK
<1>2. PICK u \in Subjects : u = revokes[r].subject
  BY <1>1 DEF Revoking
<1>3. PICK a \in Nat : a = revokes[r].at /\ 1 <= a /\ a <= now
  BY <1>1 DEF Revoking, CallsInv, Times
<1>4. at \in Nat /\ a <= at /\ at <= now /\ (Store # "sql" => at = now)
  BY <1>3, StoreTimesBounds DEF TypeOK, Times
<1>5. /\ now \in Nat /\ revokedUpTo[u] \in Nat /\ Timeout \in Nat /\ RevocationTtl \in Nat
      /\ revocations[u].at \in Nat /\ revocations[u].expires \in Nat
  BY ConstantsAssumption DEF TypeOK, Times
<1>6. /\ revocations'[u] = StoredRevocation(revocations[u], a, at)
      /\ revokedUpTo'[u] = Later(a, revokedUpTo[u])
  BY <1>2, <1>3 DEF RecordRevocation, TypeOK
<1>7. \A s \in Subjects \ {u} : revocations'[s] = revocations[s] /\ revokedUpTo'[s] = revokedUpTo[s]
  BY <1>2 DEF RecordRevocation, TypeOK
<1>8. \A s \in Subjects \ {u} : Recorded(s, life)'
  BY <1>7 DEF RevocationInv, Recorded
<1>9. revocations'[u].expires = at + RevocationTtl
  BY <1>6 DEF StoredRevocation, MemoryRevocation, RedisRevocation, SqlRevocation
<1>10. at + RevocationTtl > now + life
  BY <1>3, <1>4, <1>5 DEF RevocationOutlives
<1>11. revokedUpTo'[u] <= now /\ revokedUpTo'[u] >= a /\ revokedUpTo'[u] >= revokedUpTo[u]
       /\ revokedUpTo'[u] \in Nat /\ revokedUpTo'[u] \in {a, revokedUpTo[u]}
  BY <1>3, <1>5, <1>6 DEF Later, RevocationInv, Recorded
<1>12. ASSUME now <= revokedUpTo'[u] + life
       PROVE  revocations'[u].at >= revokedUpTo'[u]
  <2>1. CASE Store = "sql"
    <3>1. revocations'[u].at >= a /\ revocations'[u].at >= revocations[u].at
      BY <1>3, <1>5, <1>6, <2>1 DEF StoredRevocation, SqlRevocation, Later
    <3>2. revokedUpTo'[u] = a \/ revocations[u].at >= revokedUpTo[u]
      BY <1>3, <1>5, <1>11, <1>12 DEF RevocationInv, Recorded
    <3>3. revocations'[u].at \in Nat
      <4>1. revocations[u] \in [at : Times, expires : Times] /\ a \in Times /\ at \in Times
        BY <1>3, <1>4 DEF TypeOK, Times
      <4>2. revocations'[u] \in [at : Times, expires : Times]
        BY <1>6, <4>1, StoredRevocationType
      <4> QED BY <4>2 DEF Times
    <3> QED BY <1>3, <1>5, <1>11, <3>1, <3>2, <3>3
  <2>2. CASE Store # "sql"
    <3>0. Store \in {"memory", "redis"}
      BY <2>2, ConstantsAssumption
    <3>1. /\ at = now
          /\ revocations'[u].at = IF revocations[u].expires > now
                                  THEN Later(a, revocations[u].at) ELSE a
      <4>1. CASE Store = "memory"
        BY <1>4, <1>6, <4>1 DEF StoredRevocation, MemoryRevocation
      <4>2. CASE Store = "redis"
        BY <1>3, <1>4, <1>5, <1>6, <4>2 DEF StoredRevocation, RedisRevocation, Later
      <4> QED BY <3>0, <4>1, <4>2
    <3>2. CASE revokedUpTo'[u] = a
      BY <1>3, <1>5, <3>1, <3>2 DEF Later
    <3>3. CASE revokedUpTo'[u] # a
      <4>1. revokedUpTo'[u] = revokedUpTo[u] /\ revokedUpTo[u] > 0
        BY <1>3, <1>5, <1>11, <3>3
      <4>2. revocations[u].at >= revokedUpTo[u] /\ revocations[u].expires > now
        BY <1>5, <1>12, <4>1 DEF RevocationInv, Recorded
      <4> QED BY <1>3, <1>5, <3>1, <4>1, <4>2 DEF Later
    <3> QED BY <3>2, <3>3
  <2> QED BY <2>1, <2>2
<1>13. Recorded(u, life)'
  BY <1>4, <1>5, <1>9, <1>10, <1>11, <1>12 DEF Recorded
<1> QED BY <1>8, <1>13

(* At first nothing is revoked.                                            *)
LEMMA InitRevocation ==
    ASSUME NEW life \in Nat PROVE Init => RevocationInv(life)
  BY DEF Init, RevocationInv, Recorded, LivesUpTo, Idle

(* Each action keeps the revocations that still concern a live token.      *)
LEMMA StepRevocation ==
    ASSUME NEW life \in Nat, RevocationOutlives(life)
    PROVE  TypeOK /\ CallsInv /\ RevocationInv(life) /\ [Next]_vars => RevocationInv(life)'
<1> SUFFICES ASSUME TypeOK, CallsInv, RevocationInv(life), [Next]_vars
             PROVE  RevocationInv(life)'
  OBVIOUS
<1> USE ConstantsAssumption, NoTokenAssumption
<1>1. ASSUME NEW n \in Nonces, NEW ttl \in Ttls,
             UNCHANGED <<now, revocations, calls, revokedUpTo>>,
             tokens[n] = NoToken, \A m \in Nonces \ {n} : tokens'[m] = tokens[m],
             tokens'[n].issued = now,
             tokens'[n].expires \in Nat, tokens'[n].expires <= now + ttl
      PROVE  RevocationInv(life)'
  <2>1. \A m \in Nonces : LivesUpTo(m, life)'
    <3>1. now \in Nat /\ ttl \in Nat /\ ttl <= life
      BY DEF TypeOK, Times, RevocationOutlives
    <3>2. LivesUpTo(n, life)'
      BY <1>1, <3>1 DEF LivesUpTo
    <3>3. \A m \in Nonces \ {n} : LivesUpTo(m, life)'
      BY <1>1 DEF RevocationInv, LivesUpTo
    <3> QED BY <3>2, <3>3 DEF LivesUpTo
  <2>2. \A p \in Processes : calls[p].pc = "revocation" => calls[p].nonce \in Nonces \ {n}
    BY <1>1, WaitingIsAuthorizing DEF TypeOK, CallsInv, Checked, Authorizing
  <2> QED BY <1>1, <2>1, <2>2 DEF RevocationInv, Recorded
<1>2. ASSUME NEW n \in Nonces, NEW scopes \in SUBSET Actions, NEW subject \in Bindings,
             NEW aud \in Services, NEW ttl \in Ttls, NEW maxUses \in UseLimits,
             Issue(n, scopes, subject, aud, ttl, maxUses)
      PROVE  RevocationInv(life)'
  BY <1>1, <1>2 DEF Issue, TypeOK, Times
<1>3. ASSUME NEW n \in Nonces, NEW scopes \in SUBSET Actions, NEW parent \in Issued,
             NEW ttl \in Ttls, NEW maxUses \in UseLimits,
             Attenuate(n, parent, scopes, now + ttl, maxUses)
      PROVE  RevocationInv(life)'
  <2>1. tokens[parent] \in Token
    BY DEF Issued, TypeOK
  <2>2. /\ tokens'[n].expires \in Nat /\ tokens'[n].expires <= now + ttl
        /\ tokens'[n].issued = now
    BY <1>3, <2>1 DEF Attenuate, Earlier, TypeOK, Token, Times
  <2> QED BY <1>1, <1>3, <2>2 DEF Attenuate, TypeOK
<1>4. ASSUME NEW p \in Processes, NEW n \in Nonces, NEW action \in Actions,
             NEW presented \in Bindings, BeginAuthorize(p, n, action, presented)
      PROVE  RevocationInv(life)'
  BY <1>4 DEF BeginAuthorize, RevocationInv, Recorded, LivesUpTo, TypeOK, Idle
<1>5. ASSUME NEW p \in Processes, UNCHANGED <<now, tokens, revocations, revokedUpTo>>,
             calls' = ToSpend(p) \/ calls' = [calls EXCEPT ![p] = Idle]
      PROVE  RevocationInv(life)'
  <2>1. \A q \in Processes : calls'[q].pc = "revocation" => calls'[q] = calls[q]
    BY <1>5 DEF ToSpend, TypeOK, Call, Authorizing, Idle
  <2> QED BY <1>5, <2>1 DEF RevocationInv, Recorded, LivesUpTo
<1>6. ASSUME NEW p \in Processes, ReadRevocation(p) \/ RevocationUnavailable(p)
      PROVE  RevocationInv(life)'
  BY <1>5, <1>6 DEF ReadRevocation, RevocationUnavailable
<1>7. ASSUME NEW p \in Processes, Spend(p) \/ SpendReplyLost(p) \/ SpendUnavailable(p)
      PROVE  RevocationInv(life)'
  BY <1>5, <1>7 DEF Spend, SpendReplyLost, SpendUnavailable, Degrade
<1>8. ASSUME UNCHANGED <<now, tokens, revocations, calls, revokedUpTo>>
      PROVE  RevocationInv(life)'
  BY <1>8 DEF RevocationInv, Recorded, LivesUpTo
<1>9. ASSUME NEW r \in Revokers, RevokeSubject(r)
      PROVE  RevocationInv(life)'
  <2>1. ASSUME NEW s \in Subjects, BeginRevoke(r, s)
        PROVE  RevocationInv(life)'
    BY <1>8, <2>1 DEF BeginRevoke
  <2>2. CASE RevokeUnavailable(r)
    BY <1>8, <2>2 DEF RevokeUnavailable
  <2>3. CASE Revoked(r)
    <3>1. \A s \in Subjects : Recorded(s, life)'
      BY <2>3, RecordRevocationEffect DEF Revoked
    <3> QED BY <2>3, <3>1 DEF Revoked, RevocationInv, LivesUpTo
  <2> QED BY <1>9, <2>1, <2>2, <2>3 DEF RevokeSubject
<1>10. ASSUME UNCHANGED <<now, tokens, calls, revokedUpTo>>,
              \A s \in Subjects : \/ revocations'[s] = revocations[s]
                                  \/ revocations[s].expires <= now
       PROVE  RevocationInv(life)'
  <2>1. \A s \in Subjects : Recorded(s, life)'
    BY <1>10 DEF RevocationInv, Recorded, TypeOK, Times
  <2> QED BY <1>10, <2>1 DEF RevocationInv, LivesUpTo
<1>11. CASE MemorySweep
  BY <1>10, <1>11 DEF MemorySweep, TypeOK
<1>12. ASSUME NEW cutoff \in 1..now, SqlCleanup(cutoff)
       PROVE  RevocationInv(life)'
  BY <1>10, <1>12 DEF SqlCleanup, TypeOK, Times
<1>13. CASE Tick
  BY <1>13 DEF Tick, RevocationInv, Recorded, LivesUpTo, TypeOK, Token, Times
<1>14. CASE UNCHANGED vars
  BY <1>8, <1>14 DEF vars
<1> QED
  BY <1>2, <1>3, <1>4, <1>6, <1>7, <1>9, <1>11, <1>12, <1>13, <1>14 DEF Next, Mint, Authorize

(* A revocation once recorded is seen by every check that reads the store  *)
(* while a token it covers lives, however many revocations of the subject  *)
(* race with it, provided that the TTL of revocations exceeds the life of  *)
(* tokens, and over SQL does so by more than the timeout.                  *)
THEOREM RevocationRefuses ==
    ASSUME NEW life \in Nat, RevocationOutlives(life)
    PROVE  Spec => RevokedTokensAreRefused
<1> DEFINE Inv == TypeOK /\ CallsInv /\ RevocationInv(life)
<1>1. Init => Inv
  BY InitTypeOK, InitRevocation
<1>2. Inv /\ [Next]_vars => Inv'
  BY StepTypeOK, StepRevocation
<1>3. ASSUME Inv, [Next]_vars, NEW p \in Processes, ~FailOpen, LetThrough(p)
      PROVE  LET token == tokens[calls[p].nonce] IN
             token.issued > revokedUpTo[token.subject] \/ now > token.expires
  <2>1. calls[p] \in Authorizing /\ calls[p].pc = "revocation" /\ calls'[p].pc = "spend"
    BY <1>3, WaitingIsAuthorizing DEF LetThrough, TypeOK
  <2>2. ReadRevocation(p)
    <3>1. calls' # calls
      BY <2>1
    <3>2. PICK q \in Processes : Authorize(q)
      BY <1>3, <3>1
         DEF Next, vars, Mint, Issue, Attenuate, RevokeSubject, BeginRevoke, Revoked,
             RevokeUnavailable, MemorySweep, SqlCleanup, Tick
    <3>3. q = p
      <4> SUFFICES ASSUME q # p PROVE calls'[p] = calls[p]
        BY <2>1
      <4> QED BY <1>3, <3>2
              DEF Authorize, BeginAuthorize, ReadRevocation, RevocationUnavailable, Spend,
                  SpendReplyLost, SpendUnavailable, Degrade, ToSpend, TypeOK
    <3>4. ~RevocationUnavailable(p)
      BY <1>3, <2>1 DEF RevocationUnavailable, TypeOK, Idle
    <3> QED BY <2>1, <3>2, <3>3, <3>4
            DEF Authorize, BeginAuthorize, Spend, SpendReplyLost, SpendUnavailable
  <2>3. PICK n \in Nonces : n = calls[p].nonce /\ tokens[n] \in Token
    BY <1>3, <2>1 DEF CallsInv, Checked, Authorizing
  <2>4. PICK s \in Subjects : s = tokens[n].subject
    BY <1>3, <2>1, <2>3 DEF RevocationInv, Token, Bindings
  <2>5. PICK at \in StoreTimes(calls[p].startedAt) : tokens[n].issued > RevokedAt(s, at)
    <3>1. PICK at \in StoreTimes(calls[p].startedAt) :
             calls' = IF tokens[n].issued <= RevokedAt(s, at)
                      THEN [calls EXCEPT ![p] = Idle] ELSE ToSpend(p)
      BY <2>2, <2>3, <2>4 DEF ReadRevocation
    <3>2. at \in Nat
      BY <1>3, <2>1, StoreTimesBounds DEF CallsInv, Checked, TypeOK, Authorizing, Times
    <3>3. RevokedAt(s, at) \in Nat
      BY <1>3, <3>2 DEF RevokedAt, TypeOK, Times
    <3> QED BY <1>3, <2>1, <2>3, <3>1, <3>3 DEF TypeOK, Idle, Token, Times
  <2>6. at \in Nat /\ at <= now
    BY <1>3, <2>1, StoreTimesBounds DEF CallsInv, Checked, TypeOK, Authorizing, Times
  <2>7. /\ tokens[n].issued \in Nat /\ tokens[n].expires \in Nat /\ now \in Nat
        /\ revokedUpTo[s] \in Nat /\ revocations[s].at \in Nat /\ revocations[s].expires \in Nat
        /\ tokens[n].expires <= tokens[n].issued + life
    BY <1>3, <2>3, NoTokenAssumption DEF RevocationInv, LivesUpTo, TypeOK, Token, Times
  <2>8. tokens[n].issued > revokedUpTo[s] \/ now > tokens[n].expires
    <3> SUFFICES ASSUME tokens[n].issued <= revokedUpTo[s], now <= tokens[n].expires
                 PROVE  FALSE
      BY <2>7
    <3>1. revokedUpTo[s] > 0
      BY <2>5, <2>6, <2>7 DEF RevokedAt
    <3>2. revocations[s].at >= revokedUpTo[s] /\ revocations[s].expires > now
      BY <1>3, <2>7, <3>1 DEF RevocationInv, Recorded
    <3> QED BY <2>5, <2>6, <2>7, <3>2 DEF RevokedAt
  <2> QED BY <2>3, <2>4, <2>8
<1>4. Inv /\ [Next]_vars =>
        [\A p \in Processes : ~FailOpen /\ LetThrough(p) =>
            LET token == tokens[calls[p].nonce] IN
            token.issued > revokedUpTo[token.subject] \/ now > token.expires]_vars
  BY <1>3
<1> QED BY <1>1, <1>2, <1>4, PTL DEF Spec, RevokedTokensAreRefused

----------------------------------------------------------------------------
(* Delegation.  A token is within its root, and a call in progress was     *)
(* checked against its token.                                              *)
Within(n) ==
    LET token == tokens[n]
        root  == tokens[token.root]
    IN  /\ root \in Token
        /\ token.scopes \subseteq root.scopes
        /\ token.subject = root.subject
        /\ token.aud = root.aud
        /\ token.expires <= root.expires
        /\ token.maxUses <= root.maxUses

Presented(p) ==
    LET token == tokens[calls[p].nonce]
    IN  /\ RightAudience(p, token)
        /\ RightSubject(token, calls[p].presented)
        /\ calls[p].action \in token.scopes

RootInv ==
    /\ \A n \in Nonces : tokens[n] # NoToken => Within(n)
    /\ \A p \in Processes : calls[p].pc # "idle" => Presented(p)

(* At first there is no token.                                             *)
LEMMA InitRoot == Init => RootInv
  BY DEF Init, RootInv, Idle

(* Each action keeps every token within the root of its chain.             *)
LEMMA StepRoot == TypeOK /\ CallsInv /\ RootInv /\ [Next]_vars => RootInv'
<1> SUFFICES ASSUME TypeOK, CallsInv, RootInv, [Next]_vars
             PROVE  RootInv'
  OBVIOUS
<1> USE ConstantsAssumption, NoTokenAssumption
<1>1. ASSUME NEW n \in Nonces, UNCHANGED calls, tokens[n] = NoToken,
             \A m \in Nonces \ {n} : tokens'[m] = tokens[m], Within(n)'
      PROVE  RootInv'
  <2>1. \A m \in Nonces \ {n} : tokens[m] # NoToken => tokens[m].root \in Nonces \ {n}
    BY <1>1 DEF RootInv, Within, TypeOK, Token
  <2>2. \A m \in Nonces : tokens'[m] # NoToken => Within(m)'
    BY <1>1, <2>1 DEF RootInv, Within
  <2>3. \A p \in Processes : calls[p].pc # "idle" => calls[p].nonce \in Nonces \ {n}
    BY <1>1, WaitingIsAuthorizing DEF TypeOK, CallsInv, Checked, Authorizing
  <2>4. \A p \in Processes : calls'[p].pc # "idle" => Presented(p)'
    BY <1>1, <2>3 DEF RootInv, Presented
  <2> QED BY <2>2, <2>4 DEF RootInv, Within, Presented
<1>2. ASSUME NEW n \in Nonces, NEW scopes \in SUBSET Actions, NEW subject \in Bindings,
             NEW aud \in Services, NEW ttl \in Ttls, NEW maxUses \in UseLimits,
             Issue(n, scopes, subject, aud, ttl, maxUses)
      PROVE  RootInv'
  <2> DEFINE token == [scopes |-> scopes, subject |-> subject, aud |-> aud,
                       issued |-> now, expires |-> now + ttl, maxUses |-> maxUses,
                       depth |-> 0, root |-> n]
  <2>1. token \in Token
    BY DEF TypeOK, Token, Times
  <2>2. tokens'[n] = token
    BY <1>2 DEF Issue, TypeOK
  <2>3. Within(n)'
    BY <2>1, <2>2 DEF Within, Token, Times
  <2> QED BY <1>1, <1>2, <2>3 DEF Issue, TypeOK
<1>3. ASSUME NEW n \in Nonces, NEW scopes \in SUBSET Actions, NEW parent \in Issued,
             NEW ttl \in Ttls, NEW maxUses \in UseLimits,
             Attenuate(n, parent, scopes, now + ttl, maxUses)
      PROVE  RootInv'
  <2> DEFINE payload == tokens[parent]
             root == tokens[payload.root]
  <2>1. payload \in Token /\ root \in Token /\ payload.root \in Nonces /\ payload.root # n
    BY <1>3 DEF Issued, TypeOK, RootInv, Within, Token, Attenuate
  <2>2. /\ payload.scopes \subseteq root.scopes /\ payload.subject = root.subject
        /\ payload.aud = root.aud /\ payload.expires <= root.expires
        /\ payload.maxUses <= root.maxUses
    BY <2>1 DEF Issued, RootInv, Within
  <2>3. /\ tokens'[n].scopes = scopes /\ tokens'[n].subject = payload.subject
        /\ tokens'[n].aud = payload.aud /\ tokens'[n].root = payload.root
        /\ tokens'[n].expires = Earlier(payload.expires, now + ttl)
        /\ tokens'[n].maxUses = maxUses
    BY <1>3 DEF Attenuate, TypeOK
  <2>4. tokens'[n].expires <= root.expires /\ tokens'[n].maxUses <= root.maxUses
    BY <1>3, <2>1, <2>2, <2>3 DEF Attenuate, Earlier, Token, TypeOK, Times
  <2>5. tokens'[payload.root] = root
    BY <1>3, <2>1 DEF Attenuate, TypeOK
  <2>6. scopes \subseteq root.scopes
    BY <1>3, <2>2 DEF Attenuate
  <2>7. Within(n)'
    BY <2>1, <2>2, <2>3, <2>4, <2>5, <2>6 DEF Within
  <2> QED BY <1>1, <1>3, <2>7 DEF Attenuate, TypeOK
<1>4. ASSUME UNCHANGED tokens,
             \A p \in Processes : calls'[p].pc # "idle" =>
                \/ Presented(p)'
                \/ /\ calls[p].pc # "idle" /\ calls'[p].nonce = calls[p].nonce
                   /\ calls'[p].action = calls[p].action
                   /\ calls'[p].presented = calls[p].presented
      PROVE  RootInv'
  <2>1. \A p \in Processes : calls'[p].pc # "idle" => Presented(p)'
    BY <1>4 DEF RootInv, Presented
  <2> QED BY <1>4, <2>1 DEF RootInv, Within, Presented
<1>5. ASSUME NEW p \in Processes, NEW n \in Nonces, NEW action \in Actions,
             NEW presented \in Bindings, BeginAuthorize(p, n, action, presented)
      PROVE  RootInv'
  <2>1. calls'[p].pc # "idle" => Presented(p)'
    BY <1>5 DEF BeginAuthorize, Admissible, Presented, TypeOK, Idle, RightAudience, RightSubject
  <2>2. \A q \in Processes \ {p} : calls'[q] = calls[q]
    BY <1>5 DEF BeginAuthorize, TypeOK
  <2> QED BY <1>4, <1>5, <2>1, <2>2 DEF BeginAuthorize, Presented
<1>6. ASSUME NEW p \in Processes, UNCHANGED tokens,
             \/ calls[p].pc = "revocation" /\ calls' = ToSpend(p)
             \/ calls' = [calls EXCEPT ![p] = Idle]
      PROVE  RootInv'
  <2>1. calls[p].pc = "revocation" => calls[p] \in Authorizing
    BY WaitingIsAuthorizing DEF TypeOK
  <2>2. \A q \in Processes : calls'[q].pc # "idle" =>
           /\ calls[q].pc # "idle" /\ calls'[q].nonce = calls[q].nonce
           /\ calls'[q].action = calls[q].action
           /\ calls'[q].presented = calls[q].presented
    BY <1>6, <2>1 DEF ToSpend, TypeOK, Authorizing, Idle
  <2> QED BY <1>4, <1>6, <2>2
<1>7. ASSUME NEW p \in Processes,
             \/ ReadRevocation(p) \/ RevocationUnavailable(p)
             \/ Spend(p) \/ SpendReplyLost(p) \/ SpendUnavailable(p)
      PROVE  RootInv'
  BY <1>6, <1>7
     DEF ReadRevocation, RevocationUnavailable, Spend, SpendReplyLost, SpendUnavailable, Degrade
<1>8. ASSUME UNCHANGED <<tokens, calls>>
      PROVE  RootInv'
  BY <1>8 DEF RootInv, Within, Presented
<1>9. ASSUME NEW r \in Revokers, RevokeSubject(r)
      PROVE  RootInv'
  BY <1>8, <1>9 DEF RevokeSubject, BeginRevoke, Revoked, RevokeUnavailable
<1>10. ASSUME \/ MemorySweep \/ Tick \/ UNCHANGED vars
              \/ \E cutoff \in 1..now : SqlCleanup(cutoff)
       PROVE  RootInv'
  BY <1>8, <1>10 DEF MemorySweep, SqlCleanup, Tick, vars
<1> QED
  BY <1>2, <1>3, <1>5, <1>7, <1>9, <1>10 DEF Next, Mint, Authorize

(* However long the chain of delegations, an acceptance is within the      *)
(* authority of the token the chain began with.                            *)
THEOREM DelegationNarrows == Spec => AcceptedWithinRoot
<1> DEFINE Inv == TypeOK /\ CallsInv /\ RootInv
<1>1. Init => Inv
  BY InitTypeOK, InitRoot
<1>2. Inv /\ [Next]_vars => Inv'
  BY StepTypeOK, StepRoot
<1>3. ASSUME Inv, NEW p \in Processes, calls[p].pc = "spend"
      PROVE  LET call  == calls[p]
                 token == tokens[call.nonce]
                 root  == tokens[token.root] IN
             /\ call.action \in root.scopes
             /\ root.subject # NoSubject => call.presented = root.subject
             /\ AudienceOf[p] # NoAudience => root.aud = AudienceOf[p]
             /\ call.checkedAt <= root.expires
             /\ token.maxUses <= root.maxUses
  <2>1. calls[p] \in Authorizing
    BY <1>3, WaitingIsAuthorizing DEF TypeOK
  <2>2. PICK n \in Nonces : n = calls[p].nonce /\ tokens[n] \in Token
    BY <1>3, <2>1 DEF CallsInv, Checked, Authorizing
  <2>3. Within(n) /\ Presented(p) /\ Checked(calls[p])
    BY <1>3, <2>2, NoTokenAssumption DEF RootInv, CallsInv
  <2>4. calls[p].checkedAt <= tokens[tokens[n].root].expires
    BY <2>1, <2>2, <2>3 DEF Within, Checked, Authorizing, Token, Times
  <2> QED BY <2>2, <2>3, <2>4 DEF Within, Presented, RightAudience, RightSubject
<1>4. Inv /\ [Next]_vars =>
        [\A p \in Processes :
           calls[p].pc = "spend" /\ calls'[p] = Idle /\ accepted' # accepted =>
           LET call  == calls[p]
               token == tokens[call.nonce]
               root  == tokens[token.root] IN
           /\ call.action \in root.scopes
           /\ root.subject # NoSubject => call.presented = root.subject
           /\ AudienceOf[p] # NoAudience => root.aud = AudienceOf[p]
           /\ call.checkedAt <= root.expires
           /\ token.maxUses <= root.maxUses]_vars
  BY <1>3
<1> QED BY <1>1, <1>2, <1>4, PTL DEF Spec, AcceptedWithinRoot

----------------------------------------------------------------------------
(* Rotation of the signing key.                                            *)

Ring == [keys : SUBSET Kids, active : Kids]

RingGuard == [ring : Ring, lastReload : Nat]

SignedToken == [kid : Kids, expires : Nat]

TypeInv ==
    /\ clock \in Nat /\ clock >= 1
    /\ provided \in Ring
    /\ guards \in [Guards -> RingGuard]
    /\ \A g \in Guards : guards[g].lastReload <= clock
    /\ signedTokens \subseteq SignedToken
    /\ \A token \in signedTokens : token.expires <= clock + MaxTtl
    /\ steppedAt \in Nat /\ steppedAt <= clock
    /\ adoptedAt \in Nat /\ adoptedAt <= clock
    /\ told \subseteq Guards

(* A keyring a guard may still verify and sign with.  One that is due for  *)
(* reload is replaced before it is used, if the provider answers.          *)
Current(guard) == Procedure = "confirmed" \/ clock - guard.lastReload < Interval

(* A guard whose keyring is not the provided one read it before that was   *)
(* written.                                                                *)
ReloadsInv ==
    \A g \in Guards : guards[g].ring # provided =>
        guards[g].lastReload <= steppedAt \/ MayFail

(* A ring that is compatible with the provided one: each verifies what the *)
(* other signs.                                                            *)
Compatible(ring) == ring.active \in provided.keys /\ provided.active \in ring.keys

(* Every two keyrings in use verify what either signs, so that a token is  *)
(* known wherever it goes.                                                 *)
RingsInv ==
    /\ provided.active \in provided.keys
    /\ \A g \in Guards : Current(guards[g]) =>
          /\ Compatible(guards[g].ring)
          /\ \A h \in Guards : Current(guards[h]) =>
                guards[g].ring.active \in guards[h].ring.keys

(* The key of a live token is in every keyring in use.                     *)
TokensInv ==
    \A token \in signedTokens : Live(token) =>
        /\ token.kid \in provided.keys
        /\ \A g \in Guards : Current(guards[g]) => token.kid \in guards[g].ring.keys

(* Tokens signed with another key than the active one expire by the end of *)
(* the wait that must pass before that key is removed.                     *)
ExpiryInv ==
    /\ Procedure = "timed" => \A token \in signedTokens : token.kid # provided.active =>
          token.expires < steppedAt + Interval + MaxTtl
    /\ Procedure = "confirmed" /\ adoptedAt > 0 =>
          /\ \A g \in Guards : guards[g].ring.active = provided.active
          /\ \A token \in signedTokens : token.kid # provided.active =>
                token.expires <= adoptedAt + MaxTtl

(* A guard that was told to reload holds the provided keyring, and its     *)
(* provider answers.                                                       *)
ToldInv == told # {} => ~MayFail /\ \A g \in told : guards[g].ring = provided

RotationInv ==
    /\ TypeInv /\ ReloadsInv /\ RingsInv /\ TokensInv /\ ExpiryInv /\ ToldInv
    /\ refused = {}

----------------------------------------------------------------------------
(* What a guard may be once it has read its keyring, told to reload or     *)
(* not.                                                                    *)
Used(guard) == MaybeReload(guard) \cup MaybeReload([guard EXCEPT !.lastReload = 0])

(* It kept a keyring not due for reload, got the provided one, or asked    *)
(* for it in vain.                                                         *)
LEMMA UsedGuard ==
    ASSUME TypeInv, NEW guard \in RingGuard, NEW used \in Used(guard),
           guard.lastReload <= clock
    PROVE  /\ used \in RingGuard /\ used.lastReload <= clock
           /\ \/ /\ used.ring = guard.ring /\ used.lastReload <= guard.lastReload
                 /\ clock - guard.lastReload < Interval
                 /\ clock - used.lastReload < Interval
              \/ used.ring = provided
              \/ MayFail /\ used.ring = guard.ring
<1> USE RotationAssumption
<1>1. PICK r \in Ring, n \in Nat : guard = [ring |-> r, lastReload |-> n] /\ n <= clock
  BY DEF RingGuard
<1>2. [guard EXCEPT !.lastReload = 0] = [ring |-> r, lastReload |-> 0]
  BY <1>1
<1>3. [guard EXCEPT !.lastReload = clock] = [ring |-> r, lastReload |-> clock]
  BY <1>1
<1>4. [[guard EXCEPT !.lastReload = 0] EXCEPT !.lastReload = clock] = [ring |-> r, lastReload |-> clock]
  <2>1. [[ring |-> r, lastReload |-> 0] EXCEPT !.lastReload = clock] = [ring |-> r, lastReload |-> clock]
    OBVIOUS
  <2> QED BY <1>2, <2>1, Zenon
<1>5. clock \in Nat /\ provided \in Ring /\ Interval \in Nat
  BY DEF TypeInv
<1>6. CASE used \in MaybeReload(guard)
  <2>1. \/ used = guard /\ clock - n < Interval
        \/ used = [ring |-> provided, lastReload |-> clock]
        \/ MayFail /\ used = [ring |-> r, lastReload |-> clock]
    BY <1>1, <1>3, <1>6 DEF MaybeReload
  <2> QED BY <1>1, <1>5, <2>1 DEF RingGuard
<1>7. CASE used \in MaybeReload([guard EXCEPT !.lastReload = 0])
  <2>1. \/ used = [ring |-> r, lastReload |-> 0] /\ clock - 0 < Interval
        \/ used = [ring |-> provided, lastReload |-> clock]
        \/ MayFail /\ used = [ring |-> r, lastReload |-> clock]
    BY <1>2, <1>4, <1>7 DEF MaybeReload
  <2> QED BY <1>1, <1>5, <2>1 DEF RingGuard
<1> QED BY <1>6, <1>7 DEF Used

(* A keyring is read and perhaps a token signed with it: what every        *)
(* operation of a guard does.                                              *)
Operation(g, used) ==
    /\ used \in Used(guards[g])
    /\ guards' = [guards EXCEPT ![g] = used]
    /\ UNCHANGED <<clock, provided, steppedAt, adoptedAt>>

Signs(used) ==
    \/ signedTokens' = signedTokens
    \/ \E token \in SignedToken : /\ token.kid = used.ring.active
                            /\ token.expires <= clock + MaxTtl
                            /\ signedTokens' = signedTokens \cup {token}

GuardStep ==
    \E g \in Guards, used \in RingGuard :
        /\ Operation(g, used) /\ Signs(used)
        /\ told' = told \/ (told' = told \cup {g} /\ ~MayFail /\ used.ring = provided)
        /\ refused' = refused \/ \E token \in signedTokens : /\ Live(token)
                                                       /\ token.kid \notin used.ring.keys
                                                       /\ refused' = refused \cup {token}

OperatorStep(k) == WithKey(k) \/ WithActive(k) \/ WithoutKey(k)

(* Each operation of a guard is one reload at most, then its own effect.   *)
LEMMA GuardOperations ==
    ASSUME TypeInv, NEW g \in Guards,
           \/ \E ttl \in TokenTtls : IssueToken(g, ttl)
           \/ \E token \in signedTokens : VerificationKey(g, token) \/ AttenuateToken(g, token)
           \/ ActiveKeyId(g)
           \/ ReloadKeys(g)
    PROVE  GuardStep
<1> USE RotationAssumption
<1>1. /\ guards[g] \in RingGuard /\ guards[g].lastReload <= clock
      /\ \A used \in Used(guards[g]) : used \in RingGuard /\ used.ring.active \in Kids
  BY UsedGuard DEF TypeInv, RingGuard, Ring
<1>2. ASSUME NEW ttl \in TokenTtls, IssueToken(g, ttl)
      PROVE  GuardStep
  <2>1. PICK used \in MaybeReload(guards[g]) :
            /\ guards' = [guards EXCEPT ![g] = used]
            /\ signedTokens' = signedTokens \cup {Signed(used, ttl)}
            /\ UNCHANGED <<clock, provided, steppedAt, adoptedAt, refused, told>>
    BY <1>2 DEF IssueToken
  <2>2. used \in Used(guards[g]) /\ used \in RingGuard /\ used.ring.active \in Kids
    BY <1>1, <2>1 DEF Used
  <2>3. /\ Signed(used, ttl) \in SignedToken /\ Signed(used, ttl).kid = used.ring.active
        /\ Signed(used, ttl).expires <= clock + MaxTtl
    BY <2>2 DEF Signed, SignedToken, TypeInv
  <2>4. Operation(g, used) /\ Signs(used)
    BY <2>1, <2>2, <2>3 DEF Operation, Signs
  <2> QED BY <2>1, <2>2, <2>4 DEF GuardStep
<1>3. ASSUME NEW token \in signedTokens, VerificationKey(g, token)
      PROVE  GuardStep
  <2>1. PICK used \in MaybeReload(guards[g]) :
            /\ guards' = [guards EXCEPT ![g] = used]
            /\ \/ token.kid \in used.ring.keys /\ UNCHANGED refused
               \/ token.kid \notin used.ring.keys /\ refused' = refused \cup {token}
    BY <1>3 DEF VerificationKey
  <2>2. used \in Used(guards[g]) /\ used \in RingGuard
    BY <1>1, <2>1 DEF Used
  <2>3. Operation(g, used) /\ Signs(used)
    BY <1>3, <2>1, <2>2 DEF VerificationKey, Operation, Signs
  <2> QED BY <1>3, <2>1, <2>2, <2>3 DEF VerificationKey, GuardStep
<1>4. ASSUME NEW token \in signedTokens, AttenuateToken(g, token)
      PROVE  GuardStep
  <2>1. PICK used \in MaybeReload(guards[g]) :
            /\ guards' = [guards EXCEPT ![g] = used]
            /\ \/ /\ token.kid \in used.ring.keys
                  /\ signedTokens' = signedTokens \cup {[token EXCEPT !.kid = used.ring.active]}
                  /\ UNCHANGED refused
               \/ /\ token.kid \notin used.ring.keys
                  /\ refused' = refused \cup {token}
                  /\ UNCHANGED signedTokens
    BY <1>4 DEF AttenuateToken
  <2>2. used \in Used(guards[g]) /\ used \in RingGuard /\ used.ring.active \in Kids
    BY <1>1, <2>1 DEF Used
  <2>3. /\ [token EXCEPT !.kid = used.ring.active] \in SignedToken
        /\ [token EXCEPT !.kid = used.ring.active].kid = used.ring.active
        /\ [token EXCEPT !.kid = used.ring.active].expires <= clock + MaxTtl
    BY <2>2 DEF SignedToken, TypeInv
  <2>4. Operation(g, used) /\ Signs(used)
    BY <1>4, <2>1, <2>2, <2>3 DEF AttenuateToken, Operation, Signs
  <2> QED BY <1>4, <2>1, <2>2, <2>4 DEF AttenuateToken, GuardStep
<1>5. ASSUME ActiveKeyId(g)
      PROVE  GuardStep
  <2>1. PICK used \in MaybeReload(guards[g]) :
            /\ guards' = [guards EXCEPT ![g] = used]
            /\ UNCHANGED <<clock, provided, signedTokens, steppedAt, adoptedAt, refused, told>>
    BY <1>5 DEF ActiveKeyId
  <2>2. used \in Used(guards[g]) /\ used \in RingGuard
    BY <1>1, <2>1 DEF Used
  <2> QED BY <2>1, <2>2 DEF GuardStep, Operation, Signs
<1>6. ASSUME ReloadKeys(g)
      PROVE  GuardStep
  <2> DEFINE reset == [guards[g] EXCEPT !.lastReload = 0]
  <2>1. PICK used \in MaybeReload(reset) :
            /\ guards' = [guards EXCEPT ![g] = used]
            /\ told' = told \cup Reached(g)
            /\ UNCHANGED <<clock, provided, signedTokens, steppedAt, adoptedAt, refused>>
    BY <1>6 DEF ReloadKeys
  <2>2. used \in Used(guards[g]) /\ used \in RingGuard
    BY <1>1, <2>1 DEF Used
  <2>3. reset.lastReload = 0
    BY <1>1 DEF RingGuard
  <2>4. Reached(g) = {g} => ~MayFail /\ used.ring = provided
    <3> HIDE DEF reset
    <3> QED BY <2>1, <2>3 DEF Reached, MaybeReload, TypeInv
  <2>5. Reached(g) \in {{}, {g}}
    BY DEF Reached
  <2> QED BY <2>1, <2>2, <2>4, <2>5 DEF GuardStep, Operation, Signs
<1> QED BY <1>2, <1>3, <1>4, <1>5, <1>6

(* At first every guard has what was provided.                             *)
LEMMA InitRotation == RotationInit => RotationInv
<1> USE RotationAssumption
<1>1. Single \in Ring /\ [ring |-> Single, lastReload |-> 1] \in RingGuard
  BY DEF Single, Ring, RingGuard
<1>2. Single.active = FirstKid /\ FirstKid \in Single.keys
  BY DEF Single
<1> QED
  BY <1>1, <1>2
  DEF RotationInit, RotationInv, TypeInv, ReloadsInv, RingsInv, Compatible, TokensInv, ExpiryInv, ToldInv

(* What a rotation step writes is a keyring.                               *)
LEMMA OperatorWrites ==
    ASSUME TypeInv, NEW k \in Kids, OperatorStep(k)
    PROVE  /\ provided' \in Ring /\ steppedAt' = clock /\ adoptedAt' = 0 /\ told' = {}
           /\ UNCHANGED <<clock, guards, signedTokens, refused>>
           /\ \/ /\ WithKey(k)
                 /\ provided'.keys = provided.keys \cup {k}
                 /\ provided'.active = provided.active
              \/ /\ WithActive(k)
                 /\ provided'.keys = provided.keys /\ provided'.active = k
              \/ /\ WithoutKey(k)
                 /\ provided'.keys = provided.keys \ {k}
                 /\ provided'.active = provided.active
<1>1. CASE WithKey(k)
  BY <1>1 DEF WithKey, Provide, TypeInv, Ring
<1>2. CASE WithActive(k)
  BY <1>2 DEF WithActive, Provide, TypeInv, Ring
<1>3. CASE WithoutKey(k)
  BY <1>3 DEF WithoutKey, Provide, TypeInv, Ring
<1> QED BY <1>1, <1>2, <1>3 DEF OperatorStep

(* The steps of the system: a guard, the operator, the clock.              *)
LEMMA Steps ==
    ASSUME TypeInv, [RotationNext]_rotationVars
    PROVE  \/ GuardStep
           \/ \E k \in Kids : OperatorStep(k)
           \/ Adopt \/ RotationTick \/ UNCHANGED rotationVars
  BY GuardOperations DEF RotationNext, OperatorStep

(* Each action keeps the types.                                            *)
LEMMA StepTypeInv == TypeInv /\ [RotationNext]_rotationVars => TypeInv'
<1> SUFFICES ASSUME TypeInv, [RotationNext]_rotationVars PROVE TypeInv'
  OBVIOUS
<1> USE RotationAssumption
<1>1. CASE GuardStep
  <2>1. PICK g \in Guards, used \in RingGuard :
            /\ Operation(g, used) /\ Signs(used)
            /\ told' = told \/ told' = told \cup {g}
    BY <1>1 DEF GuardStep
  <2>2. used.lastReload <= clock
    BY <2>1, UsedGuard DEF Operation, TypeInv
  <2>3. guards' \in [Guards -> RingGuard] /\ \A h \in Guards : guards'[h].lastReload <= clock
    BY <2>1, <2>2 DEF Operation, TypeInv
  <2>4. signedTokens' \subseteq SignedToken /\ \A token \in signedTokens' : token.expires <= clock + MaxTtl
    BY <2>1 DEF Signs, TypeInv
  <2> QED BY <2>1, <2>3, <2>4 DEF Operation, TypeInv
<1>2. ASSUME NEW k \in Kids, OperatorStep(k)
      PROVE  TypeInv'
  BY <1>2, OperatorWrites DEF TypeInv
<1>3. CASE Adopt
  BY <1>3 DEF Adopt, TypeInv
<1>4. CASE RotationTick
  BY <1>4 DEF RotationTick, TypeInv, RingGuard, SignedToken
<1>5. CASE UNCHANGED rotationVars
  BY <1>5 DEF rotationVars, TypeInv
<1> QED BY <1>1, <1>2, <1>3, <1>4, <1>5, Steps

(* Each action keeps what a guard that was told to reload has read.        *)
LEMMA StepToldInv == TypeInv /\ ToldInv /\ [RotationNext]_rotationVars => ToldInv'
<1> SUFFICES ASSUME TypeInv, ToldInv, [RotationNext]_rotationVars PROVE ToldInv'
  OBVIOUS
<1>1. CASE GuardStep
  <2>1. PICK g \in Guards, used \in RingGuard :
            /\ Operation(g, used)
            /\ told' = told \/ (told' = told \cup {g} /\ ~MayFail /\ used.ring = provided)
    BY <1>1 DEF GuardStep
  <2>2. used.ring = guards[g].ring \/ used.ring = provided
    BY <2>1, UsedGuard DEF Operation, TypeInv
  <2> QED BY <2>1, <2>2 DEF Operation, TypeInv, ToldInv
<1>2. ASSUME NEW k \in Kids, OperatorStep(k)
      PROVE  ToldInv'
  BY <1>2, OperatorWrites DEF ToldInv
<1>3. CASE Adopt \/ RotationTick \/ UNCHANGED rotationVars
  BY <1>3 DEF Adopt, RotationTick, rotationVars, ToldInv
<1> QED BY <1>1, <1>2, <1>3, Steps

----------------------------------------------------------------------------
(* By the clock the operator cannot see a provider that fails: that        *)
(* procedure needs one that answers.  Who looks at every guard does not.   *)
ProviderAnswers == Procedure = "timed" => ~MayFail

(* What a guard uses was the provided keyring no longer ago than an        *)
(* interval, or is one the operator can see: it is in use already, or      *)
(* provided.                                                               *)
LEMMA UsedIsCurrent ==
    ASSUME RotationInv, ProviderAnswers, NEW g \in Guards, NEW used \in Used(guards[g])
    PROVE  /\ \/ used.ring = provided
              \/ used.ring = guards[g].ring /\ Current(guards[g])
           /\ used.ring # provided => used.lastReload <= steppedAt \/ MayFail
           /\ Procedure = "timed" /\ used.ring # provided => clock < steppedAt + Interval
<1> USE RotationAssumption
<1>1. /\ guards[g] \in RingGuard /\ guards[g].lastReload <= clock
      /\ clock \in Nat /\ steppedAt \in Nat /\ guards[g].lastReload \in Nat
  BY DEF RotationInv, TypeInv, RingGuard
<1>2. /\ used \in RingGuard /\ used.lastReload \in Nat
      /\ \/ /\ used.ring = guards[g].ring /\ used.lastReload <= guards[g].lastReload
            /\ clock - guards[g].lastReload < Interval
         \/ used.ring = provided
         \/ MayFail /\ used.ring = guards[g].ring
  BY <1>1, UsedGuard DEF RotationInv, RingGuard
<1>3. guards[g].ring # provided => guards[g].lastReload <= steppedAt \/ MayFail
  BY DEF RotationInv, ReloadsInv
<1> QED BY <1>1, <1>2, <1>3 DEF ProviderAnswers, Current

(* So it is compatible with the keyring of every other guard, and knows    *)
(* every live token.                                                       *)
LEMMA UsedIsCompatible ==
    ASSUME RotationInv, ProviderAnswers, NEW g \in Guards, NEW used \in Used(guards[g])
    PROVE  /\ Compatible(used.ring) /\ used.ring.active \in used.ring.keys
           /\ \A h \in Guards : Current(guards[h]) =>
                 /\ used.ring.active \in guards[h].ring.keys
                 /\ guards[h].ring.active \in used.ring.keys
           /\ \A token \in signedTokens : Live(token) => token.kid \in used.ring.keys
<1>1. CASE used.ring = provided
  BY <1>1 DEF RotationInv, RingsInv, TokensInv, Compatible
<1>2. CASE used.ring = guards[g].ring /\ Current(guards[g])
  BY <1>2 DEF RotationInv, RingsInv, TokensInv, Compatible
<1> QED BY <1>1, <1>2, UsedIsCurrent

(* A guard verifies and signs: nothing of the rotation is disturbed.       *)
LEMMA GuardStepKeeps ==
    ASSUME RotationInv, ProviderAnswers, GuardStep
    PROVE  ReloadsInv' /\ RingsInv' /\ TokensInv' /\ ExpiryInv' /\ refused' = {}
<1> USE RotationAssumption
<1>1. PICK g \in Guards, used \in RingGuard :
          /\ Operation(g, used) /\ Signs(used)
          /\ \/ refused' = refused
             \/ \E token \in signedTokens : /\ Live(token)
                                      /\ token.kid \notin used.ring.keys
                                      /\ refused' = refused \cup {token}
  BY DEF GuardStep
<1>2. /\ guards'[g] = used /\ \A h \in Guards \ {g} : guards'[h] = guards[h]
      /\ UNCHANGED <<clock, provided, steppedAt, adoptedAt>> /\ used \in Used(guards[g])
  BY <1>1 DEF Operation, RotationInv, TypeInv
<1>3. /\ Compatible(used.ring) /\ used.ring.active \in used.ring.keys
      /\ \A h \in Guards : Current(guards[h]) =>
            /\ used.ring.active \in guards[h].ring.keys
            /\ guards[h].ring.active \in used.ring.keys
      /\ \A token \in signedTokens : Live(token) => token.kid \in used.ring.keys
  BY <1>2, UsedIsCompatible
<1>4. /\ \/ used.ring = provided
         \/ used.ring = guards[g].ring /\ Current(guards[g])
      /\ used.ring # provided => used.lastReload <= steppedAt \/ MayFail
      /\ Procedure = "timed" /\ used.ring # provided => clock < steppedAt + Interval
  BY <1>2, UsedIsCurrent
<1>5. refused' = {}
  BY <1>1, <1>3 DEF RotationInv
<1>6. ReloadsInv'
  BY <1>2, <1>4 DEF RotationInv, ReloadsInv
<1>7. \A h \in Guards \ {g} : Current(guards'[h]) => Current(guards[h])
  BY <1>2
<1>8. RingsInv'
  <2>1. \A h \in Guards : Current(guards[h])' =>
            /\ guards'[h].ring.active \in provided.keys
            /\ provided.active \in guards'[h].ring.keys
    BY <1>2, <1>3 DEF RotationInv, RingsInv, Compatible, Current
  <2>2. \A h, i \in Guards : Current(guards[h])' /\ Current(guards[i])' =>
            guards'[h].ring.active \in guards'[i].ring.keys
    BY <1>2, <1>3 DEF RotationInv, RingsInv, Compatible, Current
  <2> QED BY <1>2, <2>1, <2>2 DEF RotationInv, RingsInv, Compatible
<1>9. \A token \in signedTokens' : \/ token \in signedTokens
                             \/ /\ token.kid = used.ring.active
                                /\ token \in SignedToken /\ token.expires <= clock + MaxTtl
  BY <1>1 DEF Signs
<1>10. TokensInv'
  <2> SUFFICES ASSUME NEW token \in signedTokens', Live(token)'
               PROVE  /\ token.kid \in provided'.keys
                      /\ \A h \in Guards : Current(guards[h])' =>
                            token.kid \in guards'[h].ring.keys
    BY DEF TokensInv
  <2>1. Live(token)
    BY <1>2 DEF Live
  <2>2. CASE token \in signedTokens
    BY <1>2, <1>3, <2>1, <2>2 DEF RotationInv, TokensInv, Current
  <2>3. CASE token.kid = used.ring.active
    BY <1>2, <1>3, <2>3 DEF Compatible, Current
  <2> QED BY <1>9, <2>2, <2>3
<1>11. ExpiryInv'
  <2>1. ASSUME Procedure = "timed", NEW token \in signedTokens', token.kid # provided.active
        PROVE  token.expires < steppedAt + Interval + MaxTtl
    <3>1. CASE token \in signedTokens
      BY <2>1, <3>1 DEF RotationInv, ExpiryInv
    <3>2. CASE /\ token.kid = used.ring.active
               /\ token \in SignedToken /\ token.expires <= clock + MaxTtl
      <4>1. clock < steppedAt + Interval
        BY <1>4, <2>1, <3>2
      <4> QED BY <3>2, <4>1 DEF RotationInv, TypeInv, SignedToken
    <3> QED BY <1>9, <3>1, <3>2
  <2>2. ASSUME Procedure = "confirmed", adoptedAt > 0
        PROVE  /\ \A h \in Guards : guards'[h].ring.active = provided.active
               /\ \A token \in signedTokens' : token.kid # provided.active =>
                     token.expires <= adoptedAt + MaxTtl
    <3>1. used.ring.active = provided.active
      BY <1>4, <2>2 DEF RotationInv, ExpiryInv
    <3> QED BY <1>2, <1>9, <2>2, <3>1 DEF RotationInv, ExpiryInv
  <2> QED BY <1>2, <2>1, <2>2 DEF ExpiryInv
<1> QED BY <1>5, <1>6, <1>8, <1>10, <1>11

(* When the next key is accepted, every keyring in use knows it.           *)
LEMMA AcceptedIsKnown ==
    ASSUME RotationInv, ProviderAnswers, NEW k \in provided.keys, Accepted(k),
           NEW g \in Guards, Current(guards[g])
    PROVE  k \in guards[g].ring.keys
<1> USE RotationAssumption
<1>1. CASE Procedure = "confirmed"
  BY <1>1 DEF Accepted
<1>2. CASE Procedure = "timed"
  <2>1. /\ clock >= steppedAt + Interval /\ clock - guards[g].lastReload < Interval
        /\ clock \in Nat /\ steppedAt \in Nat /\ guards[g].lastReload \in Nat
    BY <1>2 DEF Accepted, Current, RotationInv, TypeInv, RingGuard
  <2>2. guards[g].ring = provided
    BY <1>2, <2>1 DEF RotationInv, ReloadsInv, ProviderAnswers
  <2> QED BY <2>2
<1> QED BY <1>1, <1>2

(* When a key is unused, no keyring in use signs with it and no live token *)
(* names it.                                                               *)
LEMMA UnusedIsGone ==
    ASSUME RotationInv, ProviderAnswers, NEW k \in provided.keys, k # provided.active,
           Unused(k)
    PROVE  /\ \A g \in Guards : Current(guards[g]) => guards[g].ring.active # k
           /\ \A token \in signedTokens : Live(token) => token.kid # k
<1> USE RotationAssumption
<1>1. /\ clock \in Nat /\ steppedAt \in Nat /\ adoptedAt \in Nat
      /\ \A token \in signedTokens : token.expires \in Nat
      /\ \A g \in Guards : guards[g].lastReload \in Nat
  BY DEF RotationInv, TypeInv, RingGuard, SignedToken
<1>2. CASE Procedure = "confirmed"
  <2>1. adoptedAt > 0 /\ clock > adoptedAt + MaxTtl
    BY <1>2 DEF Unused
  <2>2. /\ \A g \in Guards : guards[g].ring.active = provided.active
        /\ \A token \in signedTokens : token.kid # provided.active =>
              token.expires <= adoptedAt + MaxTtl
    BY <1>2, <2>1 DEF RotationInv, ExpiryInv
  <2> QED BY <1>1, <2>1, <2>2 DEF Live
<1>3. CASE Procedure = "timed"
  <2>1. clock >= steppedAt + Interval + MaxTtl
    BY <1>3 DEF Unused
  <2>2. \A token \in signedTokens : token.kid # provided.active =>
            token.expires < steppedAt + Interval + MaxTtl
    BY <1>3 DEF RotationInv, ExpiryInv
  <2>3. ASSUME NEW g \in Guards, Current(guards[g])
        PROVE  guards[g].ring = provided
    BY <1>1, <1>3, <2>1, <2>3 DEF Current, RotationInv, ReloadsInv, ProviderAnswers
  <2> QED BY <1>1, <2>1, <2>2, <2>3 DEF Live
<1> QED BY <1>2, <1>3

(* The operator takes a step.                                              *)
LEMMA OperatorKeeps ==
    ASSUME RotationInv, ProviderAnswers, NEW k \in Kids, OperatorStep(k)
    PROVE  ReloadsInv' /\ RingsInv' /\ TokensInv' /\ ExpiryInv' /\ refused' = {}
<1> USE RotationAssumption
<1>1. /\ TypeInv /\ provided' \in Ring /\ steppedAt' = clock /\ adoptedAt' = 0
      /\ UNCHANGED <<clock, guards, signedTokens, refused>>
  BY OperatorWrites DEF RotationInv
<1>2. ReloadsInv'
  BY <1>1 DEF TypeInv, ReloadsInv
<1>3. ExpiryInv'
  BY <1>1 DEF TypeInv, ExpiryInv, SignedToken
<1>4. /\ provided'.active \in provided'.keys
      /\ \A g \in Guards : Current(guards[g]) =>
            guards[g].ring.active \in provided'.keys /\ provided'.active \in guards[g].ring.keys
      /\ \A token \in signedTokens : Live(token) => token.kid \in provided'.keys
  <2>1. CASE /\ WithKey(k) /\ provided'.keys = provided.keys \cup {k}
             /\ provided'.active = provided.active
    BY <2>1 DEF RotationInv, RingsInv, TokensInv, Compatible
  <2>2. CASE /\ WithActive(k) /\ provided'.keys = provided.keys
             /\ provided'.active = k
    BY <2>2, AcceptedIsKnown DEF RotationInv, RingsInv, TokensInv, Compatible, WithActive
  <2>3. CASE /\ WithoutKey(k) /\ provided'.keys = provided.keys \ {k}
             /\ provided'.active = provided.active
    BY <2>3, UnusedIsGone DEF RotationInv, RingsInv, TokensInv, Compatible, WithoutKey
  <2> QED BY <1>1, <2>1, <2>2, <2>3, OperatorWrites
<1>5. RingsInv'
  BY <1>1, <1>4 DEF RotationInv, RingsInv, Compatible, Current
<1>6. TokensInv'
  BY <1>1, <1>4 DEF RotationInv, TokensInv, Live, Current
<1> QED BY <1>1, <1>2, <1>3, <1>5, <1>6 DEF RotationInv

(* Each action keeps the invariant, if providers answer.                   *)
LEMMA StepRotation ==
    ProviderAnswers /\ RotationInv /\ [RotationNext]_rotationVars => RotationInv'
<1> SUFFICES ASSUME ProviderAnswers, RotationInv, [RotationNext]_rotationVars
             PROVE  RotationInv'
  OBVIOUS
<1> USE RotationAssumption
<1>1. TypeInv' /\ ToldInv'
  BY StepTypeInv, StepToldInv DEF RotationInv
<1>2. CASE GuardStep
  BY <1>1, <1>2, GuardStepKeeps DEF RotationInv
<1>3. ASSUME NEW k \in Kids, OperatorStep(k)
      PROVE  RotationInv'
  BY <1>1, <1>3, OperatorKeeps DEF RotationInv
<1>4. CASE Adopt
  <2>1. ExpiryInv'
    BY <1>4 DEF Adopt, RotationInv, TypeInv, ExpiryInv
  <2>2. ReloadsInv' /\ RingsInv' /\ TokensInv' /\ refused' = {}
    BY <1>4 DEF Adopt, RotationInv, ReloadsInv, RingsInv, Compatible, TokensInv, Live, Current
  <2> QED BY <1>1, <2>1, <2>2 DEF RotationInv
<1>5. CASE RotationTick
  <2>1. /\ clock \in Nat /\ clock' = clock + 1
        /\ UNCHANGED <<provided, guards, steppedAt, adoptedAt, refused>>
        /\ signedTokens' \subseteq signedTokens
    BY <1>5 DEF RotationTick, RotationInv, TypeInv
  <2>2. \A g \in Guards : Current(guards[g])' => Current(guards[g])
    BY <2>1 DEF Current, RotationInv, TypeInv, RingGuard
  <2>3. \A token \in signedTokens' : Live(token)' => Live(token)
    BY <2>1 DEF Live, RotationInv, TypeInv, SignedToken
  <2>4. RingsInv'
    BY <2>1, <2>2 DEF RotationInv, RingsInv, Compatible
  <2>5. TokensInv'
    BY <2>1, <2>2, <2>3 DEF RotationInv, TokensInv
  <2>6. ReloadsInv' /\ ExpiryInv' /\ refused' = {}
    BY <2>1 DEF RotationInv, ReloadsInv, ExpiryInv
  <2> QED BY <1>1, <2>4, <2>5, <2>6 DEF RotationInv
<1>6. CASE UNCHANGED rotationVars
  BY <1>6 DEF rotationVars, RotationInv, TypeInv, ReloadsInv, RingsInv, Compatible, TokensInv, Live,
              Current, ExpiryInv, ToldInv
<1> QED BY <1>2, <1>3, <1>4, <1>5, <1>6, Steps DEF RotationInv

----------------------------------------------------------------------------
(* A rotation has no window: no live token is refused for its key at any   *)
(* guard, whichever providers fail if the operator looks at the guards,    *)
(* and if they answer where the operator goes by the clock.                *)
THEOREM RotationHasNoWindow ==
    ASSUME ProviderAnswers
    PROVE  RotationSpec => []LiveTokensVerify
<1>1. RotationInv => LiveTokensVerify
  BY DEF RotationInv, LiveTokensVerify
<1>2. RotationInv /\ [RotationNext]_rotationVars => RotationInv'
  BY StepRotation
<1> QED BY <1>1, <1>2, InitRotation, PTL DEF RotationSpec

(* A guard that was told to reload since the operator last wrote has that  *)
(* keyring.                                                                *)
THEOREM ToldGuardsAreCurrent == RotationSpec => []ReloadIsPrompt
<1>1. RotationInit => TypeInv /\ ToldInv
  BY InitRotation DEF RotationInv
<1>2. TypeInv /\ ToldInv /\ [RotationNext]_rotationVars => TypeInv' /\ ToldInv'
  BY StepTypeInv, StepToldInv
<1>3. ToldInv => ReloadIsPrompt
  BY DEF ToldInv, ReloadIsPrompt
<1> QED BY <1>1, <1>2, <1>3, PTL DEF RotationSpec
=============================================================================
