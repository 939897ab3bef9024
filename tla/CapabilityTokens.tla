-------------------------- MODULE CapabilityTokens --------------------------
(***************************************************************************)
(* Capability tokens as services/scope_guard.py issues, narrows, revokes   *)
(* and authorizes them, over the nonce store of one of the backends of     *)
(* sessions/ (in memory, Redis, PostgreSQL/MySQL).                         *)
(*                                                                         *)
(* A process is one caller of ScopeGuard.authorize; a revoker is one       *)
(* caller of ScopeGuard.revoke_subject.  Both await the store, so their    *)
(* calls are cut where the code awaits: everything between two awaits is   *)
(* one action, everything else interleaves.  Each round trip may take      *)
(* effect, fail before it takes effect, or take effect and lose its reply. *)
(* A signature that verifies is modelled by the token being one that was   *)
(* issued; keys and their rotation are the subject of another module.      *)
(***************************************************************************)
EXTENDS Integers, FiniteSets

CONSTANTS
    Nonces,          \* values of secrets.token_hex: the tokens there can be
    Processes,       \* concurrent callers of authorize
    Revokers,        \* concurrent callers of revoke_subject
    Subjects,        \* end users a token can be bound to
    NoSubject,       \* the None of an unbound token or an absent subject
    Actions,         \* scopes and requested actions
    Audiences,       \* services that share the signing key
    NoAudience,      \* the None of a guard without an audience
    AudienceOf,      \* the audience of each process's guard
    NoToken,         \* a nonce that was never drawn
    Ttls,            \* the ttl_seconds tokens are issued with, in ticks
    UseLimits,       \* the max_uses tokens are issued with
    MaxDepth,        \* MAX_DELEGATION_DEPTH
    RevocationTtl,   \* the ttl_seconds of every revocation, in ticks
    TicksPerSecond,  \* clock ticks in one second: TTLs are cut to seconds
    Timeout,         \* FailurePolicy.timeout_seconds, in ticks
    Store,           \* which NonceStore: "memory", "redis" or "sql"
    FailOpen,        \* the failure policy of the token_replay category
    RequireSubject,  \* ScopeGuard(require_subject=...)
    MaxTime,         \* bound: horizon of the clock
    MaxCalls         \* bound: calls of authorize a process makes

Bindings == Subjects \cup {NoSubject}
Services == Audiences \cup {NoAudience}

(* Facts of the deployment: durations are positive, time starts at 1, and  *)
(* every limit is one issue_token accepts.                                 *)
ASSUME ConstantsAssumption ==
    /\ NoSubject \notin Subjects
    /\ NoAudience \notin Audiences
    /\ AudienceOf \in [Processes -> Services]
    /\ Ttls \subseteq Nat \ {0}
    /\ UseLimits \subseteq Nat \ {0}
    /\ MaxDepth \in Nat
    /\ RevocationTtl \in Nat \ {0}
    /\ TicksPerSecond \in Nat \ {0}
    /\ Timeout \in Nat \ {0}
    /\ MaxTime \in Nat
    /\ MaxCalls \in Nat
    /\ Store \in {"memory", "redis", "sql"}
    /\ FailOpen \in BOOLEAN
    /\ RequireSubject \in BOOLEAN

Times == Nat

Token == [scopes : SUBSET Actions, subject : Bindings, aud : Services,
          issued : Times, expires : Times, maxUses : Nat \ {0},
          depth : 0..MaxDepth, root : Nonces]

ASSUME NoTokenAssumption == NoToken \notin Token

VARIABLES
    now,           \* time.time(), the same for every process
    tokens,        \* the signed payload of each nonce, or NoToken
    nonces,        \* nonce store: uses and expiry; 0 uses is no record
    revocations,   \* nonce store: revocation instant and its expiry
    calls,         \* authorize, per process
    attempts,      \* calls of authorize begun, per process
    revokes,       \* revoke_subject, per revoker
    accepted,      \* history: acceptances of each nonce
    revokedUpTo    \* history: latest recorded revocation of each subject

vars == <<now, tokens, nonces, revocations, calls, attempts, revokes,
          accepted, revokedUpTo>>

(* What a call answered is not kept: accepted counts the acceptances, and  *)
(* a refusal and an unavailable backend leave the same state behind.       *)
Idle == [pc |-> "idle"]

Authorizing == [pc : {"revocation", "spend"}, nonce : Nonces, action : Actions,
                presented : Bindings, checkedAt : Times, startedAt : Times]

Revoking == [pc : {"record"}, subject : Subjects, at : Times]

Call   == {Idle} \cup Authorizing
Revoke == {Idle} \cup Revoking

NoUse == [uses |-> 0, expires |-> 0]
NoRevocation == [at |-> 0, expires |-> 0]

Init ==
    /\ now = 1
    /\ tokens = [n \in Nonces |-> NoToken]
    /\ nonces = [n \in Nonces |-> NoUse]
    /\ revocations = [s \in Subjects |-> NoRevocation]
    /\ calls = [p \in Processes |-> Idle]
    /\ attempts = [p \in Processes |-> 0]
    /\ revokes = [r \in Revokers |-> Idle]
    /\ accepted = [n \in Nonces |-> [early |-> 0, late |-> 0, unmetered |-> 0]]
    /\ revokedUpTo = [s \in Subjects |-> 0]

Issued == {n \in Nonces : tokens[n] # NoToken}

----------------------------------------------------------------------------
(* Issuing and narrowing: both are local to one process, no await.         *)

Issue(n, scopes, subject, aud, ttl, maxUses) ==
    /\ tokens[n] = NoToken
    /\ RequireSubject => subject # NoSubject
    /\ tokens' = [tokens EXCEPT ![n] =
          [scopes |-> scopes, subject |-> subject, aud |-> aud,
           issued |-> now, expires |-> now + ttl, maxUses |-> maxUses,
           depth |-> 0, root |-> n]]
    /\ UNCHANGED <<now, nonces, revocations, calls, attempts, revokes, accepted, revokedUpTo>>

Earlier(a, b) == IF a <= b THEN a ELSE b

(* Mutants: the narrowing check dropped, the depth check off by one.       *)
Attenuate_AnyScope(n, parent, scopes, expires, maxUses) ==
    LET payload == tokens[parent] IN
    /\ tokens[n] = NoToken
    /\ payload # NoToken /\ now <= payload.expires
    /\ payload.depth + 1 <= MaxDepth /\ maxUses <= payload.maxUses
    /\ tokens' = [tokens EXCEPT ![n] = [payload EXCEPT !.scopes = scopes,
          !.issued = now, !.depth = @ + 1]]
    /\ UNCHANGED <<now, nonces, revocations, calls, attempts, revokes, accepted, revokedUpTo>>

Attenuate_TooDeep(n, parent, scopes, expires, maxUses) ==
    LET payload == tokens[parent] IN
    /\ tokens[n] = NoToken
    /\ payload # NoToken /\ now <= payload.expires
    /\ payload.depth <= MaxDepth /\ maxUses <= payload.maxUses
    /\ scopes # {} /\ scopes \subseteq payload.scopes
    /\ tokens' = [tokens EXCEPT ![n] = [payload EXCEPT !.scopes = scopes,
          !.issued = now, !.depth = @ + 1]]
    /\ UNCHANGED <<now, nonces, revocations, calls, attempts, revokes, accepted, revokedUpTo>>

Attenuate(n, parent, scopes, expires, maxUses) ==
    LET payload == tokens[parent] IN
    /\ tokens[n] = NoToken
    /\ payload # NoToken
    /\ now <= payload.expires
    /\ payload.depth + 1 <= MaxDepth
    /\ scopes # {} /\ scopes \subseteq payload.scopes
    /\ maxUses <= payload.maxUses
    /\ tokens' = [tokens EXCEPT ![n] =
          [scopes |-> scopes, subject |-> payload.subject, aud |-> payload.aud,
           issued |-> now, expires |-> Earlier(payload.expires, expires),
           maxUses |-> maxUses, depth |-> payload.depth + 1,
           root |-> payload.root]]
    /\ UNCHANGED <<now, nonces, revocations, calls, attempts, revokes, accepted, revokedUpTo>>

----------------------------------------------------------------------------
(* authorize, up to its first await                                        *)

RightAudience(p, token) ==
    AudienceOf[p] # NoAudience => token.aud = AudienceOf[p]

RightSubject(token, presented) ==
    IF token.subject # NoSubject THEN presented = token.subject
                                 ELSE ~RequireSubject

Admissible(p, n, action, presented) ==
    /\ RightAudience(p, tokens[n])
    /\ RightSubject(tokens[n], presented)
    /\ now <= tokens[n].expires
    /\ action \in tokens[n].scopes

(* The horizon leaves an authorize that starts room for both round trips.  *)
RoomForCall == now + 2 * Timeout <= MaxTime

BeginAuthorize(p, n, action, presented) ==
    /\ calls[p].pc = "idle"
    /\ n \in Issued
    /\ RoomForCall /\ attempts[p] < MaxCalls
    /\ calls' = [calls EXCEPT ![p] =
          IF Admissible(p, n, action, presented)
          THEN [pc |-> IF tokens[n].subject # NoSubject THEN "revocation" ELSE "spend",
                nonce |-> n, action |-> action, presented |-> presented,
                checkedAt |-> now, startedAt |-> now]
          ELSE Idle]
    /\ attempts' = [attempts EXCEPT ![p] = @ + 1]
    /\ UNCHANGED <<now, tokens, nonces, revocations, revokes, accepted, revokedUpTo>>

(* asyncio.wait_for bounds every round trip; nothing of it takes effect    *)
(* later.                                                                  *)
InTime(call) == now <= call.startedAt + Timeout

(* A SQL statement carries the time.time() its caller read before it got a *)
(* connection and its locks; the other stores use the time of the effect.  *)
StoreTimes(startedAt) == IF Store = "sql" THEN startedAt..now ELSE {now}

----------------------------------------------------------------------------
(* The revocation check                                                    *)

RevokedAt(subject, at) ==
    IF revocations[subject].expires > at THEN revocations[subject].at ELSE 0

ToSpend(p) == [calls EXCEPT ![p].pc = "spend", ![p].startedAt = now]

ReadRevocation(p) ==
    /\ calls[p].pc = "revocation"
    /\ InTime(calls[p])
    /\ \E at \in StoreTimes(calls[p].startedAt) :
          LET token == tokens[calls[p].nonce] IN
          calls' = IF token.issued <= RevokedAt(token.subject, at)
                   THEN [calls EXCEPT ![p] = Idle]
                   ELSE ToSpend(p)
    /\ UNCHANGED <<now, tokens, nonces, revocations, attempts, revokes, accepted, revokedUpTo>>

(* Error, timeout or open breaker: an open policy skips the check.         *)
RevocationUnavailable(p) ==
    /\ calls[p].pc = "revocation"
    /\ calls' = IF FailOpen THEN ToSpend(p)
                            ELSE [calls EXCEPT ![p] = Idle]
    /\ UNCHANGED <<now, tokens, nonces, revocations, attempts, revokes, accepted, revokedUpTo>>

----------------------------------------------------------------------------
(* The replay check: NonceStore.check_and_increment                        *)

(* Mutant: a TTL in the wrong unit.                                        *)
RemainingTtl_Unscaled(call) ==
    LET seconds == (tokens[call.nonce].expires - call.checkedAt) \div TicksPerSecond
    IN  IF seconds >= 1 THEN seconds ELSE 1

RemainingTtl(call) ==
    LET seconds == (tokens[call.nonce].expires - call.checkedAt) \div TicksPerSecond
    IN  TicksPerSecond * (IF seconds >= 1 THEN seconds ELSE 1)

(* A record that expired reads as no use: INCR of a missing key, an entry  *)
(* or a row past its expires_at.  Only the memory store renews the record. *)
MemoryIncremented(record, at, ttl) ==
    [uses |-> IF record.expires <= at THEN 1 ELSE record.uses + 1, expires |-> at + ttl]

RedisIncremented(record, at, ttl) ==
    IF record.expires <= at THEN [uses |-> 1, expires |-> at + ttl]
                            ELSE [record EXCEPT !.uses = @ + 1]

SqlIncremented(record, at, ttl) ==
    IF record.expires < at THEN [uses |-> 1, expires |-> at + ttl]
                           ELSE [record EXCEPT !.uses = @ + 1]

Incremented(record, at, ttl) ==
    CASE Store = "memory" -> MemoryIncremented(record, at, ttl)
      [] Store = "redis"  -> RedisIncremented(record, at, ttl)
      [] OTHER            -> SqlIncremented(record, at, ttl)

(* History only: whether a use is committed a whole second before the end  *)
(* of the token's life, while its record cannot have expired.              *)
IsEarly(n) == now <= tokens[n].expires - TicksPerSecond

CheckAndIncrement(p, at) ==
    LET n == calls[p].nonce IN
    nonces' = [nonces EXCEPT ![n] = Incremented(nonces[n], at, RemainingTtl(calls[p]))]

Spend(p) ==
    /\ calls[p].pc = "spend"
    /\ InTime(calls[p])
    /\ \E at \in StoreTimes(calls[p].startedAt) : CheckAndIncrement(p, at)
    /\ LET n == calls[p].nonce
           within == nonces'[n].uses <= tokens[n].maxUses
       IN  /\ calls' = [calls EXCEPT ![p] = Idle]
           /\ accepted' = IF ~within THEN accepted
                          ELSE IF IsEarly(n) THEN [accepted EXCEPT ![n].early = @ + 1]
                          ELSE [accepted EXCEPT ![n].late = @ + 1]
    /\ UNCHANGED <<now, tokens, revocations, attempts, revokes, revokedUpTo>>

(* What _degrade makes of a failed replay check: refuse, or honour the     *)
(* token without a use count.                                              *)
Degrade(p) ==
    LET n == calls[p].nonce IN
    /\ calls' = [calls EXCEPT ![p] = Idle]
    /\ accepted' = IF FailOpen THEN [accepted EXCEPT ![n].unmetered = @ + 1] ELSE accepted

SpendReplyLost(p) ==
    /\ calls[p].pc = "spend"
    /\ InTime(calls[p])
    /\ \E at \in StoreTimes(calls[p].startedAt) : CheckAndIncrement(p, at)
    /\ Degrade(p)
    /\ UNCHANGED <<now, tokens, revocations, attempts, revokes, revokedUpTo>>

SpendUnavailable(p) ==
    /\ calls[p].pc = "spend"
    /\ Degrade(p)
    /\ UNCHANGED <<now, tokens, nonces, revocations, attempts, revokes, revokedUpTo>>

----------------------------------------------------------------------------
(* revoke_subject: the instant is read before the round trip               *)

BeginRevoke(r, subject) ==
    /\ revokes[r].pc = "idle"
    /\ now + Timeout <= MaxTime
    /\ revokes' = [revokes EXCEPT ![r] = [pc |-> "record", subject |-> subject, at |-> now]]
    /\ UNCHANGED <<now, tokens, nonces, revocations, calls, attempts, accepted, revokedUpTo>>

Later(a, b) == IF a >= b THEN a ELSE b

(* Revoking again never moves the instant backwards, as far as the store   *)
(* still has it; the life of the record restarts with every revocation.    *)
MemoryRevocation(record, revokedAt, at) ==
    [at |-> IF record.expires > at THEN Later(revokedAt, record.at) ELSE revokedAt,
     expires |-> at + RevocationTtl]

RedisRevocation(record, revokedAt, at) ==
    [at |-> IF record.expires > at /\ record.at > revokedAt THEN record.at ELSE revokedAt,
     expires |-> at + RevocationTtl]

(* Mutant: the life of an existing row is not renewed.                     *)
SqlRevocation_KeepsExpiry(record, revokedAt, at) ==
    [at |-> Later(revokedAt, record.at),
     expires |-> IF record.expires > 0 THEN record.expires ELSE at + RevocationTtl]

(* GREATEST compares with an expired row too.                              *)
SqlRevocation(record, revokedAt, at) ==
    [at |-> Later(revokedAt, record.at), expires |-> at + RevocationTtl]

StoredRevocation(record, revokedAt, at) ==
    CASE Store = "memory" -> MemoryRevocation(record, revokedAt, at)
      [] Store = "redis"  -> RedisRevocation(record, revokedAt, at)
      [] OTHER            -> SqlRevocation(record, revokedAt, at)

RecordRevocation(r, at) ==
    LET s == revokes[r].subject IN
    /\ revocations' = [revocations EXCEPT ![s] = StoredRevocation(@, revokes[r].at, at)]
    /\ revokedUpTo' = [revokedUpTo EXCEPT ![s] = Later(revokes[r].at, @)]

(* The record is written; its reply may still be lost on the way back.     *)
Revoked(r) ==
    /\ revokes[r].pc = "record"
    /\ now <= revokes[r].at + Timeout
    /\ \E at \in StoreTimes(revokes[r].at) : RecordRevocation(r, at)
    /\ revokes' = [revokes EXCEPT ![r] = Idle]
    /\ UNCHANGED <<now, tokens, nonces, calls, attempts, accepted>>

(* The caller is told BackendUnavailable, whatever the policy says.        *)
RevokeUnavailable(r) ==
    /\ revokes[r].pc = "record"
    /\ revokes' = [revokes EXCEPT ![r] = Idle]
    /\ UNCHANGED <<now, tokens, nonces, revocations, calls, attempts, accepted, revokedUpTo>>

----------------------------------------------------------------------------
(* The stores drop expired records now and then: the sweep in memory, and  *)
(* in SQL an opportunistic DELETE whose cutoff may be an earlier now.      *)
(* Redis does it by itself, which reads the same as an expired record.     *)
MemorySweep ==
    /\ Store = "memory"
    /\ nonces' = [n \in Nonces |-> IF nonces[n].expires <= now THEN NoUse ELSE nonces[n]]
    /\ revocations' = [s \in Subjects |-> IF revocations[s].expires <= now
                                          THEN NoRevocation ELSE revocations[s]]
    /\ UNCHANGED <<now, tokens, calls, attempts, revokes, accepted, revokedUpTo>>

SqlCleanup(cutoff) ==
    /\ Store = "sql"
    /\ nonces' = [n \in Nonces |-> IF nonces[n].expires < cutoff THEN NoUse ELSE nonces[n]]
    /\ revocations' = [s \in Subjects |-> IF revocations[s].expires < cutoff
                                          THEN NoRevocation ELSE revocations[s]]
    /\ UNCHANGED <<now, tokens, calls, attempts, revokes, accepted, revokedUpTo>>

Tick ==
    /\ now < MaxTime
    /\ now' = now + 1
    /\ UNCHANGED <<tokens, nonces, revocations, calls, attempts, revokes, accepted, revokedUpTo>>

----------------------------------------------------------------------------
Mint ==
    \E n \in Nonces, scopes \in SUBSET Actions :
       \/ \E subject \in Bindings, aud \in Services, ttl \in Ttls, maxUses \in UseLimits :
             Issue(n, scopes, subject, aud, ttl, maxUses)
       \/ \E parent \in Issued, ttl \in Ttls, maxUses \in UseLimits :
             Attenuate(n, parent, scopes, now + ttl, maxUses)

Authorize(p) ==
    \/ \E n \in Nonces, action \in Actions, presented \in Bindings :
          BeginAuthorize(p, n, action, presented)
    \/ ReadRevocation(p)
    \/ RevocationUnavailable(p)
    \/ Spend(p)
    \/ SpendReplyLost(p)
    \/ SpendUnavailable(p)

RevokeSubject(r) ==
    \/ \E s \in Subjects : BeginRevoke(r, s)
    \/ Revoked(r)
    \/ RevokeUnavailable(r)

Next ==
    \/ Mint
    \/ \E p \in Processes : Authorize(p)
    \/ \E r \in Revokers : RevokeSubject(r)
    \/ MemorySweep
    \/ \E cutoff \in 1..now : SqlCleanup(cutoff)
    \/ Tick

Spec == Init /\ [][Next]_vars

----------------------------------------------------------------------------
TypeOK ==
    /\ now \in Times
    /\ tokens \in [Nonces -> Token \cup {NoToken}]
    /\ nonces \in [Nonces -> [uses : Nat, expires : Times]]
    /\ revocations \in [Subjects -> [at : Times, expires : Times]]
    /\ calls \in [Processes -> Call]
    /\ attempts \in [Processes -> Nat]
    /\ revokes \in [Revokers -> Revoke]
    /\ accepted \in [Nonces -> [early : Nat, late : Nat, unmetered : Nat]]
    /\ revokedUpTo \in [Subjects -> Times]

(* However authorize calls interleave, and whichever of their round trips  *)
(* fail, a token is accepted against its use count at most max_uses times  *)
(* for as long as at least one second of its life remains.                 *)
EarlySpendsWithinLimit ==
    \A n \in Issued : accepted[n].early <= tokens[n].maxUses

LetThrough(p) == calls[p].pc = "revocation" /\ calls'[p].pc = "spend"

(* Once a revocation of a subject has been recorded, no authorize whose    *)
(* check reads the store afterwards lets through a token issued at or      *)
(* before that instant, while the token lives (a closed policy: no check   *)
(* is skipped).                                                            *)
RevokedTokensAreRefused ==
    [][\A p \in Processes : ~FailOpen /\ LetThrough(p) =>
          LET token == tokens[calls[p].nonce] IN
          token.issued > revokedUpTo[token.subject] \/ now > token.expires]_vars

(* Whatever chain of delegations a token comes from, what it is accepted   *)
(* for is within the token the chain began with: its scopes, its subject,  *)
(* its service, its life, its number of uses.                              *)
AcceptedWithinRoot ==
    [][\A p \in Processes :
          calls[p].pc = "spend" /\ calls'[p] = Idle /\ accepted' # accepted =>
          LET call  == calls[p]
              token == tokens[call.nonce]
              root  == tokens[token.root] IN
          /\ call.action \in root.scopes
          /\ root.subject # NoSubject => call.presented = root.subject
          /\ AudienceOf[p] # NoAudience => root.aud = AudienceOf[p]
          /\ call.checkedAt <= root.expires
          /\ token.maxUses <= root.maxUses]_vars
=============================================================================
