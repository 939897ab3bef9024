---------------------------- MODULE KeyRotation ----------------------------
(***************************************************************************)
(* Rotation of the signing key: SigningKeyring and the keyring provider of *)
(* ScopeGuard in services/scope_guard.py.                                  *)
(*                                                                         *)
(* The operator writes a keyring to the secret manager; each guard asks    *)
(* its provider for it lazily, when it next needs a key and its reload     *)
(* interval has elapsed, and keeps the last good one when the provider     *)
(* raises.  Nothing here awaits: reading the keyring, and what it is read  *)
(* for, is one step.  When the operator moves on is not in the code but in *)
(* docs/identity-and-tokens.md, and a parameter here.                      *)
(***************************************************************************)
EXTENDS Integers, FiniteSets

CONSTANTS
    Kids,        \* key ids; a key stands for its id
    FirstKid,    \* the key of SigningKeyring.single
    Guards,      \* one ScopeGuard per process
    TokenTtls,   \* the ttl_seconds tokens are issued with
    MaxTtl,      \* the longest of them
    Interval,    \* reload_interval_seconds
    MayFail,     \* the provider may raise
    Procedure,   \* when the operator takes the next step, see Accepted
    Horizon      \* bound: horizon of the clock

ASSUME RotationAssumption ==
    /\ FirstKid \in Kids
    /\ TokenTtls \subseteq Nat \ {0} /\ MaxTtl \in Nat /\ \A ttl \in TokenTtls : ttl <= MaxTtl
    /\ Interval \in Nat \ {0}
    /\ MayFail \in BOOLEAN
    /\ Procedure \in {"confirmed", "timed"}
    /\ Horizon \in Nat

VARIABLES
    clock,         \* time.time() and time.monotonic(), from 1
    provided,      \* the keyring in the secret manager
    guards,        \* the keyring of each guard and when it last asked for one
    signedTokens,  \* tokens issued: the key that signed, and their expiry
    steppedAt,     \* operator: when the provided keyring was last written
    adoptedAt,     \* operator: when every guard was seen to sign with it
    refused,       \* history: live tokens refused for their key
    told           \* history: guards told to reload since the last write

rotationVars == <<clock, provided, guards, signedTokens, steppedAt, adoptedAt, refused, told>>

Single == [keys |-> {FirstKid}, active |-> FirstKid]

RotationInit ==
    /\ clock = 1
    /\ provided = Single
    /\ guards = [g \in Guards |-> [ring |-> Single, lastReload |-> 1]]
    /\ signedTokens = {}
    /\ steppedAt = 0 /\ adoptedAt = 0
    /\ refused = {}
    /\ told = {}

----------------------------------------------------------------------------
(* Mutant: a provider that fails leaves the guard with the keys it signs   *)
(* with, and no other.                                                     *)
MaybeReload_ActiveOnly(guard) ==
    IF clock - guard.lastReload < Interval THEN {guard}
    ELSE {[ring |-> provided, lastReload |-> clock]} \cup
         (IF MayFail THEN {[ring |-> [guard.ring EXCEPT !.keys = {guard.ring.active}],
                            lastReload |-> clock]} ELSE {})

(* _maybe_reload: what the guard may be once it has read its keyring.      *)
MaybeReload(guard) ==
    IF clock - guard.lastReload < Interval THEN {guard}
    ELSE {[ring |-> provided, lastReload |-> clock]} \cup
         (IF MayFail THEN {[guard EXCEPT !.lastReload = clock]} ELSE {})

Signed(guard, ttl) == [kid |-> guard.ring.active, expires |-> clock + ttl]

Live(token) == clock <= token.expires

(* issue_token signs with the active key.                                  *)
IssueToken(g, ttl) ==
    \E guard \in MaybeReload(guards[g]) :
        /\ guards' = [guards EXCEPT ![g] = guard]
        /\ signedTokens' = signedTokens \cup {Signed(guard, ttl)}
        /\ UNCHANGED <<clock, provided, steppedAt, adoptedAt, refused, told>>

(* authorize looks the key up by the id the token names.                   *)
VerificationKey(g, token) ==
    /\ Live(token)
    /\ \E guard \in MaybeReload(guards[g]) :
        /\ guards' = [guards EXCEPT ![g] = guard]
        /\ \/ token.kid \in guard.ring.keys /\ UNCHANGED refused
           \/ /\ token.kid \notin guard.ring.keys   \* UnknownKeyId
              /\ refused' = refused \cup {token}
    /\ UNCHANGED <<clock, provided, signedTokens, steppedAt, adoptedAt, told>>

(* attenuate verifies the parent and signs the child, which expires no     *)
(* later: the child may name a newer key than its parent.                  *)
AttenuateToken(g, token) ==
    /\ Live(token)
    /\ \E guard \in MaybeReload(guards[g]) :
        /\ guards' = [guards EXCEPT ![g] = guard]
        /\ \/ /\ token.kid \in guard.ring.keys
              /\ signedTokens' = signedTokens \cup {[token EXCEPT !.kid = guard.ring.active]}
              /\ UNCHANGED refused
           \/ /\ token.kid \notin guard.ring.keys
              /\ refused' = refused \cup {token}
              /\ UNCHANGED signedTokens
    /\ UNCHANGED <<clock, provided, steppedAt, adoptedAt, told>>

(* active_key_id reads the keyring, as a monitor does.                     *)
ActiveKeyId(g) ==
    \E guard \in MaybeReload(guards[g]) :
        /\ guards' = [guards EXCEPT ![g] = guard]
        /\ UNCHANGED <<clock, provided, signedTokens, steppedAt, adoptedAt, refused, told>>

(* History: whom reload_keys has to reach.  Not before the host has been   *)
(* up for an interval, and nobody for certain if providers may fail.       *)
Reached(g) == IF clock >= Interval /\ ~MayFail THEN {g} ELSE {}

(* Mutant: the interval is waited out here too.                            *)
ReloadKeys_Lazy(g) ==
    \E guard \in MaybeReload(guards[g]) :
        /\ guards' = [guards EXCEPT ![g] = guard]
        /\ told' = told \cup Reached(g)
        /\ UNCHANGED <<clock, provided, signedTokens, steppedAt, adoptedAt, refused>>

(* reload_keys writes the origin of the clock for the last reload: until   *)
(* the host has been up for an interval, that is too recent to reload.     *)
ReloadKeys(g) ==
    \E guard \in MaybeReload([guards[g] EXCEPT !.lastReload = 0]) :
        /\ guards' = [guards EXCEPT ![g] = guard]
        /\ told' = told \cup Reached(g)
        /\ UNCHANGED <<clock, provided, signedTokens, steppedAt, adoptedAt, refused>>

----------------------------------------------------------------------------
(* The operator.  with_active and without_key refuse what is wrong in the  *)
(* keyring itself; that the step before has reached every guard is theirs  *)
(* to see to:                                                              *)
(*   "confirmed"  they look at the keyring of every guard                  *)
(*   "timed"      they wait out the interval, and the longest TTL          *)
Accepted(k) ==
    CASE Procedure = "confirmed" -> \A g \in Guards : k \in guards[g].ring.keys
      [] OTHER                   -> clock >= steppedAt + Interval

Unused(k) ==
    CASE Procedure = "confirmed" -> adoptedAt > 0 /\ clock > adoptedAt + MaxTtl
      [] OTHER                   -> clock >= steppedAt + Interval + MaxTtl

Provide(ring) ==
    /\ provided' = ring
    /\ steppedAt' = clock
    /\ adoptedAt' = 0
    /\ told' = {}
    /\ UNCHANGED <<clock, guards, signedTokens, refused>>

WithKey(k) ==
    /\ k \notin provided.keys
    /\ adoptedAt = 0 \/ Procedure # "confirmed"
    /\ Provide([provided EXCEPT !.keys = @ \cup {k}])

WithActive(k) ==
    /\ k \in provided.keys /\ k # provided.active
    /\ Accepted(k)
    /\ Provide([provided EXCEPT !.active = k])

WithoutKey(k) ==
    /\ k \in provided.keys /\ k # provided.active
    /\ Unused(k)
    /\ Provide([provided EXCEPT !.keys = @ \ {k}])

(* Every guard is seen to sign with the active key.                        *)
Adopt ==
    /\ Procedure = "confirmed" /\ adoptedAt = 0
    /\ \A g \in Guards : guards[g].ring.active = provided.active
    /\ adoptedAt' = clock
    /\ UNCHANGED <<clock, provided, guards, signedTokens, steppedAt, refused, told>>

RotationTick ==
    /\ clock < Horizon
    /\ clock' = clock + 1
    /\ signedTokens' = {token \in signedTokens : clock + 1 <= token.expires}
    /\ UNCHANGED <<provided, guards, steppedAt, adoptedAt, refused, told>>

RotationNext ==
    \/ \E g \in Guards : \/ \E ttl \in TokenTtls : IssueToken(g, ttl)
                         \/ \E token \in signedTokens : VerificationKey(g, token) \/ AttenuateToken(g, token)
                         \/ ActiveKeyId(g)
                         \/ ReloadKeys(g)
    \/ \E k \in Kids : WithKey(k) \/ WithActive(k) \/ WithoutKey(k)
    \/ Adopt
    \/ RotationTick

RotationSpec == RotationInit /\ [][RotationNext]_rotationVars

----------------------------------------------------------------------------
(* A rotation has no window: however guards reload, and whichever of their *)
(* providers fail, a token that has not expired verifies at every guard.   *)
LiveTokensVerify == refused = {}

(* reload_keys reaches the secret manager at once, whatever the guard read *)
(* before it and when: a guard that was told to reload since the operator  *)
(* last wrote has that keyring, and keeps it through its lazy reloads, if  *)
(* its provider answers.  This much only from an interval after boot on.   *)
ReloadIsPrompt ==
    \A g \in told : guards[g].ring = provided
=============================================================================
