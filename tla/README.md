# TLA+ models of llm-security-pipeline

Specifications of the stateful part of the library under `src/llm_security_pipeline/`: TLA+ modules for its
components, TLC configurations that check them on small instances, and TLAPS proofs that hold for every value
of their constants. `PROJECT.json` says, definition by definition, which lines of the source
each one stands for; this file says what the models are, why their bounds and fairness are what they are, and
what has been found to hold and not to hold.

File names below are relative to `src/llm_security_pipeline/` of the repository unless they say otherwise.

1. [The system](#1-the-system): components, state, operations, interactions, what is hard
2. [Modules](#2-modules): which models what, and how
3. [Runs](#3-runs): what TLC checks, on which instances, and why those are enough
4. [Fairness and liveness](#4-fairness-and-liveness)
5. [Proofs](#5-proofs)
6. [Where code and text disagree](#6-where-code-and-text-disagree)
7. [What is abstracted, and what is not modelled](#7-what-is-abstracted-and-what-is-not-modelled)
8. [Plan](#8-plan): order of work, done and left
9. [Running it](#9-running-it)

## 1. The system

A web application puts a `SecurityPipeline` (`pipeline.py`) between its users and a language model. The
pipeline scans what goes in (a user's turn, retrieved content, media), what comes out (buffered or streamed),
and what the model wants done (tool calls, authorized by capability tokens). It is asyncio code: within a
process nothing interleaves except where the code awaits, and several processes share their state through
Redis, PostgreSQL or MySQL. So the hard part is what lies between two awaits of one caller while others run,
and what a store holds after calls that were late, lost, cut off or carried an old clock.

### Components

| Component | State it keeps | Operations | What makes it correct |
|---|---|---|---|
| **Scope guard**, `services/scope_guard.py` | signed tokens (held by callers); in the nonce store: uses of each nonce, revocation instant of each subject | `issue_token`, `attenuate`, `authorize`, `revoke_subject` | a token is accepted at most `max_uses` times; a revoked one not at all; a delegated one never beyond the token it came from |
| **Keyring**, `services/scope_guard.py` | the keys of each process and when it last asked its provider | sign, verify, lazy reload, `with_key`, `with_active`, `without_key` | no token is refused for its key during a rotation |
| **Resilient backend**, `resilience.py` | a circuit breaker per operation and instance; the degradations of each request | `run`, `breaker_states` | every call returns; the policy decides what an outage means; nothing degrades in silence; a breaker closes again |
| **Session store, risk**, `sessions/*`, `services/rate_limiter.py` | cumulative, decaying risk and a sticky flag per session and per actor | `add_risk`, `is_flagged`, `reset_session`, sweep; `record_turn_risk_and_check` | one contract on four backends: a flag stays until a reset or the end, an ended session leaves nothing |
| **Session store, windows**, same files | event times per session and kind | `increment_requests`, `increment_tool_calls`, eviction | "N per W" over every interval of length W |
| **Ingest guard and provenance**, `services/ingest_guard.py`, `sessions/*` | a record per document; on Redis an index per decision | `ingest`, `ingest_batch`, `verify_retrieved`, review queue, `approve`, `reject`, delete | only what was accepted is verified; the review queue misses nothing |
| **Output and exfiltration guards**, `services/output_guard.py`, `services/exfil_guard.py` | none | redaction by spans | all of a finding goes, and nothing else |
| **Streaming guard**, `services/streaming_guard.py` | hold-back buffer, tail of what was emitted, words seen | `feed`, `finish` | the same verdict and text as scanning the whole, without showing what should be held |
| **GuardedStream**, `pipeline.py` | pending chunk, phase, one audit record | `__anext__` | nothing lost or doubled between a stream's chunks; recorded once |
| **Request pipeline**, `pipeline.py`, `services/rate_limiter.py` | what the stores keep; per call, what it has been told | `pre_process`, `post_process`, `pre_process_external`, `.._batch`, `.._media`, `authorized_tool_call` | order of budget, scan, charge, record and verdict; build-up over turns is blocked; shadow mode predicts |
| **Detector ensemble**, `services/detectors.py` | LRU cache with a time to live; registrations | `score` | answers are fresh, never remembered failures, and of the mode that was asked |
| **Media scanner**, `services/media_guard.py` | jobs in a thread pool | `scan` | a scan returns whatever its extractors do, and counts those that answered |
| **File audit logger**, `audit_sinks.py` | a file and numbered backups | `log`, rotation, `aclose` | an ordered, gapless end of what was logged, after any crash |
| **LangChain integration**, `contrib/langchain.py` | none | `GuardedChatModel`, `guard_retriever`, `guard_tool` | a blocked turn does not reach the model; both ways of a chat are on record; a document that is refused is not handed on |
| **Sanitizer**, `services/sanitizer.py` | none | `scan_text` | what is hidden or encoded is scored like what can be read |
| **Redis keys**, `sessions/redis_keys.py` | per process, whether keys carry hash tags | `HashTagPolicy.enabled` | processes agree where a session is kept |
| Metrics, tracing, configuration, evaluation | see section 7 | | |

### How they interact

- *Calls.* `pre_process` gathers the sanitizer's scan and the budget check, asks the detectors, charges the
  risk to the session and then the actor (two round trips), writes the audit record and only then gives its
  verdict. `authorized_tool_call` checks its budget, scans the arguments, authorizes the token (revocation
  check, then replay check), runs the tool, records, and scans the result as external content.
- *One path to the outside.* Nearly every call of a store, a detector or the audit log goes through
  `ResilientBackend.run`: a timeout, a circuit breaker, and a failure policy (open: go on without; closed:
  raise). A degraded decision is reported by writing an audit event *through the same `run`*.
- *Shared state.* Stores are shared by processes; the detector cache, the thread pool and the breakers by the
  requests of one process; the keyring by nobody, which is why its rotation takes four steps.
- *Callbacks.* The keyring provider is asked lazily; `on_degraded` is awaited in the middle of `run`; the
  resolver of another tenant's identifiers in the middle of a reply; the caller drives a guarded stream and
  may stop doing so.
- *Chains.* Through LangChain a chat is `pre_process`, the model, `post_process`; a retrieval is a batch
  scan, then `verify_retrieved` of each document that has an id.

### What is hard

Clock reads taken before a round trip and used after it. Round trips that take effect and lose their answer. Two
writes of one operation with another caller's between (Redis). Records that expire while somebody relies on them.
Callers that a breaker lets through together. Processes that each find out for themselves where a session is kept.
One of several concurrent writes that fails while the others go on. A finding cut by chunks anywhere. A crash
between two renames. An extractor that returns after it was given up. `PROJECT.json` lists each of these at the
line where it bites, with the properties that would catch it going wrong, or the reason why none can.

## 2. Modules

Every module is parameterised by CONSTANTS with a named assumption, has one action per handler or per stretch
of it between two awaits, and states its properties at its end, each with the behaviour it is about. Names
are those of the source: `check_and_increment` is `CheckAndIncrement`, `_degrade` is `Degrade`. A definition
called `X_Y` (`Charge_LastAnswer`) is a plausible bug in `X`, used to see that a property fails when the code
is wrong; no specification uses one. `MC*` modules hold what TLC needs and no model does.

| Module | State | Actions and the code they stand for |
|---|---|---|
| `CapabilityTokens` | clock; the payload of each nonce; nonce store; each `authorize` and `revoke_subject` under way | `Issue`, `Attenuate` (no await: one step). `BeginAuthorize` is `authorize` up to its first await; `ReadRevocation`, `Spend` its two round trips, each of which may take effect late, fail (`..Unavailable`) or lose its answer (`SpendReplyLost`). `MemoryIncremented`, `RedisIncremented`, `SqlIncremented` are the four backends' counters, with the sweeps |
| `KeyRotation` | the provided keyring, the keyring of each process, live tokens | `IssueToken`, `VerificationKey`, `AttenuateToken`, `ActiveKeyId`, `ReloadKeys`, each with `_maybe_reload`; `told` remembers whom `reload_keys` must have reached; the operator's `WithKey`, `WithActive`, `WithoutKey` |
| `ResilientBackend` | breakers, calls of `run`, answers | `Begin`, `Refuse`, `Return`, `Fail`, `Cancel`; `Degrade` includes the nested audit write, which is awaited and may itself degrade |
| `SessionContract` | status, risk and flag of a key | the abstract store of `SessionStore`'s docstring: `Update`, `Reset`, `Lapse` |
| `SessionRisk` | rows of one of four backends; turns and resets under way | `BeginTurn`, `Charge`, `Unavailable` are `record_turn_risk_and_check`; `MemoryAddRisk` .. `MySqlAddRisk` the four `add_risk`; `ResetStep` one command of a reset; `Cleanup` the sweeps |
| `SlidingWindow` | event times, SQL anchors, checks under way, the key layout of each process | `Begin`, `Count`, `Unavailable`, `Reset`, `Cleanup`, `Evict`; on Redis `Detect` is the INFO of `HashTagPolicy`, `Restart` a new process that asks again |
| `ContentScan` | none | `Risk` is the score of `scan_text`, `Severity` that of a URL (`_classify`), `Evaluate` the decision of `IngestGuard.evaluate` by trust tier. Instantiated by `MCGuardedStream` for the kinds of its findings |
| `Provenance` | hashes, indexes, operations under way | one action per Redis command (`ReadOld`, `SetHash`, `RemoveFromIndex`, `AddToIndex`, ..), `AtomicStep` for the other stores, `VerifyRetrieved`, and `Cut`, a timeout or a stopped process between any two commands; `BeginBatch` starts the concurrent records of `ingest_batch`, whose caller is told (`told`) what all of them, or the first failure, came to. EXTENDS `ContentScan`, which decides each verdict |
| `Redaction` | none | `ResolveOverlaps`, `ApplySpans`, `DropNested`, `Neutralize`, whose loops over spans are recursive functions, Python's negative offsets included |
| `StreamingGuard` | produced, emitted, words, text handed out | `Feed`, `Finish`; `Evaluate` is the order of checks, `Cut` the emission boundary, `Moved` out of each finding in turn, `Buffered` the scan of the whole text it is compared with. EXTENDS `Redaction` |
| `GuardedStream` | pending characters, what the caller has, phase | one step per pull: `Coalesce`, `PullChunk`, `PullObserved` (shadow), `FeedRest`, `FinishStream`, `SourceFails`, `ResolveFails`, `Abandon`; `Close` is `_audit_once`, which may raise. EXTENDS `StreamingGuard` |
| `RequestPipeline` | counters, risk and flags per deployment; each call's next round trip and what it was told; the audit log | `Steps` lists the round trips of each kind of call in the order they are awaited, those of the LangChain wrappers included (`chat`, `followup`, `retrieve`); one action per round trip. Two deployments, enforcing and shadow, may be given the same traffic |
| `DetectorEnsemble` | cache, registrations, calls of `score` | `Hit`, `Miss`, `Answer`, `Finish`, `Register` |
| `MediaScanner` | scans, queue and workers of the pool | `Start`, `Take` (a worker's), `Return` and `Extracted` (an extractor ends, in a thread or as a coroutine), `TimeOut`, `Gather`, `Refuse` |
| `FileAuditLogger` | lines and size of each file, where a rotation is | `Write`, `StartRotation`, `Rename` (one each), `FinishRotation`, `WriteAfterRotation`, `Close`, `Crash` |

Composition: `GuardedStream` is built on `StreamingGuard`, that on `Redaction`; `Provenance` on `ContentScan`;
`SessionRisk` implements `SessionContract` (`INSTANCE .. WITH` a refinement mapping, the contract's `Spec` as a
PROPERTY). Where components meet through a store, `RequestPipeline` takes what the store's own module establishes:
a counter, a cumulative risk with a flag, a token that authorizes or does not, a backend that answers or does not.

## 3. Runs

Deadlock is not checked in any run: each model has a horizon (a clock, a number of calls) at which it stops,
and in the code a process with nothing to do waits for its next request. For the same reason every action
property and invariant is about what happened, never about the horizon.

| Run | Configuration | Distinct states | What it shows |
|---|---|---|---|
| `Tokens` | `MCCapabilityTokens` | about 1.7 million | Over each of three kinds of nonce store: at most `max_uses` acceptances while a second of a token's life remains, whatever is lost; a revocation once recorded is seen by every later check, although two revocations race; chains of delegation stay within their root |
| `Rotation` | `MCKeyRotation` | about 61 000 | With either procedure of the operator, no live token is refused for its key; a guard told to reload has the keyring of the secret manager |
| `Backend` | `MCResilientBackend` | about 970 000 | A breaker is open for less than recovery and a timeout; every degradation is reported; the policy of each category decides; a call ends within two timeouts |
| `BackendConsecutive` | `MCResilientBackend` | (a violation) | A breaker does *not* need consecutive failures: `record_success` has no caller. See section 6 |
| `Session` | `MCSessionRisk` | about 178 000 | Each backend implements `SessionContract`; a session over its threshold is flagged; a flag that stood when a turn began is in its answer |
| `Window` | `MCSlidingWindow` | about 2.8 million | No interval of the window's length, less what late clocks take, has more admitted checks than the budget, under each key layout; and nothing admitted is forgotten while it counts |
| `Provenance` | `MCProvenance` | about 677 000 | Verified content was accepted, by the thresholds or by a reviewer, whatever meets or is cut; racing ingests and batches leave the review queue complete; what a caller was told is recorded; records are whole |
| `Stream` | `MCGuardedStream` | about 61 000 | Every chunking of every small response: held back until seen; long secrets reported; PII never shown; the text and the verdict are those of the buffered scan; the last piece goes out only on record; shadow mode forwards all |
| `Pipeline` | `MCRequestPipeline` | about 697 000 | Build-up over turns, media and sessions is blocked before the model is called, and nothing is blocked without cause; tool calls stay in budget; poisoned results and documents are withheld; what is returned is on record, both ways of a chat; shadow mode predicts enforcement |
| `Detectors` | `MCDetectorEnsemble` | about 2.5 million | Cache bounded, without failures, one entry per key; no answer older than the time to live and one scoring; each answer enforces what was enforcing |
| `Media` | `MCMediaScanner` | about 87 000 | Every scan that began returns; its verdict counts exactly what was recovered in time |
| `FileAudit` | `MCFileAuditLogger` | about 15 000 | After any two crashes the files hold the last lines logged, in order, without a gap; no file exceeds its size |

### Bounds, and why they are enough

- **Actors.** Two of each kind that race (callers of one token, revocations, turns, checks, ingests, scans).
  The properties relate two calls at a time, or one call and the history of all; a third concurrent caller
  would repeat what one of the two has done. `Pipeline` has three calls where risk builds up, because the
  flag has to be set by one call, or two together, and met by another. `Tokens` counts up to four
  authorizations of a token that may be used twice, by two callers, so that its limit can be exceeded.
- **Time** is in ticks. The horizon is in every run long enough for a record to expire and be used again: a
  token of two seconds and two ticks a second (so that a second is not a tick, and cutting to seconds loses
  something), a window of three ticks in a horizon of seven, a breaker that opens, closes and opens, a MySQL
  row that dies, outlives the timeout and is written again (horizon 5, life 2, timeout 1). Processes that
  detect the layout of keys have a horizon of four, enough for a window to slide once over three checks each.
- **Data.** Scores 0 to 2 around a threshold of 2 and cumulative limits of 2 to 4, so that one call, two together,
  or a scan and a detector reach it, and so that the plan's limits and the defaults differ, one below and one
  above. Two contents and two trust tiers, so that each verdict of the ingest guard is some document's. Responses
  of up to six characters with findings of one and three, a hold-back of three, chunks of 1, 2 and 4: a finding
  can lie before, across and behind every seam, and be longer than the hold-back in the configuration that has a
  hold-back of one.
- **Capacity.** A cache of two entries for four keys; one worker for two synchronous extractors; a rotation
  of two backups and nine lines, so that the oldest is discarded more than once; tool budget one, request
  budget two or three.

Symmetry is used for model values that nothing tells apart (callers, guards, keys of equal standing, texts),
and not at all where liveness is checked. The `MC` modules reduce further, always by fixing an order nothing
observes:

- `MCCapabilityTokens`, `MCRequestPipeline`, `MCKeyRotation`, `MCSessionRisk`, `MCSlidingWindow` run several small
  worlds ("scenarios") in one: a scenario fixes the store, the policies, who acts and how much, and never changes.
  Where a scenario fixes constants the specification is instantiated with them (`Under(sc)`, `Within(sc)`).
- In `MCCapabilityTokens` nonces are drawn in one order: they are random, and no run can tell them apart.
- In `MCRequestPipeline` concurrent calls all arrive before one of them advances (an arrival changes nothing
  another call reads, and a call may rest as long as it likes after it); of the two deployments, which share
  nothing, one finishes its round trips before the other; the first call names session `s1`.
- In `MCProvenance` over Redis every operation is on one document (commands on different hashes commute; the
  index entry of one document does not depend on another's).
- In `MCGuardedStream` responses with two findings are fed under one configuration, responses with one
  finding or with words of the system prompt under all four.

### What each property says

*Tokens.* `EarlySpendsWithinLimit` counts acceptances made against the use count while at least a second of
the token's life is left. The qualification is what the code provides: the life of a nonce's record is cut
to whole seconds. Acceptances an open policy makes without a count are kept apart. `RevokedTokensAreRefused`
is about every check that reads the store after a revocation was recorded, under a closed policy.
`AcceptedWithinRoot` relates an acceptance to the *first* token of its chain.

*Backend.* `OpenPeriodIsBounded`: calls in flight when a breaker trips push its instant on, refusals do not.
`DegradedIsReported` relates what the caller was told, its bucket and the audit log. `PolicyDecides` says
whose policy an error is, when the report of one degradation meets another. `RunReturnsInTime` bounds a call
by its own timeout and that of the audit write.

*Session.* `KeepsContract` is refinement. On Redis the contract is held without the stickiness of the flag
over time (`sticky`), which Redis does not provide; a row of PostgreSQL or MySQL that has just expired, or that no
cleanup has removed, is "lapsed", when an update may take it for live or gone. `OverThresholdIsFlagged` holds
where a reset takes a session whole. `KnownFlagIsAnswered` covers both round trips of a turn.

*Window.* `BudgetOverEveryInterval` is "N per W" wherever the interval starts. A shared store is given the
slack of one timeout, because its callers read their clocks before the round trip; over SQL, where a late call
also writes an older expiry over that of the anchor, the timeout less one tick more. `AdmittedAreRemembered`
is why it holds: no trimming, expiry or cleanup takes an admitted event before its window is over, less what
an anchor can be set back by. On Redis both are stated for each key layout: processes that detected different
ones have a budget each (section 6).

*Rotation.* `LiveTokensVerify` is what a rotation must not break. `ReloadIsPrompt` relates three times: when
the operator wrote, when a guard was told to reload, and when it last read; it is stated from one interval
after boot on, and where providers answer.

*Provenance.* `QueueIsComplete` and `RecordsAreWhole` except documents on which an operation other than an
ingest met another, or one was cut (`disturbed`): there they do not hold, see section 6. `ToldIsRecorded`: a
caller of `ingest` or `ingest_batch` that was told it is done finds each of its documents recorded, by itself
or by a later one, however many were recorded at once and whichever of them failed.

*Stream.* `HeldBackUntilSeen` holds at every moment of the stream for findings that fit the hold-back,
`LongSecretsAreReported` for those that fit hold-back and tail. `PiiIsRedacted` holds at every moment too, where
redaction is on, all PII fits the hold-back, and what is rewritten is apart or one inside the other: that one is
inside a *longer one than the hold-back* is disagreement 20. `VerdictIsBuffered` and `EndedIsWhole` compare the
end with the buffered scan, for what the hold-back was made for (`Fits`: no finding or word is longer, nor a word
longer than what is tokenized again); that what blocks a stream blocks the whole needs no such premise.
`RedactedExactly` says of the end, independently of the code's algorithm, that the characters left are those
outside the findings, once and in order. `LastPieceIsOnRecord`: under a closed audit policy the part the hold-back
kept is shown only after the record is written, and there is one record.

*Pipeline.* `BuildUpIsBlocked` is about each charge in the history, entered with what had then been charged to its
key: a turn whose charge finds the threshold reached is not let through, nor the model called for it.
`BlockedForCause` is its converse, with the limit each call was charged under: a flag can come from a limit that
is not the plan's. `PoisonedResultIsWithheld` has two kinds of content that reaches the model from elsewhere, a
tool's result and a retrieved document. `ShadowPredicts` compares two deployments given the same traffic, for
traffic within budget, without tool calls, while every store answers; outside of that shadow and enforcement
differ (section 6).

*Detectors, media, audit.* `AnswersAreFresh` bounds the age of what a detector said, by one scoring, or through
any number of hits by that and the time to live. `AnswersFollowTheMode` says each answer enforces what was
enforcing when it was asked for, if registrations change between calls and not during one. `TheOthersCount` says
that a scan blocks exactly if an extractor recovered hostile text while it was waited for. `KeptIsTheTail` is
order and completeness at once, of the lines in a file and from each file to the next newer one there is.

Each property has at least one deliberate bug in a mapped definition under which it fails.

## 4. Fairness and liveness

Only `Media` checks liveness (`ScansReturn`), under `FairMediaSpec`: weak fairness of `Take` (an idle worker of a
`ThreadPoolExecutor` takes a queued job), of `TimeOut` and `Gather` (the event loop runs a callback that is
due and a task that is ready) and of `MediaTick` (time passes). Extractors are *not* fair: one may hang for good,
which is the point. `MediaTick` waits for what is due, that is, the event loop keeps up with its timers; without
that a deadline would mean nothing.

"Returns in time" is elsewhere a safety property over a clock (`RunReturnsInTime`), which needs the same
assumption and no fairness. Nothing retries by itself in this code, and no component waits for another to
make progress, so that there is little else that must eventually happen: a client that stops iterating a
guarded stream leaves it unrecorded, a rotation nobody finishes stays unfinished.

## 5. Proofs

TLAPS checks the theorems below for every value of the constants that the named assumption of the module
admits: any number of callers, processes, keys, sessions and documents, every store and policy, and every
horizon, so that the bounds of section 3 play no part in them. Proofs are in a module named after the component,
or after one of its part of the system: `ScopeGuard_proofs` is about `CapabilityTokens` and `KeyRotation`,
`GuardedStream_proofs` about `Redaction` and `StreamingGuard` too, `ResilientBackend_proofs` also about
`FileAuditLogger`, `DetectorEnsemble_proofs` also about `MediaScanner`.

| Module | Theorem | States | Assumes besides |
|---|---|---|---|
| `ScopeGuard_proofs` | `TypeCorrect` | `[]TypeOK` | |
| | `UsesBounded` | `[]EarlySpendsWithinLimit` | |
| | `RevocationRefuses` | `RevokedTokensAreRefused` | `RevocationOutlives` |
| | `DelegationNarrows` | `AcceptedWithinRoot` | |
| | `RotationHasNoWindow` | `[]LiveTokensVerify` | `ProviderAnswers` |
| | `ToldGuardsAreCurrent` | `[]ReloadIsPrompt` | |
| `ResilientBackend_proofs` | `TypeCorrect` | `[]TypeOK` | |
| | `OpenPeriodEnds` | `[]OpenPeriodIsBounded` | |
| | `CallsReturn` | `[]RunReturnsInTime` | |
| | `NoSilentDegradation` | `[]DegradedIsReported` | |
| | `PolicyIsApplied` | `[]PolicyDecides` | |
| | `FilesStayBounded` | `[]FilesAreBounded` | |
| | `TheTailIsKept` | `[]KeptIsTheTail` | |
| `SlidingWindow_proofs` | `NothingRecentIsForgotten` | `[]AdmittedAreRemembered` | |
| | `BudgetHolds` | `[]BudgetOverEveryInterval` | |
| `SessionRisk_proofs` | `RiskyIsFlagged` | `[]OverThresholdIsFlagged` | |
| | `FlagsAreAnswered` | `[]KnownFlagIsAnswered` | `SessionsOutliveCalls` |
| | `StoresKeepTheContract` | `KeepsContract`, the refinement of `SessionContract` | `SessionsOutliveCalls` |
| `Provenance_proofs` | `VerifiedWasAccepted` | `[]VerifiedWasAllowed` | |
| | `NoHalfRecords` | `[]RecordsAreWhole` | |
| | `QueueMatchesRecords` | `[]QueueIsComplete` | |
| | `ToldVerdictsStand` | `[]ToldIsRecorded` | |
| `RequestPipeline_proofs` | `ToolsWithinBudget` | `[]ToolsStayInBudget` | |
| | `PoisonIsWithheld` | `[]PoisonedResultIsWithheld` | |
| | `VerdictsAreOnRecord` | `[]ReturnedIsOnRecord` | |
| | `BuildUpBlocked` | `[]BuildUpIsBlocked` | |
| | `BlocksHaveACause` | `[]BlockedForCause` | |
| | `ShadowIsPrediction` | `[]ShadowPredicts` | `OneAtATime` |
| `DetectorEnsemble_proofs` | `CacheIsSound` | `[]CacheHoldsAnswers` | |
| | `NothingStaleIsTold` | `[]AnswersAreFresh` | |
| | `ModesAreFollowed` | `[]AnswersFollowTheMode` | `QuietChanges` |
| | `OthersAreCounted` | `TheOthersCount`, an action property | |
| `GuardedStream_proofs` | `NothingLeavesUnseen` | `[]HeldBackUntilSeen` | |
| | `LongSecretsReported` | `[]LongSecretsAreReported` | |
| | `VerdictMatchesBuffered` | `[]VerdictIsBuffered` | |
| | `PiiNeverLeaves` | `[]PiiIsRedacted` | |
| | `LastPieceRecorded` | `[]LastPieceIsOnRecord` | |

The hypotheses are about a deployment. Each is there because of an execution that breaks the property, or the
invariant it rests on, without it:

- `RevocationOutlives`: the revocation TTL exceeds the life of every token, over SQL by more than the timeout.
  The first half is what `services/scope_guard.py:612` demands; the second is disagreement 6 of section 6.
- `ProviderAnswers`: under the timed procedure of `docs/identity-and-tokens.md` (publish, wait an interval,
  sign) the secret manager answers each process in time. Nothing in a process tells the operator that it kept
  an old keyring, so that waiting is no evidence. The procedure that asks every process needs no hypothesis.
- `SessionsOutliveCalls`: over PostgreSQL and MySQL a session lasts at least as long as a call may take (by
  default an hour, and two seconds). An update that arrives later than that writes a session that has ended
  already: its expiry comes from the clock it was sent with.
- `OneAtATime`: a call is over in both deployments before the next arrives. Where calls overlap, each deployment
  may charge them in an order of its own, and of two turns that reach the threshold together one deployment
  blocks the one and the other the other; TLC has such an execution with two turns. It is a constant of the
  model, which the scenarios of `Pipeline` with two deployments set.
- `QuietChanges`: registrations are replaced only while nothing is scored; otherwise disagreement 37.

Each proof has one shape: an inductive invariant that is a conjunction of named parts; for each action, and
under it for each part it can disturb, that the step keeps it; the property from the invariant; and PTL. What
each invariant adds to the property, and why:

- *Tokens.* `CallsInv`: a call that waits was checked (`Checked`) against an issued token before that expired,
  which types the TTL of its nonce. `UsesInv` (`Counted`): the record of a nonce that was used lives until less
  than a second before the token's end, and while the token is early has counted at least as many uses as were
  accepted; this rests on `RemainingTtlBounds` (cutting to seconds loses less than one) and `StoreTimesBounds`
  (a statement carries an instant between its call and its effect). `RevocationInv`: as long as a token issued
  up to the latest recorded revocation of its subject may live, the store has that instant (`Recorded`), through
  the race of two revocations (`RecordRevocationEffect`). `RootInv`: every token is within the root of its chain
  (`Within`), and a call under way presents what its token asked (`Presented`).
- *Backend.* `BreakersInv`: while a breaker is open, every call that still waits for its backend was waiting
  when the breaker tripped. So none is left a timeout later, and nothing can push its instant on after that.
  `CallsInv` bounds each of the two awaits (`InTime`) and says what a caller that reports a degradation was told
  (`Told`); `AnswersInv` (`Sound`) says of each answer whose policy it is, which carries `PolicyDecides` through
  the nested audit write.
- *Rotation.* `LiveTokensVerify` is not inductive. `RingsInv`: *any two* keyrings in use, the provided one
  included, verify what either signs. This is what publishing before signing, and retiring last, is for, and each
  of the operator's steps keeps it because of what earlier steps and reloads have established (`ReloadsInv`).
  `TokensInv` says the same of the keys of live tokens, and `ExpiryInv` that no token outlives the wait before
  its key is retired. `ToldInv` is for the prompt reload: a guard that was told holds the provided keyring.
- *Window.* `RememberedInv`: an event that may have to be counted is in the table, and over SQL the anchor it
  hangs on expires no earlier than a window after the event, less the set-back of a late call. `BudgetHolds`
  is inductive with it, by a count over sets: a check that is admitted into an interval has found in the table
  everything admitted into it before, and its own event.
- *Session.* `RowsInv` (`RowOK`) relates a row to its flag, store by store: no flag outlives its row, in SQL it
  lasts as long, and where resets are whole a row over the threshold has one that lasts. `OwedInv` follows a turn
  through its two round trips: a flag it owes has been found (`Met`) or is still there to be found (`Unmet`). For
  the refinement each charge maps to `Charge` of its key, each command of a reset to `Reset` or `ResetRisk`, a
  tick and a cleanup to a `Lapse` of whichever keys they end, and everything else to a stutter.
- *Provenance.* `MeetInv`: of two operations on one document that is not `disturbed` both are ingests, or one is
  a listing. `AllowedInv`: the content of a record that is accepted is allowed. `WholeInv`: a decision about to be
  written finds its record. `QueueInv`: a document that is not in the index of its decision is one that somebody
  is about to put there (`Queued`), and what is about to be removed from an index is not needed in it
  (`Removable`). `ToldInv`: what a batch has been told, or will be, is what its records say
  (`Stands`, `Pends`).
- *Pipeline.* `CallsInv` (`CallOK`) says, by position in `Steps`, what a call that has come that far has been
  told, has run and has put on record: the order of budget, scan, authorization, run, record and verdict *is*
  the argument. `BudgetInv`: the calls that passed are no more than the counter, and no more than the budget.
  `LedgerInv` ties the stores to the history of charges: the risk of a key is what has been charged to it; a
  flagged key has a charge that reached the limit it was made under (`Reaches`); who made such a charge was told
  of it, and nobody is told of a flag without one at or before a charge of its own (`Cause`). `TurnsInv`
  (`TurnInv`) takes what a turn was told from there to its verdict: no model is called for a suspect turn, and
  none but a suspect one is blocked. `MirrorInv` compares the two deployments: either no call is under way and
  the stores agree (`Quiet`), or one is, and each deployment is on its way (`Reached`) from one common store to
  what is a function of that store, of the call and of its position. Where both have arrived they agree again,
  although the enforcing one may have gone fewer steps.
- *Detectors.* `Kept`: an entry per key, no failure, and no score older than one scoring when it was stored,
  kept by removal, by a store and by the eviction of the first. `ModesInv`: what is scored, and what is stored,
  follows the modes in its key. `HasGreatest` (a set of bounded numbers has a maximum) is what makes the `CHOOSE`
  of the enforcing score mean anything.

- *Stream.* `GuardInv`: while it has not blocked, the guard has cleared no more than the hold-back leaves
  (`HeldInv`); it has absorbed words of the text only, and every one that is short enough (`AbsorbedInv`); what
  has blocked it blocks the whole (`BlockedInv`). `StreamInv` ties the guard to the stream around it: what has
  been sent has been produced when the last chunk is in. From there to what was handed out: `OutInv` (only what is
  cleared), `PiiInv`, which carries `PiiIsRedacted` by `StandsApart` (no PII straddles the boundary), and
  `RecordInv`. `StandsApart` is what the loop that moves the boundary out of each finding is for (`CutOutside`:
  with nothing overlapping in part, moving out of one finding never moves into another). That a delta has none of
  the PII in it (`DeltaIsRedacted`) is an argument about the rewriting: the spans that `_resolve_overlaps` keeps
  cover all it was given (`ResolveCovers`), and, replaced from the last to the first, each is gone and the text
  before it is untouched (`ClearedStep`, `BackToFront`, `RedactedIsGone`). The loops are recursive functions over
  numbers; what they do is proved by induction over a *set* of numbers (`SetInduction`, `Upward`, `Steps`), which
  needs no theorem with an operator parameter.
- *File audit.* `Tailed` is `KeptIsTheTail`, of any files and any last line, so that it can be stated of the files
  after each rename. `RotationInv`: a rotation has a place for the next file it renames, or discards the oldest,
  since it has renamed the one before. Discarding the oldest, and moving a file to a number that is free, keep
  `Tailed` (`ShiftKeepsTail`); so does a line at the end of the file, or of a new one (`AppendKeepsTail`).
- *Media.* `MediaInv`, the types of a scan that is under way or done, is enough: outcomes are counted when the
  last one comes in, and no other step ends a scan.

Where an invariant or a hypothesis was in doubt TLC was asked first, on instances with longer timeouts than those
of the runs. `ShadowPredicts` needs `OneAtATime` by such a counterexample. Four attempts to prove changed a
property, each for an execution in which it was false, outside of the instances it had been checked on:
`BudgetOverEveryInterval` over SQL once a call may take two ticks (disagreement 39); `AnswersAreFresh` for a time
to live of zero, where one scoring takes the whole timeout; `VerdictIsBuffered` for a word longer than what is
tokenized again (disagreement 22); `PiiIsRedacted` for PII inside PII that is longer than the hold-back
(disagreement 20). Each now says what holds. Some definitions have the form they have for the sake of the proofs.
`DetectorEnsemble` removes an entry of the cache by its position, since its key is there once, rather than by
selection, and has the highest score as a constant, from `DetectorResult`, which refuses what is above.
`RequestPipeline` keeps what has been charged to each key as a history variable of its own (`owed`), with which
each charge is entered, instead of adding up the charges in a property; `FileAuditLogger` keeps the size of a file
with its lines. What a sum over a sequence is takes an induction over data.

Only model-checked:

- *liveness*: `ScansReturn`;
- *equality of two texts*: `EndedIsWhole` (but for `produced = sent`, which `StreamInv` has) and
  `RedactedExactly`. The first compares a text rewritten delta by delta with the same text rewritten whole, the
  second what `SelectSeq` leaves of it: both are inductions over the text itself, as data, and `SelectSeq` has no
  facts in the library that the installed provers can use. That no character of PII is handed out, at any
  moment, is what *is* proved;
- `TripsOnConsecutiveFailures`, which is false.

## 6. Where code and text disagree

Found while modelling; each is what the code does, against what its documentation, docstrings or comments
say. The first is checked by the run `BackendConsecutive`; the models describe the code in all of them, and
the properties of section 3 are stated so that they say what the code does provide.

*Resilience.*
1. `resilience.py:346`: `run` returns a value without `record_success`, which nothing calls. Failures add up
   from the start of the process, so that a breaker trips on failures that are not consecutive, and after its
   first trip on any single one. Line 158: "Consecutive failures before the policy is applied".
2. `resilience.py:238`: after `recovery_seconds` the breaker reads closed until the trial fails, so that every
   concurrent call goes through, and `breaker_states` alone uses the trial up. Line 237: "let exactly one call
   through".
3. `pipeline.py:1811`: only `pre_process` and `post_process` return the degradations of the call.
   `docs/deployment.md:213`: "Every degraded decision goes three places".

*Tokens.*
4. `services/scope_guard.py:794`: the TTL of a nonce is cut to whole seconds and the expiry check is not
   repeated after the await of `revoked_at`; a record can go before its token, and in the last second of a
   token's life (or just after it) a use is accepted beyond `max_uses`. `sessions/stores.py:71`: "An expired
   nonce reads as unused, which is safe because the token it belonged to is rejected on its own expiry first."
5. `services/scope_guard.py:655`: `attenuate` does not look at revocations and issues the child now, so that
   the child of a revoked token is accepted. Line 604: "Refuse every token this subject currently holds."
6. `sessions/postgres_stores.py:142`: of two racing revocations the later instant is kept with the expiry of
   the last writer; a revocation TTL that exceeds the life of tokens by less than the timeout is not enough.
   `services/scope_guard.py:612`: it "MUST exceed the longest token TTL".
7. `services/scope_guard.py:231`: a key no spent token has named may still be signing in a process that has
   not reloaded. `docs/identity-and-tokens.md:177` retires keys on that evidence.
8. `services/scope_guard.py:502`: `reload_keys` writes 0.0 for "never", which `time.monotonic()` is close to
   after boot: within one interval of it the provider is not asked. Line 501: "Ask the provider now".

*Session stores.*
9. `sessions/redis_stores.py:74`: the flag's TTL is renewed only at or above the threshold, and lapses before
   its session. `sessions/stores.py:177`: "sticky until reset_session".
10. `sessions/postgres_stores.py:254`: an expired row that is still there is added to: an ended session comes
    back with its risk and flag. Line 118: "expiry is also enforced logically inside every atomic statement".
11. `sessions/redis_stores.py:245`: without hash tags a reset deletes key by key; an update between leaves a
    session over its threshold unflagged. Line 243: "gives up atomicity, which reset does not need".
12. `sessions/mysql_stores.py:344`: `last_update` takes an older clock read unconditionally, and the time
    between is decayed twice. `services/rate_limiter.py:51`: "the behavior doesn't depend on which process/pod
    happens to handle a given request".
13. `sessions/redis_stores.py:210`: clocks are read before the round trip, and an interval of the window's
    length may hold more than the budget. `sessions/stores.py:151`: "over *every* interval of length W".
14. `sessions/stores.py:247`: refused events are kept. Line 152: the cost is "bounded by the budget itself".

*Provenance.*
15. `sessions/redis_stores.py:324`: an index entry is removed on the strength of a read made before the
    document was recorded again; a quarantined document leaves the review queue for good. Line 268: "Kept in
    step by record/set_decision/delete."
16. `sessions/redis_stores.py:309`: `set_decision` after a delete leaves a hash with one field, which fails
    every later `get`, and answers True. `sessions/stores.py:370`: "False if there is no such record."
17. `services/ingest_guard.py:275`: an approval reaches whatever version the id holds by then. Line 264: "A
    reviewer read it and it is fine".

*Output.*
18. `services/output_guard.py:91`: of spans that overlap in part only the longer is redacted. Line 84: "the
    narrower finding is contained in it".
19. `services/exfil_guard.py:407`: a link around an image found before it: offsets are applied to a text that
    has changed. Line 379: "keeping the surrounding message".
20. `services/streaming_guard.py:363`: a finding across the emission boundary has a negative offset in the slice,
    counted from its end: text is doubled or shown. It takes a finding longer than the hold-back (or overlap in
    part, see 21); a PII that fits, inside such a one, is shown with it. Line 379: "it is redacted from here on".
21. `services/streaming_guard.py:355`: the boundary is moved out of each finding once, in list order, and may
    end up inside one that was passed. Line 352: "Never cut through the middle of a finding".
22. `services/streaming_guard.py:288`: with a hold-back of 0 (shadow mode) a word split by chunks is not
    counted. `pipeline.py:362`: detection is "unaffected". Whatever the hold-back, nor is one longer than the 32
    characters that are tokenized again with a chunk; line 286: "so a word split across the boundary" is not
    "counted as two".

*Pipeline.*
23. `pipeline.py:1202`: over budget, enforcement leaves before the charge, shadow mode charges: from then on
    they differ. `docs/detection-and-tuning.md:191`: "what enforcement would have done".
24. `pipeline.py:1821`: the tool budget raises in shadow mode too. `docs/detection-and-tuning.md:198`:
    "recorded on" the result "instead of raised".
25. `pipeline.py:1216`: a request refused over budget is not audited, under a closed audit policy either. Line
    1007: "an unlogged request must not happen".
26. `pipeline.py:1860`: a tool that raises, or whose record fails under a closed policy, is recorded as denied.
    Line 1880: "the CALL was allowed and is audited as such above".
27. `pipeline.py:1405`: external content and media are charged under the limiter's default limits, whatever
    the plan. `docs/deployment.md:134`: "risk thresholds follow the caller's" plan.
28. `pipeline.py:1435`: a batch is scanned without detectors. Line 1330: "Indirect injection is where a
    semantic detector earns its keep".
29. `pipeline.py:1405` again: where a plan's limits are above the defaults, an external charge sets the sticky
    flag by the default, and turns far below the plan's threshold are refused from then on.
30. `contrib/langchain.py:228`, `:135`: in shadow mode too, documents whose scan is blocked are dropped and the
    user's message is replaced by the sanitized one, for an oversized message an empty one.
    `docs/detection-and-tuning.md:194`: "nothing is blocked or even redacted".
31. `contrib/langchain.py:127`: messages without a `HumanMessage` reach the model unscanned and uncharged; with
    one, each further call of the model in a chain charges that same message again. Line 19: "if it is blocked the
    model is never called".
32. `pipeline.py:1478`: a resolver of foreign identifiers that raises loses the reply of a model that has
    answered, without a record of either.
33. `pipeline.py:1693`: `ingest_batch` raises the first failure while its other records are still being
    written; they may land after a retry, or after a deletion, that the caller makes on that error.

*Key layout.*
34. `sessions/redis_keys.py:156`: one INFO that fails at the first use of a process gives that process keys of
    its own for its life, on a single node too: budgets are counted and sessions reset per layout.
    `docs/architecture.md:92`: processes "agree on one set of limits instead of each enforcing its own".

*Provenance, again.*
35. `sessions/mysql_stores.py:497`: MySQL counts changed rows, so that confirming a decision a document already
    has answers False. `sessions/stores.py:370`: "False if there is no such record."

*Others.*
36. `audit_sinks.py:81`: after a crash between two renames the next rotation discards the oldest backup though
    a number is free. Line 44: "a crash loses the last few lines".
37. `services/detectors.py:287`: registrations replaced while a text is scored: the answer follows the new ones
    and is stored under the old key. Line 275: "is a different answer".
38. `services/media_guard.py:322`: the timeout of a synchronous extractor includes its wait for a worker; once
    given-up extractors hold them all, those behind are timed out unread. Line 284: "bounded on its own".

*Session stores, again.*
39. `sessions/postgres_stores.py:217`, `sessions/mysql_stores.py:297`: a call that arrives late writes an older
    expiry over that of the anchor, and the cleanup deletes events under it that are still in their window.
    `sessions/postgres_stores.py:199`: "has expired has had no event for a whole window".

## 7. What is abstracted, and what is not modelled

*Common to all.* Within a process, code between two awaits is atomic. A round trip that timed out has taken
effect before the timeout or never does. `timeout_seconds=None` is left out. An open breaker is one of the
reasons a backend is "unavailable" in the modules that have that action.

- `CapabilityTokens`: a signature that verifies is a token being one of those issued. The wire format,
  `check_constraints` and quotas on the delegation of `max_uses` other than the bound by the parent are data.
- `KeyRotation`: when the operator moves on is not in the code; two procedures of
  `docs/identity-and-tokens.md` are parameters.
- `SessionRisk`: risk, decay and thresholds are integers. One actor.
- `SlidingWindow`: the callers are in different processes. Concurrent first calls of one process, which may
  each detect and overwrite the other's answer, have no behaviour two processes do not have.
- `ContentScan`: a text is what the patterns, decoders and URL parser find in it. Scores are in hundredths: the
  weights are multiples of 0.05, and the sums of floating point numbers in the code compare the same with
  every threshold.
- `Provenance`: the limit of a listing is left out. A batch is the records of its documents; its scans, in a
  process pool, share nothing.
- `Redaction`, `StreamingGuard`: what a pattern matches is a span given from outside, with the least length at
  which it shows; which text that is, entropy are not modelled. The placeholder has a fixed
  length. Findings in one response are listed PII first, as `_emit` goes through them; in the runs
  they are apart, or one PII inside another. Overlap in part is where section 6 (18 to 21) applies.
- `GuardedStream`: the policy of the audit log is closed (an open one goes on as if it had written). `async
  for` ends at an exception: what pulling again after one would do is left out.
- `RequestPipeline`: everything happens in one window and without decay; a failing store has done nothing; one
  principal; a batch is its worst chunk. Of a reply only whether it is clean, rewritten or blocking matters;
  what becomes of its text is `StreamingGuard`'s `Buffered`. A retrieved document without an id, or without a
  provenance store, is one that is allowed.
- `DetectorEnsemble`: weights are 1. A registration changes only between calls in the run (`QuietChanges`).
- `MediaScanner`: scores are 0 and 1.
- `FileAuditLogger`: a crash is of the process and what was flushed stays; one process per path, as the
  documentation asks; a line is no longer than a file.

Not modelled: the sanitizer's normalization and regular expressions (computation over characters); metrics
and tracing (write-only); configuration loading (no state after start-up); evaluation (offline arithmetic);
the conversion of LangChain messages; the migration script of Redis keys; and the health report of the
pipeline but for `breaker_states`, which is a step of `ResilientBackend` because it changes breakers.

A type invariant is checked where a theorem states it (`CapabilityTokens`, `ResilientBackend`); in the other
modules that are proved about it is a part of the inductive invariant, and in the rest each property presupposes
the types it needs.

## 8. Plan

Ordered by what an error would cost.

| Stage | Modules | State |
|---|---|---|
| 1 | `CapabilityTokens`, its proofs | modelled, checked, proved |
| 2 | `ResilientBackend`, which all others rest on | modelled, checked, proved |
| 3 | `SessionContract`, `SessionRisk`, `SlidingWindow`: one promise over four backends | modelled, checked, proved |
| 4 | `RequestPipeline`: order and interleaving of whole calls, shadow against enforcement | modelled, checked, proved |
| 5 | `Provenance`, `KeyRotation` | modelled, checked, proved |
| 6 | `Redaction`, `StreamingGuard`, `GuardedStream` | modelled, checked; proved but for the equality of texts |
| 7 | `DetectorEnsemble`, `MediaScanner`, `FileAuditLogger` | modelled, checked; proved but for liveness |
| 8 | `ContentScan`; `ingest_batch` with its direct store calls; `post_process` and the LangChain integration; key layouts; a failing audit log in a stream; `reload_keys` | modelled, checked |
| 9 | left to model: decay under clocks that run back, as a bound (the refinement leaves it open); findings that overlap in part, for which the code has no property to state | left |
| 10 | proofs of the above; `SessionRisk` implements `SessionContract` | done |
| 11 | `EndedIsWhole`, `RedactedExactly`, `ScansReturn` | checked; out of reach of these provers |

## 9. Running it

In this directory, with TLC and the community modules on its path and TLAPS 1.4.5:

    tlc -workers 2 -config Tokens.cfg MCCapabilityTokens.tla
    for m in *_proofs.tla; do tlapm $m; done

`PROJECT.json` lists the module, configuration and properties of each run. The longest take a minute and a
half; the proofs take some minutes for each module from nothing.
