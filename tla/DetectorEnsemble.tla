-------------------------- MODULE DetectorEnsemble --------------------------
(***************************************************************************)
(* DetectorEnsemble of services/detectors.py: registered detectors run     *)
(* concurrently over a text, each under a timeout, and an LRU cache with a *)
(* time to live in front of them, shared by all the requests of a process. *)
(*                                                                         *)
(* A detector may say something else of the same text whenever it is       *)
(* asked, or fail.  A registration may be replaced by one of another mode. *)
(* Weights are 1.  The event loop keeps up: an answer or a timeout is      *)
(* handled before the clock moves on.                                      *)
(***************************************************************************)
EXTENDS Integers, FiniteSets, SequencesExt

CONSTANTS
    Requests,      \* concurrent calls of score()
    Texts,
    Detectors,
    Scores,        \* what a detector may say
    Highest,       \* 1.0: DetectorResult refuses what is above
    Floor,         \* Registration.threshold
    CacheSize,     \* cache_size
    CacheTtl,      \* cache_ttl_seconds
    Timeout,       \* FailurePolicy.timeout_seconds
    Replaced,      \* detectors whose registration is replaced
    QuietChanges,  \* and only while nothing is scored
    MaxTime        \* bound: horizon of the clock

ASSUME EnsembleAssumption ==
    /\ Highest \in Nat /\ Scores \subseteq 0..Highest /\ Floor \in Nat
    /\ CacheSize \in Nat /\ CacheTtl \in Nat /\ Timeout \in Nat \ {0}
    /\ Replaced \subseteq Detectors /\ QuietChanges \in BOOLEAN /\ MaxTime \in Nat

VARIABLES
    now,     \* time.monotonic()
    modes,   \* mode of each registration
    cache,   \* entries, the least recently used first
    calls,   \* calls of score() under way
    told     \* what the step just made returned: for the properties;
             \*   heard, of a result: when each detector answered

vars == <<now, modes, cache, calls, told>>

Failed == -1    \* an error: no score
Waiting == -2   \* not answered yet

Modes == [Detectors -> {"advisory", "enforcing"}]

Idle == [pc |-> "idle"]

Nothing == [from |-> "nowhere"]

Init ==
    /\ now = 0
    /\ modes = [d \in Detectors |-> "advisory"]
    /\ cache = <<>>
    /\ calls = [r \in Requests |-> Idle]
    /\ told = Nothing

----------------------------------------------------------------------------
(* Mutant: the key is the text alone.                                      *)
CacheKey_Text(text) == [text |-> text, modes |-> [d \in Detectors |-> "advisory"]]

(* _cache_key: the registrations are part of it.                           *)
CacheKey(text) == [text |-> text, modes |-> modes]

Cached(key) == {i \in DOMAIN cache : cache[i].key = key}

(* An OrderedDict has a key once.                                          *)
Without(key) ==
    IF Cached(key) = {} THEN cache ELSE RemoveAt(cache, CHOOSE i \in Cached(key) : TRUE)

Fresh(key) == CacheSize > 0 /\ \E i \in Cached(key) : now - cache[i].at < CacheTtl

(* Mutant: a hit renews the entry.                                         *)
Hit_Renews(r, text) ==
    LET key == CacheKey(text)
    IN  /\ calls[r] = Idle /\ Fresh(key)
        /\ \E i \in Cached(key) :
            /\ cache' = Append(Without(key), [cache[i] EXCEPT !.at = now])
            /\ told' = [from |-> "cache", result |-> cache[i].result, modes |-> modes]
        /\ UNCHANGED <<now, modes, calls>>

(* score(), answered by the cache.                                         *)
Hit(r, text) ==
    LET key == CacheKey(text)
    IN  /\ calls[r] = Idle /\ Fresh(key)
        /\ \E i \in Cached(key) :
            /\ cache' = Append(Without(key), cache[i])
            /\ told' = [from |-> "cache", result |-> cache[i].result, modes |-> modes]
        /\ UNCHANGED <<now, modes, calls>>

(* score(), and _score_uncached: every detector is asked.                  *)
Miss(r, text) ==
    /\ calls[r] = Idle /\ ~Fresh(CacheKey(text))
    /\ calls' = [calls EXCEPT ![r] =
                    [pc |-> "scoring", key |-> CacheKey(text), since |-> now, modes |-> modes,
                     scores |-> [d \in Detectors |-> Waiting], heard |-> [d \in Detectors |-> now]]]
    /\ told' = Nothing
    /\ UNCHANGED <<now, modes, cache>>

(* _run_one: a score, or the reason there is none.                         *)
Answer(r, d) ==
    /\ calls[r] # Idle /\ calls[r].scores[d] = Waiting
    /\ \E s \in Scores \cup {Failed} :
           calls' = [calls EXCEPT ![r].scores[d] = s, ![r].heard[d] = now]
    /\ told' = Nothing
    /\ UNCHANGED <<now, modes, cache>>

Contribution(score) == IF score < Floor THEN 0 ELSE score

(* The highest contribution of an enforcing detector that answered, by the *)
(* registrations there are when all have.                                  *)
Enforcing(scores) ==
    LET found == {0} \cup {Contribution(scores[d]) :
                              d \in {e \in Detectors : scores[e] # Failed /\ modes[e] = "enforcing"}}
    IN  CHOOSE s \in found : \A t \in found : t <= s

(* Mutant: errors are remembered.                                          *)
Store_Any(key, result) ==
    LET kept == Append(Without(key), [key |-> key, at |-> now, result |-> result])
    IN  cache' = IF CacheSize = 0 THEN cache
                 ELSE IF Len(kept) > CacheSize THEN Tail(kept) ELSE kept

(* An answer without errors is stored; the least recently used goes.       *)
Store(key, result) ==
    LET kept == Append(Without(key), [key |-> key, at |-> now, result |-> result])
    IN  cache' = IF CacheSize > 0 /\ \A d \in Detectors : result.scores[d] # Failed
                 THEN IF Len(kept) > CacheSize THEN Tail(kept) ELSE kept
                 ELSE cache

Finish(r) ==
    /\ calls[r] # Idle /\ \A d \in Detectors : calls[r].scores[d] # Waiting
    /\ LET result == [scores |-> calls[r].scores, heard |-> calls[r].heard,
                      enforcing |-> Enforcing(calls[r].scores)]
       IN  /\ Store(calls[r].key, result)
           /\ told' = [from |-> "detectors", result |-> result, modes |-> calls[r].modes]
    /\ calls' = [calls EXCEPT ![r] = Idle]
    /\ UNCHANGED <<now, modes>>

(* A registration is replaced by one of another mode.                      *)
Register(d) ==
    /\ QuietChanges => \A r \in Requests : calls[r] = Idle
    /\ modes' = [modes EXCEPT ![d] = IF @ = "advisory" THEN "enforcing" ELSE "advisory"]
    /\ told' = Nothing
    /\ UNCHANGED <<now, cache, calls>>

Tick ==
    /\ now < MaxTime
    /\ \A r \in Requests : calls[r] # Idle => now < calls[r].since + Timeout
    /\ now' = now + 1
    /\ told' = Nothing
    /\ UNCHANGED <<modes, cache, calls>>

Next ==
    \/ \E r \in Requests, text \in Texts : Hit(r, text) \/ Miss(r, text)
    \/ \E r \in Requests, d \in Detectors : Answer(r, d)
    \/ \E r \in Requests : Finish(r)
    \/ \E d \in Replaced : Register(d)
    \/ Tick

Spec == Init /\ [][Next]_vars

----------------------------------------------------------------------------
(* However two scorings of one text end, the cache keeps to its size, with *)
(* one entry for each key, and no answer with a failure is ever one: "a    *)
(* failed call should be retried".                                         *)
CacheHoldsAnswers ==
    /\ Len(cache) <= CacheSize
    /\ \A i, j \in DOMAIN cache : cache[i].key = cache[j].key => i = j
    /\ \A i \in DOMAIN cache, d \in Detectors : cache[i].result.scores[d] # Failed

(* "a detector that is re-tuned is not answered from before the re-tune    *)
(* forever": no answer is older than one scoring, and if it is the cache's *)
(* not as old as that and the time to live.                                *)
AnswersAreFresh ==
    told # Nothing =>
        \A d \in Detectors :
            LET age == now - told.result.heard[d]
            IN  IF told.from = "cache" THEN age < CacheTtl + Timeout ELSE age <= Timeout

(* "the same detector in a different mode, is a different answer": what is *)
(* returned enforces exactly the detectors that were enforcing when it was *)
(* asked for, whoever the answer was computed for.                         *)
AnswersFollowTheMode ==
    told # Nothing =>
        LET scores   == told.result.scores
            decisive == {d \in Detectors : told.modes[d] = "enforcing" /\ scores[d] >= Floor}
        IN  /\ \A d \in decisive : told.result.enforcing >= scores[d]
            /\ told.result.enforcing = 0 \/ \E d \in decisive : told.result.enforcing = scores[d]
=============================================================================
