---------------------- MODULE DetectorEnsemble_proofs ----------------------
(***************************************************************************)
(* What DetectorEnsemble promises of its cache and of its answers, for any *)
(* number of calls, texts and detectors, and any size and time to live.    *)
(***************************************************************************)
EXTENDS DetectorEnsemble, MediaScanner, SequenceTheorems, WellFoundedInduction, TLAPS

KeyType == [text : Texts, modes : Modes]

ResultType == [scores : [Detectors -> Scores \cup {Failed}], heard : [Detectors -> Nat],
               enforcing : Nat]

CallType == [pc : {"scoring"}, key : KeyType, since : Nat, modes : Modes,
             scores : [Detectors -> Scores \cup {Failed, Waiting}], heard : [Detectors -> Nat]]

(* The entries that may be stored: without a failure, and none of whose    *)
(* scores was older than one scoring when it was.                          *)
EntryType ==
    {e \in [key : KeyType, at : Nat, result : ResultType] :
        \A d \in Detectors : /\ e.result.scores[d] # Failed
                             /\ e.at - e.result.heard[d] <= Timeout}

TypeInv ==
    /\ now \in Nat
    /\ modes \in Modes
    /\ calls \in [Requests -> {Idle} \cup CallType]

(* One entry for each key, as many as there may be.                        *)
Kept(entries, size) ==
    /\ entries \in Seq(EntryType)
    /\ Len(entries) <= size
    /\ \A i, j \in 1..Len(entries) : entries[i].key = entries[j].key => i = j

(* A call is scoring for no longer than the timeout, and hears nothing     *)
(* before it began.                                                        *)
CallsInv ==
    \A r \in Requests : calls[r] # Idle =>
        /\ calls[r].since <= now /\ now <= calls[r].since + Timeout
        /\ \A d \in Detectors : calls[r].since <= calls[r].heard[d]
        /\ calls[r].key.modes = calls[r].modes

EnsembleInv ==
    /\ TypeInv
    /\ CallsInv
    /\ Kept(cache, CacheSize)
    /\ AnswersAreFresh

(* The enforcing score of a result is that of registrations in these modes.*)
Follows(result, m) ==
    LET decisive == {d \in Detectors : m[d] = "enforcing" /\ result.scores[d] >= Floor}
    IN  /\ \A d \in decisive : result.enforcing >= result.scores[d]
        /\ result.enforcing = 0 \/ \E d \in decisive : result.enforcing = result.scores[d]

(* While registrations are quiet, what is being scored is scored for the   *)
(* registrations there are, and what is stored follows those of its key.   *)
ModesInv ==
    /\ \A r \in Requests : calls[r] # Idle => calls[r].modes = modes
    /\ \A i \in 1..Len(cache) : Follows(cache[i].result, cache[i].key.modes)
    /\ told # Nothing => Follows(told.result, told.modes)

----------------------------------------------------------------------------
(* Sequences and maxima.                                                   *)

(* What is left of a sequence when one of its elements is taken out.       *)
LEMMA RemoveAtFacts ==
    ASSUME NEW S, NEW s \in Seq(S), NEW k \in 1..Len(s)
    PROVE  /\ RemoveAt(s, k) \in Seq(S)
           /\ Len(RemoveAt(s, k)) = Len(s) - 1
           /\ \A i \in 1..(Len(s) - 1) : RemoveAt(s, k)[i] = s[IF i < k THEN i ELSE i + 1]
<1> DEFINE l == SubSeq(s, 1, k - 1)
           r == SubSeq(s, k + 1, Len(s))
<1>0. Len(s) \in Nat /\ k \in Nat
  OBVIOUS
<1>1. l \in Seq(S) /\ Len(l) = k - 1 /\ \A i \in 1..(k - 1) : l[i] = s[i]
  <2>1. \A i \in 1..(k - 1) : s[i] \in S
    BY <1>0
  <2> QED  BY <1>0, <2>1, SubSeqProperties
<1>2. r \in Seq(S) /\ Len(r) = Len(s) - k /\ \A i \in 1..(Len(s) - k) : r[i] = s[k + i]
  <2>1. \A i \in (k + 1)..Len(s) : s[i] \in S
    BY <1>0
  <2> QED  BY <1>0, <2>1, SubSeqProperties
<1>3. RemoveAt(s, k) = l \o r
  BY DEF RemoveAt
<1> HIDE DEF l, r
<1>4. /\ l \o r \in Seq(S)
      /\ Len(l \o r) = Len(l) + Len(r)
      /\ \A i \in 1..(Len(l) + Len(r)) : (l \o r)[i] = IF i <= Len(l) THEN l[i] ELSE r[i - Len(l)]
  BY <1>1, <1>2, ConcatProperties
<1> QED  BY <1>0, <1>1, <1>2, <1>3, <1>4

(* Sets of numbers below a bound have a greatest one.                      *)
LEMMA HasGreatest ==
    ASSUME NEW top \in Nat, NEW S \in SUBSET (0..top), S # {}
    PROVE  \E s \in S : \A t \in S : t <= s
<1> DEFINE T == {n \in Nat : top - n \in S}
<1>1. T \subseteq Nat /\ T # {}
  <2>1. PICK s \in S : TRUE
    OBVIOUS
  <2>2. top - s \in Nat /\ top - (top - s) = s
    BY <2>1
  <2> QED  BY <2>1, <2>2
<1>2. PICK x \in T : \A y \in T : x <= y
  <2> HIDE DEF T
  <2>1. PICK x \in T : \A y \in T : ~(<<y, x>> \in OpToRel(<, Nat))
    BY <1>1, NatLessThanWellFounded, WFMin
  <2>2. \A y \in T : ~(y < x)
    BY <1>1, <2>1 DEF OpToRel
  <2> QED  BY <1>1, <2>2
<1>3. \A t \in S : top - t \in T /\ top - t \in Nat
  <2> SUFFICES ASSUME NEW t \in S PROVE top - t \in T /\ top - t \in Nat
    OBVIOUS
  <2>1. t \in 0..top /\ top - (top - t) = t
    OBVIOUS
  <2> QED  BY <2>1
<1>4. \A t \in S : t <= top - x
  <2> SUFFICES ASSUME NEW t \in S PROVE t <= top - x
    OBVIOUS
  <2> QED  BY <1>2, <1>3
<1> QED  BY <1>2, <1>4

(* What is left when the first is.                                         *)
LEMMA TailFacts ==
    ASSUME NEW S, NEW s \in Seq(S), s # <<>>
    PROVE  /\ Tail(s) \in Seq(S)
           /\ Len(Tail(s)) = Len(s) - 1
           /\ \A i \in 1..(Len(s) - 1) : i + 1 \in 1..Len(s) /\ Tail(s)[i] = s[i + 1]
BY HeadTailProperties

----------------------------------------------------------------------------
(* The cache.                                                              *)

(* Without takes the entry of a key, and it only.                          *)
LEMMA WithoutKeeps ==
    ASSUME Kept(cache, CacheSize), NEW key
    PROVE  /\ Kept(Without(key), CacheSize)
           /\ Cached(key) # {} => Len(Without(key)) = Len(cache) - 1
           /\ \A i \in 1..Len(Without(key)) :
                 /\ Without(key)[i].key # key
                 /\ \E j \in 1..Len(cache) : Without(key)[i] = cache[j]
<1>1. CacheSize \in Nat
  BY EnsembleAssumption
<1>2. /\ cache \in Seq(EntryType) /\ Len(cache) \in Nat /\ Len(cache) <= CacheSize
      /\ DOMAIN cache = 1..Len(cache)
      /\ \A i, j \in 1..Len(cache) : cache[i].key = cache[j].key => i = j
  BY LenProperties DEF Kept
<1>3. CASE Cached(key) = {}
  <2>1. Without(key) = cache
    BY <1>3 DEF Without
  <2>2. \A i \in 1..Len(cache) : cache[i].key # key
    BY <1>2, <1>3 DEF Cached
  <2> QED  BY <1>3, <2>1, <2>2
<1>4. CASE Cached(key) # {}
  <2>1. PICK k \in Cached(key) : Without(key) = RemoveAt(cache, k)
    BY <1>4 DEF Without
  <2>2. k \in 1..Len(cache) /\ cache[k].key = key
    BY <1>2, <2>1 DEF Cached
  <2> DEFINE w == RemoveAt(cache, k)
  <2>3. /\ w \in Seq(EntryType) /\ Len(w) = Len(cache) - 1
        /\ \A i \in 1..(Len(cache) - 1) : w[i] = cache[IF i < k THEN i ELSE i + 1]
    BY <1>2, <2>2, RemoveAtFacts
  <2> HIDE DEF w
  <2>4. \A i \in 1..Len(w) :
            /\ (IF i < k THEN i ELSE i + 1) \in 1..Len(cache)
            /\ (IF i < k THEN i ELSE i + 1) # k
            /\ w[i] = cache[IF i < k THEN i ELSE i + 1]
    BY <1>2, <2>2, <2>3
  <2>5. \A i \in 1..Len(w) : w[i].key # key
    BY <1>2, <2>2, <2>4
  <2>6. \A i, j \in 1..Len(w) : w[i].key = w[j].key => i = j
    <3> SUFFICES ASSUME NEW i \in 1..Len(w), NEW j \in 1..Len(w), w[i].key = w[j].key
                 PROVE  i = j
      OBVIOUS
    <3>1. (IF i < k THEN i ELSE i + 1) = (IF j < k THEN j ELSE j + 1)
      BY <1>2, <2>4
    <3> QED  BY <1>2, <2>2, <2>3, <3>1
  <2>7. Len(w) <= CacheSize
    BY <1>1, <1>2, <2>3
  <2>8. Kept(w, CacheSize)
    BY <2>3, <2>6, <2>7 DEF Kept
  <2>9. \A i \in 1..Len(w) : \E j \in 1..Len(cache) : w[i] = cache[j]
    BY <2>4
  <2>10. Without(key) = w
    BY <2>1 DEF w
  <2> QED  BY <2>3, <2>5, <2>8, <2>9, <2>10
<1> QED  BY <1>3, <1>4

(* An entry put last, in the place of the one of its key.                  *)
LEMMA PutKeeps ==
    ASSUME Kept(cache, CacheSize), NEW e \in EntryType
    PROVE  /\ Kept(Append(Without(e.key), e), CacheSize + 1)
           /\ Cached(e.key) # {} => Kept(Append(Without(e.key), e), CacheSize)
           /\ \A i \in 1..Len(Append(Without(e.key), e)) :
                 \/ Append(Without(e.key), e)[i] = e
                 \/ \E j \in 1..Len(cache) : Append(Without(e.key), e)[i] = cache[j]
<1> DEFINE w == Without(e.key)
           a == Append(w, e)
<1>1. CacheSize \in Nat
  BY EnsembleAssumption
<1>2. /\ Kept(w, CacheSize)
      /\ Cached(e.key) # {} => Len(w) = Len(cache) - 1
      /\ \A i \in 1..Len(w) : w[i].key # e.key /\ \E j \in 1..Len(cache) : w[i] = cache[j]
  BY WithoutKeeps
<1>3. /\ w \in Seq(EntryType) /\ Len(w) \in Nat /\ Len(w) <= CacheSize
      /\ \A i, j \in 1..Len(w) : w[i].key = w[j].key => i = j
      /\ Len(cache) \in Nat /\ Len(cache) <= CacheSize
  BY <1>2, LenProperties DEF Kept
<1> HIDE DEF w
<1>4. /\ a \in Seq(EntryType) /\ Len(a) = Len(w) + 1
      /\ \A i \in 1..Len(w) : a[i] = w[i]
      /\ a[Len(w) + 1] = e
  BY <1>3, AppendProperties
<1> HIDE DEF a
<1>5. \A i \in 1..Len(a) : i \in 1..Len(w) \/ i = Len(w) + 1
  BY <1>3, <1>4
<1>6. \A i, j \in 1..Len(a) : a[i].key = a[j].key => i = j
  BY <1>2, <1>3, <1>4, <1>5
<1>7. Kept(a, CacheSize + 1)
  BY <1>1, <1>3, <1>4, <1>6 DEF Kept
<1>8. ASSUME Cached(e.key) # {} PROVE Kept(a, CacheSize)
  BY <1>1, <1>2, <1>3, <1>4, <1>6, <1>8 DEF Kept
<1>9. \A i \in 1..Len(a) : a[i] = e \/ \E j \in 1..Len(cache) : a[i] = cache[j]
  BY <1>2, <1>4, <1>5
<1> QED  BY <1>7, <1>8, <1>9 DEF a, w

(* Eviction of the least recently used.                                    *)
LEMMA EvictKeeps ==
    ASSUME NEW entries, Kept(entries, CacheSize + 1), Len(entries) > CacheSize
    PROVE  /\ Kept(Tail(entries), CacheSize)
           /\ \A i \in 1..Len(Tail(entries)) :
                 \E j \in 1..Len(entries) : Tail(entries)[i] = entries[j]
<1>1. CacheSize \in Nat
  BY EnsembleAssumption
<1>2. /\ entries \in Seq(EntryType) /\ Len(entries) \in Nat /\ Len(entries) <= CacheSize + 1
      /\ \A i, j \in 1..Len(entries) : entries[i].key = entries[j].key => i = j
  BY LenProperties DEF Kept
<1>3. entries # <<>>
  BY <1>1, <1>2, EmptySeq
<1> DEFINE t == Tail(entries)
<1>4. /\ t \in Seq(EntryType) /\ Len(t) = Len(entries) - 1
      /\ \A i \in 1..(Len(entries) - 1) : i + 1 \in 1..Len(entries) /\ t[i] = entries[i + 1]
  BY <1>2, <1>3, TailFacts
<1> HIDE DEF t
<1>5. \A i, j \in 1..Len(t) : t[i].key = t[j].key => i = j
  BY <1>2, <1>4
<1>6. Kept(t, CacheSize)
  BY <1>1, <1>2, <1>4, <1>5 DEF Kept
<1>7. \A i \in 1..Len(t) : \E j \in 1..Len(entries) : t[i] = entries[j]
  BY <1>4
<1> QED  BY <1>6, <1>7 DEF t

(* Only an answer without a failure is stored.                             *)
LEMMA StoreKeeps ==
    ASSUME TypeInv, Kept(cache, CacheSize),
           NEW key \in KeyType, NEW result \in ResultType, Store(key, result),
           \A d \in Detectors : now - result.heard[d] <= Timeout
    PROVE  /\ Kept(cache', CacheSize)
           /\ \A i \in 1..Len(cache') :
                 \/ cache'[i] = [key |-> key, at |-> now, result |-> result]
                 \/ \E j \in 1..Len(cache) : cache'[i] = cache[j]
<1> DEFINE e == [key |-> key, at |-> now, result |-> result]
           kept == Append(Without(key), e)
<1>1. CASE CacheSize > 0 /\ \A d \in Detectors : result.scores[d] # Failed
  <2>1. e \in EntryType /\ e.key = key
    BY <1>1 DEF TypeInv, EntryType
  <2>2. cache' = IF Len(kept) > CacheSize THEN Tail(kept) ELSE kept
    BY <1>1 DEF Store
  <2> HIDE DEF e
  <2>3. /\ Kept(kept, CacheSize + 1)
        /\ \A i \in 1..Len(kept) : kept[i] = e \/ \E j \in 1..Len(cache) : kept[i] = cache[j]
    BY <2>1, PutKeeps
  <2> HIDE DEF kept
  <2>4. CASE Len(kept) > CacheSize
    <3>1. /\ Kept(Tail(kept), CacheSize)
          /\ \A i \in 1..Len(Tail(kept)) : \E j \in 1..Len(kept) : Tail(kept)[i] = kept[j]
      BY <2>3, <2>4, EvictKeeps
    <3>2. cache' = Tail(kept)
      BY <2>2, <2>4
    <3>3. \A i \in 1..Len(cache') : cache'[i] = e \/ \E j \in 1..Len(cache) : cache'[i] = cache[j]
      <4> SUFFICES ASSUME NEW i \in 1..Len(cache')
                   PROVE  cache'[i] = e \/ \E j \in 1..Len(cache) : cache'[i] = cache[j]
        OBVIOUS
      <4>1. PICK m \in 1..Len(kept) : cache'[i] = kept[m]
        BY <3>1, <3>2
      <4> QED  BY <2>3, <4>1
    <3> QED  BY <3>1, <3>2, <3>3 DEF e
  <2>5. CASE ~(Len(kept) > CacheSize)
    <3>1. CacheSize \in Nat /\ Len(kept) \in Nat
      BY <2>3, EnsembleAssumption, LenProperties DEF Kept
    <3>2. Kept(kept, CacheSize)
      BY <2>3, <2>5, <3>1 DEF Kept
    <3> QED  BY <2>2, <2>3, <2>5, <3>2 DEF e
  <2> QED  BY <2>4, <2>5
<1>2. CASE ~(CacheSize > 0 /\ \A d \in Detectors : result.scores[d] # Failed)
  BY <1>2 DEF Store
<1> QED  BY <1>1, <1>2

(* The answer of the cache is the one fresh entry of the key, which is     *)
(* then the most recently used.                                            *)
LEMMA HitKeeps ==
    ASSUME Kept(cache, CacheSize), NEW r \in Requests, NEW text \in Texts, Hit(r, text)
    PROVE  /\ Kept(cache', CacheSize)
           /\ \A i \in 1..Len(cache') : \E j \in 1..Len(cache) : cache'[i] = cache[j]
           /\ \E i \in 1..Len(cache) :
                 /\ now - cache[i].at < CacheTtl
                 /\ cache[i].key = CacheKey(text)
                 /\ told' = [from |-> "cache", result |-> cache[i].result, modes |-> modes]
<1> DEFINE key == CacheKey(text)
<1>1. PICK k \in Cached(key) :
          /\ cache' = Append(Without(key), cache[k])
          /\ told' = [from |-> "cache", result |-> cache[k].result, modes |-> modes]
  BY DEF Hit
<1>2. PICK f \in Cached(key) : now - cache[f].at < CacheTtl
  BY DEF Hit, Fresh
<1> HIDE DEF key
<1>3. /\ k \in 1..Len(cache) /\ f \in 1..Len(cache)
      /\ cache[k].key = key /\ cache[f].key = key
      /\ cache[k] \in EntryType
  BY LenProperties, ElementOfSeq DEF Kept, Cached
<1>4. k = f
  BY <1>3 DEF Kept
<1>5. /\ Kept(cache', CacheSize)
      /\ \A i \in 1..Len(cache') : cache'[i] = cache[k] \/ \E j \in 1..Len(cache) : cache'[i] = cache[j]
  BY <1>1, <1>3, PutKeeps
<1> QED  BY <1>1, <1>2, <1>3, <1>4, <1>5 DEF key

----------------------------------------------------------------------------
(* Results.                                                                *)

(* _score_uncached: the enforcing score is the highest there is.           *)
LEMMA EnforcingFollows ==
    ASSUME modes \in Modes, NEW result, result.scores \in [Detectors -> Scores \cup {Failed}],
           result.enforcing = Enforcing(result.scores)
    PROVE  /\ result.enforcing \in Nat
           /\ Follows(result, modes)
<1> DEFINE scores == result.scores
           heeded == {e \in Detectors : scores[e] # Failed /\ modes[e] = "enforcing"}
           found  == {0} \cup {Contribution(scores[d]) : d \in heeded}
<1>1. Highest \in Nat /\ Scores \subseteq 0..Highest
  BY EnsembleAssumption
<1>2. Floor \in Nat
  BY EnsembleAssumption
<1>3. \A d \in heeded : scores[d] \in 0..Highest /\ Contribution(scores[d]) \in 0..Highest
  <2> SUFFICES ASSUME NEW d \in Detectors, scores[d] # Failed
               PROVE  scores[d] \in 0..Highest /\ Contribution(scores[d]) \in 0..Highest
    OBVIOUS
  <2>1. scores[d] \in Scores
    OBVIOUS
  <2>2. scores[d] \in 0..Highest
    BY <1>1, <2>1
  <2> HIDE DEF scores
  <2> QED  BY <1>1, <1>2, <2>2 DEF Contribution
<1>4. found \in SUBSET (0..Highest) /\ 0 \in found
  <2> HIDE DEF scores, heeded
  <2> QED  BY <1>1, <1>3
<1>5. \E s \in found : \A t \in found : t <= s
  <2> HIDE DEF found
  <2> QED  BY <1>1, <1>4, HasGreatest
<1>6. result.enforcing \in found /\ \A t \in found : t <= result.enforcing
  <2>1. result.enforcing = CHOOSE s \in found : \A t \in found : t <= s
    BY DEF Enforcing
  <2> HIDE DEF found
  <2> QED  BY <1>5, <2>1
<1>7. result.enforcing \in Nat
  <2> HIDE DEF found
  <2>1. result.enforcing \in 0..Highest
    BY <1>4, <1>6
  <2> QED  BY <1>1, <2>1
<1>8. ASSUME NEW d \in Detectors, modes[d] = "enforcing", scores[d] >= Floor
      PROVE  scores[d] \in Nat /\ scores[d] \in found
  <2>1. scores[d] # Failed
    BY <1>2, <1>8 DEF Failed
  <2>2. scores[d] \in 0..Highest
    BY <1>3, <1>8, <2>1
  <2>3. Contribution(scores[d]) = scores[d]
    BY <1>2, <1>8, <2>2 DEF Contribution
  <2>4. Contribution(scores[d]) \in found
    BY <1>8, <2>1
  <2> QED  BY <2>2, <2>3, <2>4
<1>9. ASSUME NEW d \in Detectors, modes[d] = "enforcing", scores[d] >= Floor
      PROVE  result.enforcing >= scores[d]
  <2> HIDE DEF found, scores
  <2> QED  BY <1>6, <1>7, <1>8, <1>9
<1>10. ASSUME result.enforcing # 0
       PROVE  \E d \in Detectors : /\ modes[d] = "enforcing" /\ scores[d] >= Floor
                                   /\ result.enforcing = scores[d]
  <2>1. PICK d \in heeded : result.enforcing = Contribution(scores[d])
    BY <1>6, <1>10
  <2>2. scores[d] \in 0..Highest
    BY <1>3
  <2>3. scores[d] >= Floor /\ result.enforcing = scores[d]
    BY <1>2, <1>10, <2>1, <2>2 DEF Contribution
  <2> QED  BY <2>1, <2>3
<1> QED  BY <1>7, <1>9, <1>10 DEF Follows

----------------------------------------------------------------------------
(* The steps.                                                              *)

(* The cache is empty and nothing is being scored.                         *)
LEMMA InitEnsemble == Init => EnsembleInv
<1> SUFFICES ASSUME Init PROVE EnsembleInv
  OBVIOUS
<1>1. TypeInv
  BY DEF Init, TypeInv, Modes
<1>2. Kept(cache, CacheSize)
  <2>1. cache = <<>> /\ CacheSize \in Nat
    BY EnsembleAssumption DEF Init
  <2> QED  BY <2>1, EmptySeq DEF Kept
<1>3. CallsInv /\ AnswersAreFresh
  BY DEF Init, CallsInv, AnswersAreFresh
<1> QED  BY <1>1, <1>2, <1>3 DEF EnsembleInv

(* What a call that was begun is.                                          *)
LEMMA Begun ==
    ASSUME TypeInv, NEW r \in Requests, calls[r] # Idle
    PROVE  calls[r] \in CallType
BY DEF TypeInv

(* A call that has heard from a detector.                                  *)
Heard(call, d, s, t) == [call EXCEPT !.scores[d] = s, !.heard[d] = t]

(* An answer is noted, with the time it came; the rest of a call stays.    *)
LEMMA AnswerOf ==
    ASSUME NEW call \in CallType, NEW d \in Detectors, NEW s \in Scores \cup {Failed},
           NEW t \in Nat
    PROVE  LET heard == Heard(call, d, s, t)
           IN  /\ heard \in CallType
               /\ heard.since = call.since /\ heard.key = call.key /\ heard.modes = call.modes
               /\ \A e \in Detectors : heard.heard[e] \in {call.heard[e], t}
<1> DEFINE ss == [call.scores EXCEPT ![d] = s]
           hs == [call.heard EXCEPT ![d] = t]
<1>1. ss \in [Detectors -> Scores \cup {Failed, Waiting}]
  BY DEF CallType
<1>2. hs \in [Detectors -> Nat] /\ \A e \in Detectors : hs[e] \in {call.heard[e], t}
  BY DEF CallType
<1>3. Heard(call, d, s, t) = [call EXCEPT !.scores = ss, !.heard = hs]
  BY DEF CallType, Heard
<1> HIDE DEF ss, hs
<1> QED  BY <1>1, <1>2, <1>3 DEF CallType

(* TypeInv is inductive.                                                   *)
LEMMA StepType == TypeInv /\ [Next]_vars => TypeInv'
<1> SUFFICES ASSUME TypeInv, [Next]_vars PROVE TypeInv'
  OBVIOUS
<1>1. CASE UNCHANGED vars
  BY <1>1 DEF vars, TypeInv
<1>2. ASSUME NEW r \in Requests, NEW text \in Texts, Hit(r, text) PROVE TypeInv'
  BY <1>2 DEF Hit, TypeInv
<1>3. ASSUME NEW r \in Requests, NEW text \in Texts, Miss(r, text) PROVE TypeInv'
  <2>1. [pc |-> "scoring", key |-> CacheKey(text), since |-> now, modes |-> modes,
         scores |-> [d \in Detectors |-> Waiting], heard |-> [d \in Detectors |-> now]] \in CallType
    BY DEF TypeInv, CallType, KeyType, CacheKey
  <2> QED  BY <1>3, <2>1 DEF Miss, TypeInv
<1>4. ASSUME NEW r \in Requests, NEW d \in Detectors, Answer(r, d) PROVE TypeInv'
  <2>1. PICK s \in Scores \cup {Failed} :
            calls' = [calls EXCEPT ![r].scores[d] = s, ![r].heard[d] = now]
    BY <1>4 DEF Answer
  <2>2. calls[r] \in CallType
    BY <1>4, Begun DEF Answer
  <2>3. calls'[r] = Heard(calls[r], d, s, now)
    BY <2>1 DEF TypeInv, Heard
  <2>4. calls'[r] \in CallType
    BY <2>2, <2>3, AnswerOf DEF TypeInv
  <2> QED  BY <1>4, <2>1, <2>4 DEF Answer, TypeInv
<1>5. ASSUME NEW r \in Requests, Finish(r) PROVE TypeInv'
  BY <1>5 DEF Finish, TypeInv
<1>6. ASSUME NEW d \in Replaced, Register(d) PROVE TypeInv'
  BY <1>6, EnsembleAssumption DEF Register, TypeInv, Modes
<1>7. CASE Tick
  BY <1>7 DEF Tick, TypeInv
<1> QED  BY <1>1, <1>2, <1>3, <1>4, <1>5, <1>6, <1>7 DEF Next

(* A call that is scoring is given up when its timeout has passed: the     *)
(* clock does not move beyond it.                                          *)
LEMMA StepCalls == TypeInv /\ CallsInv /\ [Next]_vars => CallsInv'
<1> SUFFICES ASSUME TypeInv, CallsInv, [Next]_vars, NEW q \in Requests, calls'[q] # Idle
             PROVE  /\ calls'[q].since <= now' /\ now' <= calls'[q].since + Timeout
                    /\ \A d \in Detectors : calls'[q].since <= calls'[q].heard[d]
                    /\ calls'[q].key.modes = calls'[q].modes
  BY DEF CallsInv
<1>0. now \in Nat /\ Timeout \in Nat
  BY EnsembleAssumption DEF TypeInv
<1>1. ASSUME calls'[q] = calls[q], now' = now
      PROVE  /\ calls'[q].since <= now' /\ now' <= calls'[q].since + Timeout
             /\ \A d \in Detectors : calls'[q].since <= calls'[q].heard[d]
             /\ calls'[q].key.modes = calls'[q].modes
  BY <1>1 DEF CallsInv
<1>2. CASE UNCHANGED vars
  BY <1>1, <1>2 DEF vars
<1>3. ASSUME NEW r \in Requests, NEW text \in Texts, Hit(r, text) PROVE calls'[q] = calls[q] /\ now' = now
  BY <1>3 DEF Hit
<1>4. ASSUME NEW r \in Requests, NEW text \in Texts, Miss(r, text), q = r
      PROVE  /\ calls'[q].since <= now' /\ now' <= calls'[q].since + Timeout
             /\ \A d \in Detectors : calls'[q].since <= calls'[q].heard[d]
             /\ calls'[q].key.modes = calls'[q].modes
  <2>1. calls'[q] = [pc |-> "scoring", key |-> CacheKey(text), since |-> now, modes |-> modes,
                     scores |-> [d \in Detectors |-> Waiting], heard |-> [d \in Detectors |-> now]]
    BY <1>4 DEF Miss, TypeInv
  <2>2. now' = now /\ CacheKey(text).modes = modes
    BY <1>4 DEF Miss, CacheKey
  <2> QED  BY <1>0, <2>1, <2>2
<1>5. ASSUME NEW r \in Requests, NEW d \in Detectors, Answer(r, d), q = r
      PROVE  /\ calls'[q].since <= now' /\ now' <= calls'[q].since + Timeout
             /\ \A e \in Detectors : calls'[q].since <= calls'[q].heard[e]
             /\ calls'[q].key.modes = calls'[q].modes
  <2>1. PICK s \in Scores \cup {Failed} :
            calls' = [calls EXCEPT ![r].scores[d] = s, ![r].heard[d] = now]
    BY <1>5 DEF Answer
  <2>2. calls[r] \in CallType /\ now' = now
    BY <1>5, Begun DEF Answer
  <2>3. calls'[r] = Heard(calls[r], d, s, now)
    BY <2>1 DEF TypeInv, Heard
  <2>4. /\ calls'[r].since = calls[r].since /\ calls'[r].key = calls[r].key
        /\ calls'[r].modes = calls[r].modes
        /\ \A e \in Detectors : calls'[r].heard[e] \in {calls[r].heard[e], now}
    BY <1>0, <2>2, <2>3, AnswerOf
  <2>5. /\ calls[r].since <= now /\ now <= calls[r].since + Timeout
        /\ \A e \in Detectors : calls[r].since <= calls[r].heard[e]
        /\ calls[r].key.modes = calls[r].modes
    BY <1>5 DEF Answer, CallsInv
  <2> QED  BY <1>5, <2>2, <2>4, <2>5
<1>6. ASSUME NEW r \in Requests, NEW text \in Texts, Miss(r, text), q # r
      PROVE  calls'[q] = calls[q] /\ now' = now
  BY <1>6 DEF Miss, TypeInv
<1>7. ASSUME NEW r \in Requests, NEW d \in Detectors, Answer(r, d), q # r
      PROVE  calls'[q] = calls[q] /\ now' = now
  BY <1>7 DEF Answer, TypeInv
<1>8. ASSUME NEW r \in Requests, Finish(r) PROVE calls'[q] = calls[q] /\ now' = now
  BY <1>8 DEF Finish, TypeInv
<1>9. ASSUME NEW d \in Replaced, Register(d) PROVE calls'[q] = calls[q] /\ now' = now
  BY <1>9 DEF Register
<1>10. CASE Tick
  <2>1. calls'[q] = calls[q] /\ calls[q] # Idle /\ now' = now + 1 /\ now < calls[q].since + Timeout
    BY <1>10 DEF Tick
  <2>2. calls[q].since \in Nat
    BY <2>1, Begun DEF CallType
  <2> QED  BY <1>0, <2>1, <2>2 DEF CallsInv
<1> QED  BY <1>1, <1>2, <1>3, <1>4, <1>5, <1>6, <1>7, <1>8, <1>9, <1>10 DEF Next

(* What Finish has to store, and to return.                                *)
LEMMA Result ==
    ASSUME TypeInv, CallsInv, NEW r \in Requests, Finish(r)
    PROVE  \E result \in ResultType :
              /\ calls[r].key \in KeyType
              /\ Store(calls[r].key, result)
              /\ told' = [from |-> "detectors", result |-> result, modes |-> calls[r].modes]
              /\ \A d \in Detectors : now - result.heard[d] <= Timeout
              /\ Follows(result, modes)
              /\ calls[r].key.modes = calls[r].modes
<1> DEFINE result == [scores |-> calls[r].scores, heard |-> calls[r].heard,
                      enforcing |-> Enforcing(calls[r].scores)]
<1>1. calls[r] \in CallType /\ calls[r] # Idle
  BY Begun DEF Finish
<1>2. calls[r].scores \in [Detectors -> Scores \cup {Failed}]
  BY <1>1 DEF Finish, CallType
<1>3. /\ result.scores = calls[r].scores /\ result.heard = calls[r].heard
      /\ result.enforcing = Enforcing(result.scores)
  OBVIOUS
<1>4. Store(calls[r].key, result)
      /\ told' = [from |-> "detectors", result |-> result, modes |-> calls[r].modes]
  BY DEF Finish
<1>5. result = [scores |-> result.scores, heard |-> result.heard, enforcing |-> result.enforcing]
  OBVIOUS
<1> HIDE DEF result
<1>6. result.enforcing \in Nat /\ Follows(result, modes)
  BY <1>2, <1>3, EnforcingFollows DEF TypeInv
<1>7. calls[r].heard \in [Detectors -> Nat] /\ calls[r].key \in KeyType /\ calls[r].since \in Nat
  BY <1>1 DEF CallType
<1>8. result \in ResultType
  BY <1>2, <1>3, <1>5, <1>6, <1>7 DEF ResultType
<1>9. /\ now <= calls[r].since + Timeout
      /\ \A d \in Detectors : calls[r].since <= calls[r].heard[d]
      /\ calls[r].key.modes = calls[r].modes
  BY <1>1 DEF CallsInv
<1>10. \A d \in Detectors : now - result.heard[d] <= Timeout
  BY <1>3, <1>7, <1>9, EnsembleAssumption DEF TypeInv
<1> QED  BY <1>4, <1>6, <1>7, <1>8, <1>9, <1>10

(* Hits and stores, whatever order they come in, leave the cache in order. *)
LEMMA StepKept == TypeInv /\ CallsInv /\ Kept(cache, CacheSize) /\ [Next]_vars => Kept(cache', CacheSize)
<1> SUFFICES ASSUME TypeInv, CallsInv, Kept(cache, CacheSize), [Next]_vars
             PROVE  Kept(cache', CacheSize)
  OBVIOUS
<1>1. ASSUME NEW r \in Requests, NEW text \in Texts, Hit(r, text) PROVE Kept(cache', CacheSize)
  BY <1>1, HitKeeps
<1>2. ASSUME NEW r \in Requests, Finish(r) PROVE Kept(cache', CacheSize)
  BY <1>2, Result, StoreKeeps
<1>3. ASSUME cache' = cache PROVE Kept(cache', CacheSize)
  BY <1>3
<1>4. ASSUME NEW r \in Requests, NEW text \in Texts, Miss(r, text) PROVE cache' = cache
  BY <1>4 DEF Miss
<1>5. ASSUME NEW r \in Requests, NEW d \in Detectors, Answer(r, d) PROVE cache' = cache
  BY <1>5 DEF Answer
<1>6. UNCHANGED vars \/ Tick \/ (\E d \in Replaced : Register(d)) => cache' = cache
  BY DEF vars, Tick, Register
<1> QED  BY <1>1, <1>2, <1>3, <1>4, <1>5, <1>6 DEF Next

(* A cached answer is as old as its entry and one scoring; an entry never  *)
(* gets younger.                                                           *)
LEMMA StepFresh ==
    EnsembleInv /\ [Next]_vars => AnswersAreFresh'
<1> SUFFICES ASSUME EnsembleInv, [Next]_vars PROVE AnswersAreFresh'
  OBVIOUS
<1>0. now \in Nat /\ Timeout \in Nat /\ CacheTtl \in Nat
  BY EnsembleAssumption DEF EnsembleInv, TypeInv
<1>1. ASSUME NEW r \in Requests, NEW text \in Texts, Hit(r, text) PROVE AnswersAreFresh'
  <2>1. PICK i \in 1..Len(cache) :
            /\ now - cache[i].at < CacheTtl
            /\ told' = [from |-> "cache", result |-> cache[i].result, modes |-> modes]
    BY <1>1, HitKeeps DEF EnsembleInv
  <2>2. cache[i] \in EntryType
    BY ElementOfSeq DEF EnsembleInv, Kept
  <2>3. \A d \in Detectors : /\ cache[i].at \in Nat /\ cache[i].result.heard[d] \in Nat
                             /\ cache[i].at - cache[i].result.heard[d] <= Timeout
    BY <2>2 DEF EntryType, ResultType
  <2>4. now' = now
    BY <1>1 DEF Hit
  <2>5. \A d \in Detectors : now' - told'.result.heard[d] < CacheTtl + Timeout
    BY <1>0, <2>1, <2>3, <2>4
  <2> QED  BY <2>1, <2>5 DEF AnswersAreFresh
<1>2. ASSUME NEW r \in Requests, Finish(r) PROVE AnswersAreFresh'
  <2>1. PICK result \in ResultType :
            /\ told' = [from |-> "detectors", result |-> result, modes |-> calls[r].modes]
            /\ \A d \in Detectors : now - result.heard[d] <= Timeout
    BY <1>2, Result DEF EnsembleInv
  <2>2. now' = now
    BY <1>2 DEF Finish
  <2> QED  BY <2>1, <2>2 DEF AnswersAreFresh
<1>3. ASSUME told' = Nothing PROVE AnswersAreFresh'
  BY <1>3 DEF AnswersAreFresh
<1>4. CASE UNCHANGED vars
  BY <1>4 DEF vars, EnsembleInv, AnswersAreFresh
<1>5. (\E r \in Requests, text \in Texts : Miss(r, text)) => told' = Nothing
  BY DEF Miss
<1>6. (\E r \in Requests, d \in Detectors : Answer(r, d)) => told' = Nothing
  BY DEF Answer
<1>7. Tick \/ (\E d \in Replaced : Register(d)) => told' = Nothing
  BY DEF Tick, Register
<1> QED  BY <1>1, <1>2, <1>3, <1>4, <1>5, <1>6, <1>7 DEF Next

(* What is neither stored nor returned anew follows as it did.             *)
LEMMA FollowsOn ==
    ASSUME ModesInv, [Next]_vars,
           \A i \in 1..Len(cache') : \/ \E j \in 1..Len(cache) : cache'[i] = cache[j]
                                     \/ Follows(cache'[i].result, cache'[i].key.modes)
    PROVE  \A i \in 1..Len(cache') : Follows(cache'[i].result, cache'[i].key.modes)
BY DEF ModesInv

(* The key has the modes a text was scored for, and while registrations are*)
(* quiet so has the result.                                                *)
LEMMA StepModes ==
    ASSUME QuietChanges
    PROVE  EnsembleInv /\ ModesInv /\ [Next]_vars => ModesInv'
<1> SUFFICES ASSUME EnsembleInv, ModesInv, [Next]_vars PROVE ModesInv'
  OBVIOUS
<1>0. TypeInv /\ CallsInv /\ Kept(cache, CacheSize)
  BY DEF EnsembleInv
<1>1. ASSUME NEW r \in Requests, NEW text \in Texts, Hit(r, text) PROVE ModesInv'
  <2>1. /\ \A i \in 1..Len(cache') : \E j \in 1..Len(cache) : cache'[i] = cache[j]
        /\ \E i \in 1..Len(cache) :
              /\ cache[i].key = CacheKey(text)
              /\ told' = [from |-> "cache", result |-> cache[i].result, modes |-> modes]
    BY <1>0, <1>1, HitKeeps
  <2>2. PICK i \in 1..Len(cache) :
            /\ cache[i].key = CacheKey(text)
            /\ told' = [from |-> "cache", result |-> cache[i].result, modes |-> modes]
    BY <2>1
  <2>3. cache[i].key.modes = modes
    BY <2>2 DEF CacheKey
  <2>4. Follows(told'.result, told'.modes)
    BY <2>2, <2>3 DEF ModesInv
  <2>5. \A j \in 1..Len(cache') : Follows(cache'[j].result, cache'[j].key.modes)
    BY <2>1, FollowsOn
  <2>6. \A q \in Requests : calls'[q] # Idle => calls'[q].modes = modes'
    BY <1>1 DEF Hit, ModesInv
  <2> QED  BY <2>4, <2>5, <2>6 DEF ModesInv
<1>2. ASSUME NEW r \in Requests, Finish(r) PROVE ModesInv'
  <2>1. PICK result \in ResultType :
            /\ calls[r].key \in KeyType
            /\ Store(calls[r].key, result)
            /\ told' = [from |-> "detectors", result |-> result, modes |-> calls[r].modes]
            /\ \A d \in Detectors : now - result.heard[d] <= Timeout
            /\ Follows(result, modes)
            /\ calls[r].key.modes = calls[r].modes
    BY <1>0, <1>2, Result
  <2>2. calls[r].modes = modes
    BY <1>2 DEF Finish, ModesInv
  <2>3. \A i \in 1..Len(cache') :
            \/ cache'[i] = [key |-> calls[r].key, at |-> now, result |-> result]
            \/ \E j \in 1..Len(cache) : cache'[i] = cache[j]
    BY <1>0, <2>1, StoreKeeps
  <2>4. \A i \in 1..Len(cache') : Follows(cache'[i].result, cache'[i].key.modes)
    <3>1. \A i \in 1..Len(cache') : \/ \E j \in 1..Len(cache) : cache'[i] = cache[j]
                                    \/ Follows(cache'[i].result, cache'[i].key.modes)
      BY <2>1, <2>2, <2>3
    <3> QED  BY <3>1, FollowsOn
  <2>5. Follows(told'.result, told'.modes)
    BY <2>1, <2>2
  <2>6. \A q \in Requests : calls'[q] # Idle => calls'[q].modes = modes'
    BY <1>0, <1>2 DEF Finish, TypeInv, ModesInv
  <2> QED  BY <2>4, <2>5, <2>6 DEF ModesInv
<1>3. ASSUME NEW r \in Requests, NEW text \in Texts, Miss(r, text) PROVE ModesInv'
  <2>1. /\ modes' = modes /\ cache' = cache /\ told' = Nothing
        /\ calls' = [calls EXCEPT ![r] =
                        [pc |-> "scoring", key |-> CacheKey(text), since |-> now, modes |-> modes,
                         scores |-> [d \in Detectors |-> Waiting], heard |-> [d \in Detectors |-> now]]]
    BY <1>3 DEF Miss
  <2>2. \A q \in Requests : calls'[q] # Idle => calls'[q].modes = modes'
    BY <1>0, <2>1 DEF TypeInv, ModesInv
  <2> QED  BY <2>1, <2>2 DEF ModesInv
<1>4. ASSUME NEW r \in Requests, NEW d \in Detectors, Answer(r, d) PROVE ModesInv'
  <2>1. PICK s \in Scores \cup {Failed} :
            calls' = [calls EXCEPT ![r].scores[d] = s, ![r].heard[d] = now]
    BY <1>4 DEF Answer
  <2>2. modes' = modes /\ cache' = cache /\ told' = Nothing /\ calls[r] \in CallType
    BY <1>0, <1>4, Begun DEF Answer
  <2>3. calls'[r] = Heard(calls[r], d, s, now) /\ \A q \in Requests \ {r} : calls'[q] = calls[q]
    BY <1>0, <2>1 DEF TypeInv, Heard
  <2>4. calls'[r].modes = calls[r].modes
    BY <1>0, <2>2, <2>3, AnswerOf DEF TypeInv
  <2>5. \A q \in Requests : calls'[q] # Idle => calls'[q].modes = modes'
    BY <1>4, <2>2, <2>3, <2>4 DEF Answer, ModesInv
  <2> QED  BY <2>2, <2>5 DEF ModesInv
<1>5. ASSUME NEW d \in Replaced, Register(d) PROVE ModesInv'
  <2>1. /\ \A r \in Requests : calls[r] = Idle
        /\ calls' = calls /\ cache' = cache /\ told' = Nothing
    BY <1>5 DEF Register
  <2> QED  BY <2>1 DEF ModesInv
<1>6. CASE Tick
  BY <1>6 DEF Tick, ModesInv
<1>7. CASE UNCHANGED vars
  BY <1>7 DEF vars, ModesInv
<1> QED  BY <1>1, <1>2, <1>3, <1>4, <1>5, <1>6, <1>7 DEF Next

(* The invariant is inductive.                                             *)
LEMMA StepEnsemble == EnsembleInv /\ [Next]_vars => EnsembleInv'
BY StepType, StepCalls, StepKept, StepFresh DEF EnsembleInv

----------------------------------------------------------------------------

(* Types, the age of what is being scored, and the cache as it is kept.    *)
THEOREM EnsembleInvariant == Spec => []EnsembleInv
BY InitEnsemble, StepEnsemble, PTL DEF Spec

(* The cache keeps to its size, with one entry for each key and no         *)
(* failure, however scorings of one text overlap.                          *)
THEOREM CacheIsSound == Spec => []CacheHoldsAnswers
<1>1. EnsembleInv => CacheHoldsAnswers
  <2> SUFFICES ASSUME EnsembleInv PROVE CacheHoldsAnswers
    OBVIOUS
  <2>1. /\ DOMAIN cache = 1..Len(cache)
        /\ \A i \in 1..Len(cache) : cache[i] \in EntryType
    BY LenProperties, ElementOfSeq DEF EnsembleInv, Kept
  <2>2. \A i \in DOMAIN cache, d \in Detectors : cache[i].result.scores[d] # Failed
    BY <2>1 DEF EntryType
  <2> QED  BY <2>1, <2>2 DEF CacheHoldsAnswers, EnsembleInv, Kept
<1> QED  BY <1>1, EnsembleInvariant, PTL

(* No answer is older than one scoring, or, from the cache, than that and  *)
(* the time to live, through any number of hits.                           *)
THEOREM NothingStaleIsTold == Spec => []AnswersAreFresh
<1>1. EnsembleInv => AnswersAreFresh
  BY DEF EnsembleInv
<1> QED  BY <1>1, EnsembleInvariant, PTL

(* If registrations change only while nothing is scored, an answer         *)
(* enforces what was enforcing when it was asked for, whoever it was       *)
(* computed for.                                                           *)
THEOREM ModesAreFollowed ==
    ASSUME QuietChanges
    PROVE  Spec => []AnswersFollowTheMode
<1>1. Init => EnsembleInv /\ ModesInv
  <2>1. Init => ModesInv
    BY EmptySeq DEF Init, ModesInv
  <2> QED  BY <2>1, InitEnsemble
<1>2. EnsembleInv /\ ModesInv /\ [Next]_vars => EnsembleInv' /\ ModesInv'
  BY StepEnsemble, StepModes
<1>3. ModesInv => AnswersFollowTheMode
  BY DEF ModesInv, Follows, AnswersFollowTheMode
<1> QED  BY <1>1, <1>2, <1>3, PTL DEF Spec

----------------------------------------------------------------------------
(* The extractors of a media scan.                                         *)

Outcomes == Answers \cup {"waiting", "timed out"}

Scanning == [pc : {"scanning"}, since : Nat, outcome : [Extractors -> Outcomes]]

Scanned == [pc : {"done"}, risk : {0, 1}, blocked : BOOLEAN, oversized : BOOLEAN,
            errors : SUBSET Extractors]

MediaInv == clock \in Nat /\ scans \in [Scans -> {NotYet} \cup Scanning \cup Scanned]

Counted(s) ==
    scans'[s].pc = "done" /\ scans[s].pc = "scanning" =>
        (scans'[s].blocked <=> \E e \in Extractors : scans[s].outcome[e] = "hostile")

LEMMA ScanKinds ==
    /\ NotYet.pc = "not yet"
    /\ \A x \in Scanning : x.pc = "scanning"
    /\ \A x \in Scanned : x.pc = "done"
BY DEF NotYet, Scanning, Scanned

(* An outcome that comes in is that of a scan, and ends none.              *)
LEMMA OutcomeKeeps ==
    ASSUME MediaInv, NEW s \in Scans, NEW e \in Extractors, Awaiting(s, e), NEW o \in Outcomes,
           scans' = [scans EXCEPT ![s].outcome[e] = o], UNCHANGED clock
    PROVE  MediaInv' /\ \A t \in Scans : Counted(t)
<1>1. scans[s] \in Scanning
  BY ScanKinds DEF MediaInv, Awaiting
<1>2. /\ scans'[s] = [scans[s] EXCEPT !.outcome[e] = o]
      /\ \A t \in Scans : t # s => scans'[t] = scans[t]
      /\ scans' \in [Scans -> {scans'[t] : t \in Scans}]
  BY DEF MediaInv
<1>3. scans'[s] \in Scanning
  BY <1>1, <1>2 DEF Scanning
<1>4. MediaInv'
  BY <1>2, <1>3 DEF MediaInv
<1>5. \A t \in Scans : Counted(t)
  BY <1>2, <1>3, ScanKinds DEF Counted, MediaInv
<1> QED BY <1>4, <1>5

(* A scan begins, or is refused, or ends.                                  *)
LEMMA TurnOfAScan ==
    ASSUME MediaInv, NEW s \in Scans, NEW x \in Scanning \cup Scanned,
           scans' = [scans EXCEPT ![s] = x], UNCHANGED clock,
           scans[s].pc = "scanning" =>
               (x.blocked <=> \E e \in Extractors : scans[s].outcome[e] = "hostile")
    PROVE  MediaInv' /\ \A t \in Scans : Counted(t)
<1>1. /\ scans'[s] = x
      /\ \A t \in Scans : t # s => scans'[t] = scans[t]
      /\ scans' \in [Scans -> {NotYet} \cup Scanning \cup Scanned]
  BY DEF MediaInv
<1>2. \A t \in Scans : t # s => Counted(t)
  BY <1>1, ScanKinds DEF Counted, MediaInv
<1>3. Counted(s)
  BY <1>1 DEF Counted
<1> QED BY <1>1, <1>2, <1>3 DEF MediaInv

LEMMA ScansRest ==
    ASSUME MediaInv, UNCHANGED scans, clock' \in Nat
    PROVE  MediaInv' /\ \A t \in Scans : Counted(t)
BY ScanKinds DEF MediaInv, Counted

LEMMA StepMedia ==
    ASSUME MediaInv, [MediaNext]_mediaVars
    PROVE  MediaInv' /\ \A t \in Scans : Counted(t)
<1> DEFINE Goal == MediaInv' /\ \A t \in Scans : Counted(t)
<1>1. ASSUME NEW s \in Scans, Refuse(s) PROVE Goal
  <2> DEFINE x == [pc |-> "done", risk |-> 1, blocked |-> TRUE, oversized |-> TRUE, errors |-> {}]
  <2>1. x \in Scanned
    BY DEF Scanned
  <2>2. scans' = [scans EXCEPT ![s] = x] /\ UNCHANGED clock /\ scans[s].pc # "scanning"
    BY <1>1, ScanKinds DEF Refuse
  <2> HIDE DEF x
  <2> QED BY <2>1, <2>2, TurnOfAScan
<1>2. ASSUME NEW s \in Scans, Start(s) PROVE Goal
  <2> DEFINE x == [pc |-> "scanning", since |-> clock, outcome |-> [e \in Extractors |-> "waiting"]]
  <2>1. x \in Scanning
    BY DEF Scanning, Outcomes, MediaInv
  <2>2. scans' = [scans EXCEPT ![s] = x] /\ UNCHANGED clock /\ scans[s].pc # "scanning"
    BY <1>2, ScanKinds DEF Start
  <2> HIDE DEF x
  <2> QED BY <2>1, <2>2, TurnOfAScan
<1>3. ASSUME NEW s \in Scans, Gather(s) PROVE Goal
  <2> DEFINE x == ScanResult(scans[s].outcome)
             hostile == \E e \in Extractors : scans[s].outcome[e] = "hostile"
  <2>1. x \in Scanned /\ (x.blocked <=> hostile)
    <3> HIDE DEF hostile
    <3>1. x = [pc |-> "done", risk |-> IF hostile THEN 1 ELSE 0, blocked |-> (IF hostile THEN 1 ELSE 0) = 1,
               oversized |-> FALSE,
               errors |-> {e \in Extractors : scans[s].outcome[e] \in {"raised", "timed out"}}]
      BY DEF ScanResult, hostile
    <3> HIDE DEF x
    <3>2. CASE hostile
      <4>1. x = [pc |-> "done", risk |-> 1, blocked |-> TRUE, oversized |-> FALSE,
                 errors |-> {e \in Extractors : scans[s].outcome[e] \in {"raised", "timed out"}}]
        BY <3>1, <3>2
      <4> QED BY <3>2, <4>1 DEF Scanned
    <3>3. CASE ~hostile
      <4>1. ((IF hostile THEN 1 ELSE 0) = 1) = FALSE
        BY <3>3
      <4>2. x = [pc |-> "done", risk |-> 0, blocked |-> FALSE, oversized |-> FALSE,
                 errors |-> {e \in Extractors : scans[s].outcome[e] \in {"raised", "timed out"}}]
        BY <3>1, <3>3, <4>1, Zenon
      <4> QED BY <3>3, <4>2 DEF Scanned
    <3> QED BY <3>2, <3>3
  <2>2. scans' = [scans EXCEPT ![s] = x] /\ UNCHANGED clock
    BY <1>3 DEF Gather
  <2> HIDE DEF x
  <2> QED BY <2>1, <2>2, TurnOfAScan
<1>4. ASSUME NEW s \in Scans, NEW e \in Extractors, Extracted(s, e) PROVE Goal
  <2>1. PICK answer \in Answers : scans' = Recorded(s, e, answer)
    BY <1>4 DEF Extracted
  <2>2. Awaiting(s, e) /\ scans' = [scans EXCEPT ![s].outcome[e] = answer] /\ UNCHANGED clock
    BY <1>4, <2>1 DEF Extracted, Recorded
  <2> QED BY <2>2, OutcomeKeeps DEF Outcomes
<1>5. ASSUME NEW s \in Scans, NEW e \in Extractors, TimeOut(s, e) PROVE Goal
  <2>1. /\ Awaiting(s, e) /\ UNCHANGED clock
        /\ scans' = [scans EXCEPT ![s].outcome[e] = "timed out"]
    BY <1>5 DEF TimeOut
  <2> QED BY <2>1, OutcomeKeeps DEF Outcomes
<1>6. ASSUME NEW job \in running, Return(job) PROVE Goal
  <2>1. PICK answer \in Answers : scans' = Recorded(job.scan, job.extractor, answer)
    BY <1>6 DEF Return
  <2>2. UNCHANGED clock
    BY <1>6 DEF Return
  <2>3. CASE Awaiting(job.scan, job.extractor) /\ job.scan \in Scans /\ job.extractor \in Extractors
    BY <2>1, <2>2, <2>3, OutcomeKeeps DEF Recorded, Outcomes
  <2>4. CASE ~Awaiting(job.scan, job.extractor)
    BY <2>1, <2>2, <2>4, ScansRest DEF Recorded, MediaInv
  <2>5. CASE Awaiting(job.scan, job.extractor) /\ ~(job.scan \in Scans /\ job.extractor \in Extractors)
    <3>1. scans' = [scans EXCEPT ![job.scan].outcome[job.extractor] = answer]
      BY <2>1, <2>5 DEF Recorded
    <3>2. CASE job.scan \notin Scans
      <4>1. scans' = scans
        BY <3>1, <3>2 DEF MediaInv
      <4> QED BY <2>2, <4>1, ScansRest DEF MediaInv
    <3>3. CASE job.scan \in Scans /\ job.extractor \notin Extractors
      <4>1. scans[job.scan] \in Scanning
        BY <2>5, <3>3, ScanKinds DEF MediaInv, Awaiting
      <4>2. [scans[job.scan].outcome EXCEPT ![job.extractor] = answer] = scans[job.scan].outcome
        BY <3>3, <4>1 DEF Scanning
      <4>3. [scans[job.scan] EXCEPT !.outcome[job.extractor] = answer] = scans[job.scan]
        BY <4>1, <4>2 DEF Scanning
      <4>4. scans' = scans
        BY <3>1, <4>3 DEF MediaInv
      <4> QED BY <2>2, <4>4, ScansRest DEF MediaInv
    <3> QED BY <2>5, <3>2, <3>3
  <2> QED BY <2>3, <2>4, <2>5
<1>7. ASSUME Take PROVE Goal
  BY <1>7, ScansRest DEF Take, MediaInv
<1>8. ASSUME MediaTick PROVE Goal
  BY <1>8, ScansRest DEF MediaTick, MediaInv
<1>9. ASSUME UNCHANGED mediaVars PROVE Goal
  BY <1>9, ScansRest DEF mediaVars, MediaInv
<1> HIDE DEF Goal
<1>10. ASSUME MediaNext PROVE Goal
  BY <1>1, <1>2, <1>3, <1>4, <1>5, <1>6, <1>7, <1>8, <1>10 DEF MediaNext
<1>11. Goal
  BY <1>9, <1>10
<1> QED BY <1>11 DEF Goal

(* A scan that ends blocks on hostile text exactly if an extractor         *)
(* recovered some while it was waited for, whatever the others did: raise, *)
(* hang, or return after they were given up.  For any number of scans, of  *)
(* extractors and of workers they share, and any timeout.                  *)
THEOREM OthersAreCounted == MediaSpec => TheOthersCount
<1>1. MediaInit => MediaInv
  BY DEF MediaInit, MediaInv
<1>2. MediaInv /\ [MediaNext]_mediaVars => MediaInv'
  BY StepMedia
<1>3. MediaInv /\ [MediaNext]_mediaVars =>
          [\A s \in Scans : scans'[s].pc = "done" /\ scans[s].pc = "scanning" =>
               (scans'[s].blocked <=> \E e \in Extractors : scans[s].outcome[e] = "hostile")]_mediaVars
  BY StepMedia DEF Counted
<1> QED BY <1>1, <1>2, <1>3, PTL DEF MediaSpec, TheOthersCount

=============================================================================
