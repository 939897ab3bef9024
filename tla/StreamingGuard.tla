-------------------------- MODULE StreamingGuard --------------------------
(***************************************************************************)
(* StreamingOutputGuard of services/streaming_guard.py: a response scanned *)
(* while it is written.  What has been emitted cannot be recalled, so the  *)
(* last Holdback characters wait; a tail of what was emitted stays in the  *)
(* window that is scanned, so that a match across the seam is still found. *)
(*                                                                         *)
(* A response is its positions, 0 first.  What its characters make the     *)
(* patterns match is the record text, which the model writes as it goes: a *)
(* finding is visible in a window that holds its start and at least min of *)
(* its characters, and reaches as far as the window and end do.            *)
(***************************************************************************)
EXTENDS Redaction

CONSTANTS
    Texts,          \* responses: their findings in the order _emit goes through them,
                    \* and the words of the system prompt that occur in them
    NeededWords,    \* distinct words at which the overlap reaches its threshold
    Configs,        \* the configurations considered: see Config
    Lookback,       \* characters tokenized again with a chunk, 32 in the code
    MinForOverlap,  \* min_chars_for_overlap
    MaxOutput,      \* max_output_chars
    Chunks,         \* bound: lengths of a chunk
    MaxLength       \* bound: length of a response

Kinds == {"secret", "pii", "block", "neutralize", "notice"}   \* the last three: URLs

(* A pattern never matches less than min; one whose min is less may grow.  *)
Finding ==
    {f \in [start : Nat, min : Nat \ {0}, end : Nat, kind : Kinds] : f.start + f.min <= f.end}

Word == {w \in [start : Nat, end : Nat] : w.start < w.end}

(* holdback_chars; detection_tail_chars, never below it; redact_pii; and   *)
(* of the pipeline, its shadow mode and min_chunk_chars.  In shadow mode   *)
(* the guard is built to hold nothing back and to redact nothing.          *)
Config == [holdback : Nat, tail : Nat, redactPii : BOOLEAN, shadow : BOOLEAN, minChunk : Nat]

ASSUME StreamingAssumption ==
    /\ \A t \in Texts :
          /\ t.findings \in Seq(Finding)
          /\ \A i, j \in DOMAIN t.findings :   \* pii_spans, then the URLs
                i < j /\ t.findings[j].kind = "pii" => t.findings[i].kind = "pii"
          /\ t.words \in SUBSET Word /\ IsFiniteSet(t.words)
    /\ NeededWords \in Nat \ {0}
    /\ Configs \subseteq Config
    /\ \A c \in Configs :
          /\ c.holdback <= c.tail
          /\ c.shadow => c.holdback = 0 /\ c.minChunk = 0 /\ ~c.redactPii
    /\ Lookback \in Nat /\ MinForOverlap \in Nat /\ MaxOutput \in Nat
    /\ Chunks \subseteq Nat \ {0} /\ MaxLength \in Nat

VARIABLES
    config,     \* which of Configs: fixed
    text,       \* what the model is writing
    produced,   \* _raw_len
    emitted,    \* _emitted_len; the buffer is what lies between the two
    absorbed,   \* _out_tokens: words of the system prompt seen whole
    out,        \* the text of every delta, in order
    reason,     \* _reason of the block ("secret", "exfil",
                \*   "system_prompt_overlap", "oversized"), or "none"
    leaked,     \* leaked_before_holdback
    finished    \* _finished

guardVars == <<config, text, produced, emitted, absorbed, out, reason, leaked, finished>>

Holdback == config.holdback

DetectionTail == config.tail

RedactPii == config.redactPii

GuardInit ==
    /\ config \in Configs
    /\ text \in Texts
    /\ produced = 0 /\ emitted = 0
    /\ absorbed = {} /\ out = <<>>
    /\ reason = "none" /\ leaked = FALSE /\ finished = FALSE

Lesser(a, b) == IF a < b THEN a ELSE b

Greater(a, b) == IF a > b THEN a ELSE b

Findings == {text.findings[i] : i \in DOMAIN text.findings}

----------------------------------------------------------------------------
(* Mutant: the tail is as long as the hold-back.                           *)
TailLength_Holdback == Lesser(Holdback, emitted)

(* The emitted text still in the window: _advance keeps its last           *)
(* DetectionTail characters.                                               *)
TailLength == Lesser(DetectionTail, emitted)

(* A finding as the window shows it when n characters are produced.        *)
Shown(f, n) == [start |-> f.start, end |-> Lesser(f.end, n), kind |-> f.kind]

(* What _evaluate finds in the window, less what ends in the tail.         *)
Visible(f, n) ==
    /\ f.start >= emitted - TailLength
    /\ f.start + f.min <= n
    /\ Lesser(f.end, n) > emitted
    /\ f.kind = "pii" => RedactPii

(* ... of some kinds.                                                      *)
Seen(n, kinds) == {Shown(f, n) : f \in {g \in Findings : Visible(g, n) /\ g.kind \in kinds}}

(* Mutant: each chunk is tokenized on its own.                             *)
Absorb_Chunk(c) ==
    absorbed \cup {w \in text.words : w.start >= produced /\ w.end <= produced + c}

(* _absorb_tokens: the chunk, with as much of the buffer before it.        *)
Absorb(c) ==
    absorbed \cup {w \in text.words : /\ w.start >= Greater(emitted, produced - Lookback)
                                      /\ w.end <= produced + c}

----------------------------------------------------------------------------
Block(why, straddles) ==
    /\ reason' = why
    /\ leaked' = (straddles /\ emitted > 0)
    /\ UNCHANGED <<emitted, out>>

Straddling(found) == \E f \in found : f.start < emitted

(* Mutant: everything in the window is emitted.                            *)
Cut_Window(n, final) == n

(* Mutant: the boundary may fall inside a finding.                         *)
Cut_Anywhere(n, final) == IF final THEN n ELSE Greater(emitted, n - Holdback)

(* The emission boundary is moved before a finding it falls into,          *)
Moved(cut, f, n) ==
    IF Visible(f, n) /\ f.start < cut /\ cut < Lesser(f.end, n) THEN f.start ELSE cut

(* out of one after the other, from where the hold-back begins.            *)
Cut(n, final) ==
    LET base == IF final THEN n ELSE Greater(emitted, n - Holdback)
        cut[i \in 0..Len(text.findings)] ==
            IF i = 0 THEN base ELSE Moved(cut[i - 1], text.findings[i], n)
    IN  cut[Len(text.findings)]

(* The places of a URL in a text that was redacted: the second scan.       *)
Places(slice, url) ==
    {[start |-> i - 1, end |-> i - 1 + Length(url), suspicious |-> TRUE] :
        i \in {j \in DOMAIN slice : /\ j + Length(url) - 1 <= Len(slice)
                                    /\ \A k \in 0..Length(url) - 1 : slice[j + k] = url.start + k}}

(* The text of a delta: offsets count from what was emitted before, so a   *)
(* finding that straddles it has a negative one.                           *)
Delta(n, cut) ==
    LET slice    == [i \in 1..cut - emitted |-> emitted + i - 1]
        redacted == ApplySpans(slice, {[start |-> s.start - emitted, end |-> s.end - emitted] :
                                          s \in {f \in Seen(n, {"pii"}) : f.end <= cut}})
        urls     == {f \in Seen(n, {"neutralize"}) : f.end <= cut}
    IN  Neutralize(redacted, DropNested(SetToSeq(UNION {Places(redacted, url) : url \in urls})))

Emit(n, cut) ==
    /\ \/ /\ cut <= emitted
          /\ UNCHANGED <<emitted, out, leaked>>
       \/ /\ cut > emitted
          /\ emitted' = cut
          /\ out' = out \o Delta(n, cut)
          /\ leaked' = (leaked \/ (emitted > 0 /\ Straddling(Seen(n, {"pii", "neutralize"}))))
    /\ UNCHANGED reason

(* _evaluate: the first of the checks that fires decides.                  *)
Evaluate(n, final, words) ==
    LET secrets == Seen(n, {"secret"})
        beacons == Seen(n, {"block"})
        overlap == (final \/ n >= MinForOverlap) /\ Cardinality(words) >= NeededWords
    IN  \/ /\ secrets # {}
           /\ Block("secret", Straddling(secrets))
        \/ /\ secrets = {} /\ beacons # {}
           /\ Block("exfil", Straddling(beacons))
        \/ /\ secrets = {} /\ beacons = {} /\ overlap
           /\ Block("system_prompt_overlap", FALSE)
        \/ /\ secrets = {} /\ beacons = {} /\ ~overlap
           /\ Emit(n, Cut(n, final))

Feed(c) ==
    /\ reason = "none" /\ ~finished
    /\ produced' = produced + c
    /\ absorbed' = Absorb(c)
    /\ \/ /\ produced + c > MaxOutput
          /\ Block("oversized", FALSE)
       \/ /\ produced + c <= MaxOutput
          /\ Evaluate(produced + c, FALSE, Absorb(c))
    /\ UNCHANGED <<config, text, finished>>

Finish ==
    /\ reason = "none" /\ ~finished
    /\ finished' = TRUE
    /\ Evaluate(produced, TRUE, absorbed)
    /\ UNCHANGED <<config, text, produced, absorbed>>

----------------------------------------------------------------------------
Complete(f) == f.start + f.min <= produced

(* A credential, or a URL that blocks, whose pattern fits in the hold-back *)
(* is seen before any of it is emitted, wherever the chunks fall.          *)
HeldBackUntilSeen ==
    \A f \in Findings : f.kind \in {"secret", "block"} /\ f.min <= Holdback /\ Complete(f)
        => emitted <= f.start /\ reason # "none"

(* A credential longer than the hold-back, up to the tail, is still caught *)
(* the moment it is complete; if some of it is gone, the block says so.    *)
LongSecretsAreReported ==
    \A f \in Findings : f.kind = "secret" /\ f.min <= DetectionTail + Holdback /\ Complete(f)
        => reason # "none" /\ (emitted > f.start /\ reason # "oversized" => leaked)

(* What is rewritten does not overlap in part, as _resolve_overlaps takes  *)
(* for granted ("the narrower finding is contained in it").                *)
Tidy ==
    \A f, g \in {h \in Findings : h.kind \notin {"secret", "block"}} :
        \/ f.end <= g.start \/ g.end <= f.start
        \/ f.start <= g.start /\ g.end <= f.end
        \/ g.start <= f.start /\ f.end <= g.end

(* No character of PII that fits in the hold-back, as what it is part of   *)
(* does, reaches the user, at any point of the stream.                     *)
PiiIsRedacted ==
    RedactPii /\ Tidy /\ (\A f \in Findings : f.kind = "pii" => f.min <= Holdback) =>
        \A f \in Findings : f.kind = "pii" /\ Complete(f) =>
            \A i \in DOMAIN out : ~Covers(f, out[i])

(* OutputGuard.scan, then ExfilGuard.scan, of the first n characters.      *)
Whole(n) == {Shown(f, n) : f \in {g \in Findings : g.start + g.min <= n}}

Buffered(n) ==
    LET redacted == ApplySpans([i \in 1..n |-> i - 1], {s \in Whole(n) : s.kind = "pii"})
        urls     == {s \in Whole(n) : s.kind = "neutralize"}
    IN  Neutralize(redacted, DropNested(SetToSeq(UNION {Places(redacted, url) : url \in urls})))

BufferedBlocks(n) ==
    \/ \E s \in Whole(n) : s.kind \in {"secret", "block"}
    \/ Cardinality({w \in text.words : w.end <= n}) >= NeededWords
    \/ n > MaxOutput
=============================================================================
