----------------------------- MODULE Redaction -----------------------------
(***************************************************************************)
(* Rewriting a text by spans: _resolve_overlaps and _apply_spans of        *)
(* services/output_guard.py, which redact what OutputGuard found, and      *)
(* _drop_nested and _neutralize of services/exfil_guard.py, which remove   *)
(* the URLs ExfilGuard found.                                              *)
(*                                                                         *)
(* What the regular expressions match is a parameter of every operator.  A *)
(* text is the sequence of its positions, 0 first; what is written over a  *)
(* finding is Placeholder, a run of Marker as long as the code's own text. *)
(* Offsets are Python's: a negative one counts from the end.               *)
(***************************************************************************)
EXTENDS Integers, FiniteSets, SequencesExt

CONSTANT PlaceholderLength   \* len("[REDACTED:...]"), and of a removed URL's text

ASSUME PlaceholderAssumption == PlaceholderLength \in Nat \ {0}

Marker == -1

Placeholder == [i \in 1..PlaceholderLength |-> Marker]

(* A finding covers start .. end - 1, as a Python slice does.              *)
Covers(span, position) == span.start <= position /\ position < span.end

Length(span) == span.end - span.start

(* Where text[:i] ends and text[i:] begins.                                *)
At(text, i) ==
    LET from == IF i < 0 THEN Len(text) + i ELSE i
    IN  IF from < 0 THEN 0 ELSE IF from > Len(text) THEN Len(text) ELSE from

(* out[:start] + placeholder + out[end:].                                  *)
Overwrite(text, span) ==
    SubSeq(text, 1, At(text, span.start)) \o Placeholder
        \o SubSeq(text, At(text, span.end) + 1, Len(text))

(* ... for one span after the other.                                       *)
OverwriteAll(text, spans) ==
    LET done[i \in 0..Len(spans)] == IF i = 0 THEN text ELSE Overwrite(done[i - 1], spans[i])
    IN  done[Len(spans)]

(* sorted(): the items of a set, each before those it is related to.       *)
Sorted(items, before) ==
    CHOOSE s \in [1..Cardinality(items) -> items] :
        \A i, j \in 1..Cardinality(items) : i < j => <<s[i], s[j]>> \in before

----------------------------------------------------------------------------
(* By start, the longer one first.                                         *)
ByStart(spans) ==
    {p \in spans \X spans : \/ p[1].start < p[2].start
                            \/ p[1].start = p[2].start /\ Length(p[1]) > Length(p[2])}

(* One step of _resolve_overlaps: of two spans that overlap, the longest.  *)
Keep(kept, span) ==
    IF kept = <<>> \/ span.start >= kept[Len(kept)].end THEN Append(kept, span)
    ELSE IF Length(span) > Length(kept[Len(kept)]) THEN [kept EXCEPT ![Len(kept)] = span]
    ELSE kept

ResolveOverlaps(spans) ==
    LET ordered == Sorted(spans, ByStart(spans))
        kept[i \in 0..Cardinality(spans)] == IF i = 0 THEN <<>> ELSE Keep(kept[i - 1], ordered[i])
    IN  kept[Cardinality(spans)]

(* Mutant: applied from left to right.                                     *)
ApplySpans_Forward(text, spans) == OverwriteAll(text, ResolveOverlaps(spans))

(* _apply_spans: from right to left, so that earlier offsets stay valid.   *)
ApplySpans(text, spans) == OverwriteAll(text, Reverse(ResolveOverlaps(spans)))

----------------------------------------------------------------------------
(* _drop_nested: findings come in order of precedence; one that falls      *)
(* inside an earlier one is the same URL seen again.                       *)
DropNested(findings) ==
    LET Nested(kept, f) == \E i \in DOMAIN kept : kept[i].start <= f.start /\ f.end <= kept[i].end
        kept[i \in 0..Len(findings)] ==
            IF i = 0 THEN <<>>
            ELSE IF Nested(kept[i - 1], findings[i]) THEN kept[i - 1]
            ELSE Append(kept[i - 1], findings[i])
    IN  kept[Len(findings)]

(* The last start first; findings that start together as they come.        *)
LastFirst(findings, places) ==
    {p \in places \X places : \/ findings[p[1]].start > findings[p[2]].start
                              \/ findings[p[1]].start = findings[p[2]].start /\ p[1] < p[2]}

(* _neutralize: each suspicious URL, the construct around it included, is  *)
(* replaced.                                                               *)
Neutralize(text, findings) ==
    LET places == {i \in DOMAIN findings : findings[i].suspicious}
        order  == Sorted(places, LastFirst(findings, places))
    IN  OverwriteAll(text, [i \in 1..Cardinality(places) |-> findings[order[i]]])
=============================================================================
