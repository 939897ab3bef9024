-------------------------- MODULE MCGuardedStream --------------------------
(***************************************************************************)
(* Small instances of GuardedStream in one run.  Responses with a pair of  *)
(* findings that fit in the hold-back are fed chunk by chunk; those with a *)
(* single finding, or with words of the system prompt, in every other way  *)
(* too: coalesced, observed in shadow mode, and with a hold-back shorter   *)
(* than the finding.                                                       *)
(***************************************************************************)
EXTENDS GuardedStream

CONSTANTS
    Lengths       \* of findings

Fed       == [holdback |-> 3, tail |-> 3, redactPii |-> TRUE, shadow |-> FALSE, minChunk |-> 0]
Coalesced == [Fed EXCEPT !.minChunk = 2]
Short     == [Fed EXCEPT !.holdback = 1]
Observed  == [Fed EXCEPT !.holdback = 0, !.redactPii = FALSE, !.shadow = TRUE]

AllConfigs == {Fed, Coalesced, Short, Observed}

(* What ExfilGuard makes of the URLs of a response, under an allowlist.    *)
Exfil == INSTANCE ContentScan WITH HasAllowlist <- TRUE, AllowRelative <- TRUE,
             BlockDataUris <- TRUE, QuarantineAt <- <<>>, RejectAt <- <<>>

Page    == [scheme |-> "plain", host |-> "listed", credentials |-> FALSE, query |-> "none",
            fragment |-> FALSE, payload |-> FALSE, fetched |-> FALSE]
Resized == [Page EXCEPT !.query = "short", !.fetched = TRUE]
Carrier == [Page EXCEPT !.payload = TRUE, !.fetched = TRUE]

FindingKinds == {"secret", "pii"} \cup {Exfil!Severity(url) : url \in {Page, Resized, Carrier}}

SmallFindings ==
    {f \in [start : 0..MaxLength - 1, min : Lengths, end : 1..MaxLength, kind : FindingKinds] :
        Length(f) \in Lengths /\ f.min <= Length(f)}

NestedIn(f, g) == g.start <= f.start /\ f.end <= g.end

(* Two findings apart, or one PII inside another; PII is gone through first. *)
Pairs ==
    {IF g.kind = "pii" /\ f.kind # "pii" THEN <<g, f>> ELSE <<f, g>> :
        <<f, g>> \in {x \in SmallFindings \X SmallFindings :
                         \/ x[1].end <= x[2].start
                         \/ x[1].kind = "pii" /\ x[2].kind = "pii" /\ NestedIn(x[1], x[2])}}

SmallWords == {[start |-> s, end |-> s + l] : s \in 0..MaxLength - 1, l \in Lengths}

(* Two words, apart; or one that occurs alone.                             *)
Words ==
    {{v, w} : <<v, w>> \in {x \in SmallWords \X SmallWords : x[1] = x[2] \/ x[1].end <= x[2].start}}

Response(findings, words) == [findings |-> findings, words |-> words]

OneOrWords == {Response(<<f>>, {}) : f \in SmallFindings} \cup {Response(<<>>, w) : w \in Words}

AllTexts == OneOrWords \cup {Response(pair, {}) : pair \in Pairs}

MCInit == Init /\ (config = Fed \/ text \in OneOrWords)

MCSpec == MCInit /\ [][Next]_vars
=============================================================================
