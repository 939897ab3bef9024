--------------------------- MODULE GuardedStream ---------------------------
(***************************************************************************)
(* GuardedStream of pipeline.py: a model's stream with the streaming guard *)
(* in front of it, as the caller iterates over it.  Small chunks are put   *)
(* together before they are fed; in shadow mode they are not, the hold-    *)
(* back is 0, and the caller gets what the model wrote.                    *)
(*                                                                         *)
(* One step is one pull of the source and what __anext__ does about it,    *)
(* up to the next pull.  The source may end, or fail; the caller may stop  *)
(* asking, which it also does when __anext__ raises.  The audit log may be *)
(* unavailable, and its policy is closed: an open one goes on without.     *)
(***************************************************************************)
EXTENDS StreamingGuard

VARIABLES
    sent,       \* characters the source has given
    received,   \* what the caller was given
    ending,     \* the source is spent: what __anext__ does next is finish()
    phase,      \* "open", "ended", "blocked", "failed", "abandoned", or
                \*   "raised": __anext__ failed itself
    audits      \* output_scan records written

streamVars == <<sent, received, ending, phase, audits>>

vars == <<guardVars, streamVars>>

Shadow == config.shadow

MinChunk == config.minChunk

Pending == sent - produced   \* _pending, until the guard blocks

Init ==
    /\ GuardInit
    /\ sent = 0 /\ received = <<>> /\ ending = FALSE
    /\ phase = "open" /\ audits = 0

----------------------------------------------------------------------------
(* _audit_once, as the stream comes to an end.                             *)
Close(how) ==
    \/ phase' = how /\ audits' = audits + 1
    \/ phase' = "raised" /\ UNCHANGED audits   \* StoreUnavailable

(* _forbidden_literals is resolved on the first pull, by the application.  *)
ResolveFails ==
    /\ phase = "open" /\ sent = 0 /\ ~ending
    /\ phase' = "raised"
    /\ UNCHANGED <<guardVars, sent, received, ending, audits>>

(* What a feed of the guard hands to the caller: its delta.                *)
Forward == received' = received \o SubSeq(out', Len(out) + 1, Len(out'))

(* _is_blocking ends the stream; the delta that blocks has no text.        *)
Judged ==
    IF reason' # "none" /\ ~Shadow THEN Close("blocked") ELSE UNCHANGED <<phase, audits>>

(* A chunk too small to be fed yet.                                        *)
Coalesce(c) ==
    /\ phase = "open" /\ ~ending
    /\ Pending + c < MinChunk
    /\ sent' = sent + c
    /\ UNCHANGED <<guardVars, received, ending, phase, audits>>

PullChunk(c) ==
    /\ phase = "open" /\ ~ending /\ ~Shadow
    /\ Pending + c >= MinChunk
    /\ sent' = sent + c
    /\ Feed(Pending + c)
    /\ Forward
    /\ Judged
    /\ UNCHANGED ending

(* In shadow mode the chunk goes to the caller whatever the guard says; a  *)
(* guard that has blocked stays blocked and looks at nothing more.         *)
PullObserved(c) ==
    /\ phase = "open" /\ ~ending /\ Shadow
    /\ sent' = sent + c
    /\ received' = received \o [i \in 1..c |-> sent + i - 1]
    /\ \/ reason = "none" /\ Feed(c)
       \/ reason # "none" /\ UNCHANGED guardVars
    /\ UNCHANGED <<ending, phase, audits>>

(* Mutant: the rest of a coalesced chunk is left where it is.              *)
FeedRest_Dropped ==
    /\ phase = "open" /\ ~ending /\ Pending > 0 /\ reason = "none"
    /\ ending' = TRUE
    /\ UNCHANGED <<guardVars, received, sent, phase, audits>>

(* The source ends with characters still pending: they are fed first.  If  *)
(* they clear text it is handed out, and the next pull goes to finish(),   *)
(* as it does at once otherwise.                                           *)
FeedRest ==
    /\ phase = "open" /\ ~ending /\ Pending > 0 /\ reason = "none"
    /\ Feed(Pending)
    /\ Forward
    /\ Judged
    /\ ending' = TRUE
    /\ UNCHANGED sent

(* Mutant: the text is handed out, then recorded.                          *)
FinishStream_TextFirst ==
    /\ phase = "open"
    /\ ending \/ Pending = 0 \/ reason # "none"
    /\ ending' = TRUE
    /\ \/ reason = "none" /\ Finish /\ Forward
       \/ reason # "none" /\ UNCHANGED <<guardVars, received>>
    /\ Close(IF reason' # "none" /\ ~Shadow THEN "blocked" ELSE "ended")
    /\ UNCHANGED sent

(* finish(): the whole is judged and recorded, then the hold-back goes.    *)
FinishStream ==
    /\ phase = "open"
    /\ ending \/ Pending = 0 \/ reason # "none"
    /\ ending' = TRUE
    /\ IF reason = "none" THEN Finish ELSE UNCHANGED guardVars
    /\ Close(IF reason' # "none" /\ ~Shadow THEN "blocked" ELSE "ended")
    /\ IF phase' = "raised" THEN UNCHANGED received ELSE Forward
    /\ UNCHANGED sent

(* The model stream raises: what was scanned is still logged, before the   *)
(* error goes on, or that of the log in its place.                         *)
SourceFails ==
    /\ phase = "open" /\ ~ending
    /\ Close("failed")
    /\ UNCHANGED <<guardVars, sent, received, ending>>

(* The caller stops iterating; nothing runs any more.                      *)
Abandon ==
    /\ phase = "open"
    /\ phase' = "abandoned"
    /\ UNCHANGED <<guardVars, sent, received, ending, audits>>

Source == \E c \in Chunks : sent + c <= MaxLength /\ (Coalesce(c) \/ PullChunk(c) \/ PullObserved(c))

Iterate == Source \/ FeedRest \/ FinishStream \/ SourceFails \/ ResolveFails

Next == Iterate \/ Abandon

Spec == Init /\ [][Next]_vars

----------------------------------------------------------------------------
(* A stream that comes to its end, or to a block, or breaks off, is        *)
(* recorded once, however it was coalesced; and until it is recorded the   *)
(* last of it, as much as the hold-back, has not been shown.  (Not in      *)
(* shadow mode, which shows everything at once.)                           *)
LastPieceIsOnRecord ==
    /\ phase \in {"ended", "blocked", "failed"} => audits = 1
    /\ audits = 0 /\ ~Shadow =>
          \A i \in DOMAIN received : received[i] < Greater(0, produced - Holdback)

(* What the hold-back was made for: no finding, and no word that is looked *)
(* for, is longer; nor a word than what is tokenized again with a chunk.   *)
Fits ==
    /\ \A f \in Findings \cup text.words : Length(f) <= Holdback
    /\ \A w \in text.words : Length(w) <= Lookback

(* Coalescing and cutting lose nothing: a stream that ends unblocked has   *)
(* been scanned to its last character, and the caller has what the         *)
(* buffered scan of the whole response returns; in shadow mode, whatever   *)
(* the guard found, it has what the model wrote.                           *)
EndedIsWhole ==
    phase = "ended" =>
        IF Shadow
        THEN received = [i \in 1..sent |-> i - 1]
        ELSE Fits => produced = sent /\ received = Buffered(sent)

(* ... which is every character outside the findings that are redacted or  *)
(* removed, once and in order, and no other.                               *)
RedactedExactly ==
    phase = "ended" /\ ~Shadow /\ Fits =>
        SelectSeq(received, LAMBDA c : c # Marker) =
        SelectSeq([i \in 1..sent |-> i - 1],
                  LAMBDA c : \A f \in Whole(sent) : f.kind \in {"pii", "neutralize"} => ~Covers(f, c))

(* A stream is blocked exactly when the buffered scan of what the model    *)
(* produced would block.                                                   *)
VerdictIsBuffered ==
    /\ reason # "none" => BufferedBlocks(produced)
    /\ phase = "ended" /\ ~Shadow /\ Fits => ~BufferedBlocks(sent)

=============================================================================
