---------------------------- MODULE MediaScanner ----------------------------
(***************************************************************************)
(* MediaScanner of services/media_guard.py: the extractors of a payload    *)
(* run concurrently, each under a timeout; a synchronous one needs a       *)
(* worker of the thread pool all scans of the process share, and keeps it  *)
(* until it returns, whoever still waits for it.                           *)
(*                                                                         *)
(* An extractor recovers hostile text or none, raises, or never returns.   *)
(* The event loop and the pool keep up: an answer or a timeout is handled, *)
(* and an idle worker has taken a job, before the clock moves on.  Scores  *)
(* are 0 and 1, and 1 is at the threshold.                                 *)
(***************************************************************************)
EXTENDS Integers, FiniteSets, SequencesExt

CONSTANTS
    Scans,      \* calls of scan()
    Sync,       \* extractors that run in the pool
    Async,      \* extractors that are awaited
    Workers,    \* workers of the executor
    ExtractorTimeout,   \* extractor_timeout_seconds
    Horizon     \* bound: horizon of the clock

ASSUME ScannerAssumption ==
    /\ Sync \cap Async = {} /\ IsFiniteSet(Sync) /\ IsFiniteSet(Async)
    /\ Workers \in Nat \ {0} /\ ExtractorTimeout \in Nat \ {0} /\ Horizon \in Nat

VARIABLES
    clock,
    scans,     \* the calls
    queue,     \* jobs no worker has taken yet, in the order of submission
    running    \* jobs in a worker

mediaVars == <<clock, scans, queue, running>>

Extractors == Sync \cup Async

Answers == {"hostile", "clean", "raised"}

NotYet == [pc |-> "not yet"]

MediaInit ==
    /\ clock = 0
    /\ scans = [s \in Scans |-> NotYet]
    /\ queue = <<>>
    /\ running = {}

Awaiting(s, e) == scans[s].pc = "scanning" /\ scans[s].outcome[e] = "waiting"

Due(s) == scans[s].since + ExtractorTimeout <= clock

----------------------------------------------------------------------------
(* A payload over max_payload_bytes is refused unread.                     *)
Refuse(s) ==
    /\ scans[s] = NotYet
    /\ scans' = [scans EXCEPT ![s] = [pc |-> "done", risk |-> 1, blocked |-> TRUE,
                                      oversized |-> TRUE, errors |-> {}]]
    /\ UNCHANGED <<clock, queue, running>>

(* scan: every extractor is started; a synchronous one is submitted.       *)
Start(s) ==
    /\ scans[s] = NotYet /\ clock + ExtractorTimeout <= Horizon
    /\ scans' = [scans EXCEPT ![s] = [pc |-> "scanning", since |-> clock,
                                      outcome |-> [e \in Extractors |-> "waiting"]]]
    /\ queue' = queue \o SetToSeq({[scan |-> s, extractor |-> e] : e \in Sync})
    /\ UNCHANGED <<clock, running>>

(* The executor.                                                           *)
Take ==
    /\ queue # <<>> /\ Cardinality(running) < Workers
    /\ running' = running \cup {Head(queue)}
    /\ queue' = Tail(queue)
    /\ UNCHANGED <<clock, scans>>

(* The answer of an extractor that is no longer waited for is dropped.     *)
Recorded(s, e, answer) ==
    IF Awaiting(s, e) THEN [scans EXCEPT ![s].outcome[e] = answer] ELSE scans

(* run_unbounded, of a synchronous extractor.                              *)
Return(job) ==
    /\ job \in running
    /\ running' = running \ {job}
    /\ \E answer \in Answers : scans' = Recorded(job.scan, job.extractor, answer)
    /\ UNCHANGED <<clock, queue>>

(* run_unbounded, of an asynchronous one.                                  *)
Extracted(s, e) ==
    /\ e \in Async /\ Awaiting(s, e)
    /\ \E answer \in Answers : scans' = Recorded(s, e, answer)
    /\ UNCHANGED <<clock, queue, running>>

(* Mutant: only what no worker has taken can be given up.                  *)
TimeOut_Queued(s, e) ==
    /\ Awaiting(s, e) /\ Due(s) /\ [scan |-> s, extractor |-> e] \notin running
    /\ scans' = [scans EXCEPT ![s].outcome[e] = "timed out"]
    /\ queue' = SelectSeq(queue, LAMBDA job : job # [scan |-> s, extractor |-> e])
    /\ UNCHANGED <<clock, running>>

(* run: wait_for gives up, and cancels the job if it is still queued.      *)
TimeOut(s, e) ==
    /\ Awaiting(s, e) /\ Due(s)
    /\ scans' = [scans EXCEPT ![s].outcome[e] = "timed out"]
    /\ queue' = SelectSeq(queue, LAMBDA job : job # [scan |-> s, extractor |-> e])
    /\ UNCHANGED <<clock, running>>

(* Mutant: gather() raises the first error.                                *)
ScanResult_First(outcome) ==
    LET errors == {e \in Extractors : outcome[e] \in {"raised", "timed out"}}
        risk   == IF errors = {} /\ \E e \in Extractors : outcome[e] = "hostile" THEN 1 ELSE 0
    IN  [pc |-> "done", risk |-> risk, blocked |-> risk = 1, oversized |-> FALSE, errors |-> errors]

(* Risk is the highest score there is, and 0 without any.                  *)
ScanResult(outcome) ==
    LET risk == IF \E e \in Extractors : outcome[e] = "hostile" THEN 1 ELSE 0
    IN  [pc |-> "done", risk |-> risk, blocked |-> risk = 1, oversized |-> FALSE,
         errors |-> {e \in Extractors : outcome[e] \in {"raised", "timed out"}}]

(* gather has every outcome: what was recovered is scored.                 *)
Gather(s) ==
    /\ scans[s].pc = "scanning" /\ \A e \in Extractors : ~Awaiting(s, e)
    /\ scans' = [scans EXCEPT ![s] = ScanResult(scans[s].outcome)]
    /\ UNCHANGED <<clock, queue, running>>

(* No scan waits beyond its timeout.                                       *)
MediaTick ==
    /\ clock < Horizon
    /\ \A s \in Scans : scans[s].pc = "scanning" => ~Due(s)
    /\ queue = <<>> \/ Cardinality(running) = Workers
    /\ clock' = clock + 1
    /\ UNCHANGED <<scans, queue, running>>

MediaNext ==
    \/ \E s \in Scans : Refuse(s) \/ Start(s) \/ Gather(s)
    \/ \E s \in Scans, e \in Extractors : Extracted(s, e) \/ TimeOut(s, e)
    \/ \E job \in running : Return(job)
    \/ Take
    \/ MediaTick

(* Fair are the event loop and the pool, and time passes: an extractor     *)
(* need never answer.                                                      *)
Fairness ==
    /\ WF_mediaVars(MediaTick) /\ WF_mediaVars(Take)
    /\ \A s \in Scans : WF_mediaVars(Gather(s))
    /\ \A s \in Scans, e \in Extractors : WF_mediaVars(TimeOut(s, e))

MediaSpec == MediaInit /\ [][MediaNext]_mediaVars

FairMediaSpec == MediaSpec /\ Fairness

----------------------------------------------------------------------------
(* "Each extractor is now bounded on its own": whatever hangs, a scan that *)
(* was begun returns.                                                      *)
ScansReturn == \A s \in Scans : scans[s].pc = "scanning" ~> scans[s].pc = "done"

(* "one that times out is reported in extractor_errors and the others      *)
(* still count": a scan that ends blocks on hostile text exactly if an     *)
(* extractor recovered some while it was waited for.                       *)
TheOthersCount ==
    [][\A s \in Scans : scans'[s].pc = "done" /\ scans[s].pc = "scanning" =>
           (scans'[s].blocked <=> \E e \in Extractors : scans[s].outcome[e] = "hostile")]_mediaVars

=============================================================================
