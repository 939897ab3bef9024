------------------------ MODULE RequestPipeline_proofs ------------------------
(* What TLC checks of RequestPipeline on small instances, proved for every *)
(* value of its constants: any number of calls, sessions and deployments,  *)
(* any scores, thresholds and budgets, whatever fails.                     *)
EXTENDS RequestPipeline, FiniteSetTheorems, TLAPS

(* The round trips of a kind of call, and the two it may be sent to out of *)
(* their order.                                                            *)
Positions ==
    [input    |-> {"request", "detect", "session", "actor", "audit", "done"},
     external |-> {"detect", "audit", "session", "actor", "done"},
     batch    |-> {"audit", "session", "actor", "done"},
     media    |-> {"detect", "session", "actor", "audit", "done"},
     tool     |-> {"budget", "arguments", "authorize", "invoke", "allow", "detect", "audit",
                   "session", "actor", "result", "denial", "done"},
     output   |-> {"reply", "done"},
     chat     |-> {"request", "detect", "session", "actor", "audit", "model", "reply", "done"},
     followup |-> {"model", "reply", "done"},
     retrieve |-> {"audit", "session", "actor", "verify", "unverified", "done"}]

(* What comes after a round trip of a kind of call.                        *)
Follows ==
    [input    |-> [request |-> "detect", detect |-> "session", session |-> "actor",
                   actor |-> "audit", audit |-> "done"],
     external |-> [detect |-> "audit", audit |-> "session", session |-> "actor",
                   actor |-> "done"],
     batch    |-> [audit |-> "session", session |-> "actor", actor |-> "done"],
     media    |-> [detect |-> "session", session |-> "actor", actor |-> "audit",
                   audit |-> "done"],
     tool     |-> [budget |-> "arguments", arguments |-> "authorize", authorize |-> "invoke",
                   invoke |-> "allow", allow |-> "detect", detect |-> "audit",
                   audit |-> "session", session |-> "actor", actor |-> "result",
                   result |-> "done"],
     output   |-> [reply |-> "done"],
     chat     |-> [request |-> "detect", detect |-> "session", session |-> "actor",
                   actor |-> "audit", audit |-> "model", model |-> "reply", reply |-> "done"],
     followup |-> [model |-> "reply", reply |-> "done"],
     retrieve |-> [audit |-> "session", session |-> "actor", actor |-> "verify",
                   verify |-> "done"]]

Outcomes == {"none", "allowed", "blocked", "rate_limited", "denied", "failed", "unavailable"}

ResultType == [limited : BOOLEAN, score : Nat, flagged : BOOLEAN, ran : BOOLEAN,
               skipped : SUBSET Operations, reply : Replies \cup {"none", "raw"},
               outcome : Outcomes]

StoreType == [requests : [Sessions -> Nat], tools : [Sessions -> Nat],
              risk : [Keys -> Nat], flag : [Keys -> BOOLEAN]]

(* What a call, with input i, next at step and told r so far, has been     *)
(* through: its outcome is open until the last round trip but a denial's.  *)
OutcomeInv(step, r) ==
    /\ step \notin {"done", "denial"} => r.outcome = "none"
    /\ step = "denial" => r.outcome \in {"denied", "failed", "unavailable"}

(* A tool runs once the budget has let it; from then on the score is at    *)
(* least what has been scanned of its result.                              *)
ToolInv(d, i, step, r) ==
    i.kind = "tool" =>
        /\ step \in {"budget", "arguments", "authorize", "invoke"} => ~r.ran
        /\ step \in {"allow", "detect"} => r.score = i.lexical
        /\ step \in {"audit", "session", "actor", "result"} =>
              /\ r.score >= i.lexical
              /\ r.score >= i.semantic \/ "detector" \in r.skipped
        /\ step = "done" /\ r.outcome = "allowed" /\ Enforced(d) =>
              /\ i.lexical < InputThreshold
              /\ i.semantic < InputThreshold \/ "detector" \in r.skipped

(* A retrieved document keeps the score of its scan, and is verified last. *)
RetrieveInv(i, step, r) ==
    i.kind = "retrieve" =>
        /\ step # "done" => r.score = i.lexical
        /\ step = "done" /\ r.outcome = "allowed" =>
              /\ i.lexical < InputThreshold
              /\ i.allowed \/ "provenance" \in r.skipped

(* The model is called last but one.                                       *)
ModelInv(i, step, r) ==
    i.kind \in {"chat", "followup"} /\ step \notin {"reply", "done"} => ~r.ran

Judgement(step, r) == step = "done" /\ r.outcome \in {"allowed", "blocked"}

(* The steps past the record of the scan, by kind of call.                 *)
Scanned == [input |-> {}, media |-> {}, external |-> {"session", "actor"},
            batch |-> {"session", "actor"}, chat |-> {"model", "reply"},
            retrieve |-> {"session", "actor", "verify", "unverified"}]

RecordInv(c, i, step, r, records) ==
    /\ i.kind = "tool" /\ (\/ step \in {"detect", "audit", "session", "actor", "result"}
                           \/ Judgement(step, r)) =>
          [call |-> c, event |-> "allowed"] \in records
    /\ i.kind \in DOMAIN Scanned /\ (step \in Scanned[i.kind] \/ Judgement(step, r)) =>
          [call |-> c, event |-> ScanEvent[i.kind]] \in records
    /\ i.kind \in Replying /\ Judgement(step, r) /\ (i.kind = "output" \/ r.ran) =>
          [call |-> c, event |-> "output_scan"] \in records

(* The parts of the invariant of one call in one deployment.               *)
CallOK(strict, d, c, i, step, r, records) ==
    /\ i \in Inputs /\ step \in Positions[i.kind] /\ r \in ResultType
    /\ OutcomeInv(step, r)
    /\ ToolInv(d, i, step, r)
    /\ RetrieveInv(i, step, r)
    /\ ModelInv(i, step, r)
    /\ strict => RecordInv(c, i, step, r, records)

Events == {"input_scan", "external_content_scan", "media_scan", "allowed", "denied", "would_deny",
           "tool_result", "output_scan", "retrieval_provenance"}

Stages == {"idle", "request", "detect", "session", "actor", "audit", "budget", "arguments",
           "authorize", "invoke", "allow", "result", "denial", "model", "reply", "verify",
           "unverified", "done"}

TypeInv ==
    /\ closed \subseteq Operations
    /\ pc \in [Deployments -> [Calls -> Stages]]
    /\ got \in [Deployments -> [Calls -> ResultType]]
    /\ store \in [Deployments -> StoreType]
    /\ input \in [Calls -> Inputs \cup {NoInput}]
    /\ log \in [Deployments -> SUBSET [call : Calls, event : Events]]

(* Nothing goes unrecorded.                                                *)
Strict == "audit" \in closed

CallsInv ==
    \A d \in Deployments, c \in Calls :
        IF input[c] = NoInput THEN pc[d][c] = "idle" /\ got[d][c] = NoResult
        ELSE CallOK(Strict, d, c, input[c], pc[d][c], got[d][c], log[d])

(* The tool calls of a session that its budget has let through: those that *)
(* have run, or may yet.                                                   *)
Passed(d, s) ==
    {c \in Calls : /\ input[c] # NoInput
                   /\ input[c].kind = "tool" /\ input[c].session = s
                   /\ got[d][c].ran \/ pc[d][c] \notin {"budget", "done"}
                   /\ "rate_limit" \notin got[d][c].skipped}

BudgetInv ==
    \A d \in Deployments, s \in Sessions :
        /\ Cardinality(Passed(d, s)) <= store[d].tools[s]
        /\ Cardinality(Passed(d, s)) <= ToolBudget

PipelineInv == TypeInv /\ CallsInv /\ BudgetInv

(* A step that occurs once in the order of its kind is followed by the     *)
(* next, or by the end.                                                    *)
LEMMA AfterIsNext ==
    ASSUME NEW c, NEW i \in DOMAIN Steps[Kind(c)],
           \A j \in DOMAIN Steps[Kind(c)] : Steps[Kind(c)][j] = Steps[Kind(c)][i] => j = i
    PROVE  After(c, Steps[Kind(c)][i]) =
               IF i = Len(Steps[Kind(c)]) THEN "done" ELSE Steps[Kind(c)][i + 1]
<1> DEFINE at == CHOOSE j \in DOMAIN Steps[Kind(c)] : Steps[Kind(c)][j] = Steps[Kind(c)][i]
<1>1. at = i
  OBVIOUS
<1>2. After(c, Steps[Kind(c)][i]) =
          IF at = Len(Steps[Kind(c)]) THEN "done" ELSE Steps[Kind(c)][at + 1]
  BY Zenon DEF After
<1> HIDE DEF at
<1> QED BY <1>1, <1>2

(* The order of the round trips, of every kind of call.                    *)
LEMMA AfterFollows ==
    ASSUME NEW c, Kind(c) \in DOMAIN Positions,
           NEW step \in Positions[Kind(c)] \ {"done", "denial", "unverified"}
    PROVE  After(c, step) = Follows[Kind(c)][step]
<1>1. CASE Kind(c) = "input"
  <2> DEFINE steps == <<"request", "detect", "session", "actor", "audit">>
  <2>1. Steps[Kind(c)] = steps
    BY <1>1 DEF Steps
  <2>2. DOMAIN steps = 1..5 /\ Len(steps) = 5
    OBVIOUS
  <2>3. steps[1] = "request" /\ steps[2] = "detect" /\ steps[3] = "session" /\ steps[4] = "actor" /\ steps[5] = "audit"
    OBVIOUS
  <2> HIDE DEF steps
  <2>4. PICK i \in 1..5 : step = steps[i]
    BY <1>1, <2>3 DEF Positions
  <2>5. \A j \in DOMAIN steps : steps[j] = steps[i] => j = i
    BY <2>2, <2>3
  <2>6. After(c, steps[i]) = IF i = 5 THEN "done" ELSE steps[i + 1]
    BY <2>1, <2>2, <2>5, AfterIsNext
  <2> QED BY <1>1, <2>3, <2>4, <2>6 DEF Follows
<1>2. CASE Kind(c) = "external"
  <2> DEFINE steps == <<"detect", "audit", "session", "actor">>
  <2>1. Steps[Kind(c)] = steps
    BY <1>2 DEF Steps
  <2>2. DOMAIN steps = 1..4 /\ Len(steps) = 4
    OBVIOUS
  <2>3. steps[1] = "detect" /\ steps[2] = "audit" /\ steps[3] = "session" /\ steps[4] = "actor"
    OBVIOUS
  <2> HIDE DEF steps
  <2>4. PICK i \in 1..4 : step = steps[i]
    BY <1>2, <2>3 DEF Positions
  <2>5. \A j \in DOMAIN steps : steps[j] = steps[i] => j = i
    BY <2>2, <2>3
  <2>6. After(c, steps[i]) = IF i = 4 THEN "done" ELSE steps[i + 1]
    BY <2>1, <2>2, <2>5, AfterIsNext
  <2> QED BY <1>2, <2>3, <2>4, <2>6 DEF Follows
<1>3. CASE Kind(c) = "batch"
  <2> DEFINE steps == <<"audit", "session", "actor">>
  <2>1. Steps[Kind(c)] = steps
    BY <1>3 DEF Steps
  <2>2. DOMAIN steps = 1..3 /\ Len(steps) = 3
    OBVIOUS
  <2>3. steps[1] = "audit" /\ steps[2] = "session" /\ steps[3] = "actor"
    OBVIOUS
  <2> HIDE DEF steps
  <2>4. PICK i \in 1..3 : step = steps[i]
    BY <1>3, <2>3 DEF Positions
  <2>5. \A j \in DOMAIN steps : steps[j] = steps[i] => j = i
    BY <2>2, <2>3
  <2>6. After(c, steps[i]) = IF i = 3 THEN "done" ELSE steps[i + 1]
    BY <2>1, <2>2, <2>5, AfterIsNext
  <2> QED BY <1>3, <2>3, <2>4, <2>6 DEF Follows
<1>4. CASE Kind(c) = "media"
  <2> DEFINE steps == <<"detect", "session", "actor", "audit">>
  <2>1. Steps[Kind(c)] = steps
    BY <1>4 DEF Steps
  <2>2. DOMAIN steps = 1..4 /\ Len(steps) = 4
    OBVIOUS
  <2>3. steps[1] = "detect" /\ steps[2] = "session" /\ steps[3] = "actor" /\ steps[4] = "audit"
    OBVIOUS
  <2> HIDE DEF steps
  <2>4. PICK i \in 1..4 : step = steps[i]
    BY <1>4, <2>3 DEF Positions
  <2>5. \A j \in DOMAIN steps : steps[j] = steps[i] => j = i
    BY <2>2, <2>3
  <2>6. After(c, steps[i]) = IF i = 4 THEN "done" ELSE steps[i + 1]
    BY <2>1, <2>2, <2>5, AfterIsNext
  <2> QED BY <1>4, <2>3, <2>4, <2>6 DEF Follows
<1>5. CASE Kind(c) = "tool"
  <2> DEFINE steps == <<"budget", "arguments", "authorize", "invoke", "allow", "detect", "audit", "session", "actor", "result">>
  <2>1. Steps[Kind(c)] = steps
    BY <1>5 DEF Steps
  <2>2. DOMAIN steps = 1..10 /\ Len(steps) = 10
    OBVIOUS
  <2>3. steps[1] = "budget" /\ steps[2] = "arguments" /\ steps[3] = "authorize" /\ steps[4] = "invoke" /\ steps[5] = "allow" /\ steps[6] = "detect" /\ steps[7] = "audit" /\ steps[8] = "session" /\ steps[9] = "actor" /\ steps[10] = "result"
    OBVIOUS
  <2> HIDE DEF steps
  <2>4. PICK i \in 1..10 : step = steps[i]
    BY <1>5, <2>3 DEF Positions
  <2>5. \A j \in DOMAIN steps : steps[j] = steps[i] => j = i
    BY <2>2, <2>3
  <2>6. After(c, steps[i]) = IF i = 10 THEN "done" ELSE steps[i + 1]
    BY <2>1, <2>2, <2>5, AfterIsNext
  <2> QED BY <1>5, <2>3, <2>4, <2>6 DEF Follows
<1>6. CASE Kind(c) = "output"
  <2> DEFINE steps == <<"reply">>
  <2>1. Steps[Kind(c)] = steps
    BY <1>6 DEF Steps
  <2>2. DOMAIN steps = 1..1 /\ Len(steps) = 1
    OBVIOUS
  <2>3. steps[1] = "reply"
    OBVIOUS
  <2> HIDE DEF steps
  <2>4. PICK i \in 1..1 : step = steps[i]
    BY <1>6, <2>3 DEF Positions
  <2>5. \A j \in DOMAIN steps : steps[j] = steps[i] => j = i
    BY <2>2, <2>3
  <2>6. After(c, steps[i]) = IF i = 1 THEN "done" ELSE steps[i + 1]
    BY <2>1, <2>2, <2>5, AfterIsNext
  <2> QED BY <1>6, <2>3, <2>4, <2>6 DEF Follows
<1>7. CASE Kind(c) = "chat"
  <2> DEFINE steps == <<"request", "detect", "session", "actor", "audit", "model", "reply">>
  <2>1. Steps[Kind(c)] = steps
    BY <1>7 DEF Steps
  <2>2. DOMAIN steps = 1..7 /\ Len(steps) = 7
    OBVIOUS
  <2>3. steps[1] = "request" /\ steps[2] = "detect" /\ steps[3] = "session" /\ steps[4] = "actor" /\ steps[5] = "audit" /\ steps[6] = "model" /\ steps[7] = "reply"
    OBVIOUS
  <2> HIDE DEF steps
  <2>4. PICK i \in 1..7 : step = steps[i]
    BY <1>7, <2>3 DEF Positions
  <2>5. \A j \in DOMAIN steps : steps[j] = steps[i] => j = i
    BY <2>2, <2>3
  <2>6. After(c, steps[i]) = IF i = 7 THEN "done" ELSE steps[i + 1]
    BY <2>1, <2>2, <2>5, AfterIsNext
  <2> QED BY <1>7, <2>3, <2>4, <2>6 DEF Follows
<1>8. CASE Kind(c) = "followup"
  <2> DEFINE steps == <<"model", "reply">>
  <2>1. Steps[Kind(c)] = steps
    BY <1>8 DEF Steps
  <2>2. DOMAIN steps = 1..2 /\ Len(steps) = 2
    OBVIOUS
  <2>3. steps[1] = "model" /\ steps[2] = "reply"
    OBVIOUS
  <2> HIDE DEF steps
  <2>4. PICK i \in 1..2 : step = steps[i]
    BY <1>8, <2>3 DEF Positions
  <2>5. \A j \in DOMAIN steps : steps[j] = steps[i] => j = i
    BY <2>2, <2>3
  <2>6. After(c, steps[i]) = IF i = 2 THEN "done" ELSE steps[i + 1]
    BY <2>1, <2>2, <2>5, AfterIsNext
  <2> QED BY <1>8, <2>3, <2>4, <2>6 DEF Follows
<1>9. CASE Kind(c) = "retrieve"
  <2> DEFINE steps == <<"audit", "session", "actor", "verify">>
  <2>1. Steps[Kind(c)] = steps
    BY <1>9 DEF Steps
  <2>2. DOMAIN steps = 1..4 /\ Len(steps) = 4
    OBVIOUS
  <2>3. steps[1] = "audit" /\ steps[2] = "session" /\ steps[3] = "actor" /\ steps[4] = "verify"
    OBVIOUS
  <2> HIDE DEF steps
  <2>4. PICK i \in 1..4 : step = steps[i]
    BY <1>9, <2>3 DEF Positions
  <2>5. \A j \in DOMAIN steps : steps[j] = steps[i] => j = i
    BY <2>2, <2>3
  <2>6. After(c, steps[i]) = IF i = 4 THEN "done" ELSE steps[i + 1]
    BY <2>1, <2>2, <2>5, AfterIsNext
  <2> QED BY <1>9, <2>3, <2>4, <2>6 DEF Follows
<1> QED BY <1>1, <1>2, <1>3, <1>4, <1>5, <1>6, <1>7, <1>8, <1>9 DEF Positions
----------------------------------------------------------------------------
(* Changing one field of a result.                                         *)
LEMMA ResultFields ==
    ASSUME NEW r \in ResultType
    PROVE  /\ \A o \in Outcomes : LET q == [r EXCEPT !.outcome = o]
                                  IN  /\ q \in ResultType /\ q.outcome = o /\ q.score = r.score
                                      /\ q.ran = r.ran /\ q.skipped = r.skipped
           /\ \A n \in Nat : LET q == [r EXCEPT !.score = n]
                             IN  /\ q \in ResultType /\ q.outcome = r.outcome /\ q.score = n
                                 /\ q.ran = r.ran /\ q.skipped = r.skipped
           /\ \A S \in SUBSET Operations :
                             LET q == [r EXCEPT !.skipped = @ \cup S]
                             IN  /\ q \in ResultType /\ q.outcome = r.outcome
                                 /\ q.score = r.score /\ q.ran = r.ran
                                 /\ q.skipped = r.skipped \cup S
           /\ \A b \in BOOLEAN : LET q == [r EXCEPT !.ran = b]
                                 IN  /\ q \in ResultType /\ q.outcome = r.outcome
                                     /\ q.score = r.score /\ q.ran = b /\ q.skipped = r.skipped
           /\ \A b \in BOOLEAN : LET q == [r EXCEPT !.limited = b]
                                 IN  /\ q \in ResultType /\ q.outcome = r.outcome
                                     /\ q.score = r.score /\ q.ran = r.ran /\ q.skipped = r.skipped
           /\ \A b \in BOOLEAN : LET q == [r EXCEPT !.flagged = b]
                                 IN  /\ q \in ResultType /\ q.outcome = r.outcome
                                     /\ q.score = r.score /\ q.ran = r.ran /\ q.skipped = r.skipped
           /\ \A t \in Replies \cup {"none", "raw"} :
                             LET q == [r EXCEPT !.reply = t]
                             IN  /\ q \in ResultType /\ q.outcome = r.outcome
                                 /\ q.score = r.score /\ q.ran = r.ran /\ q.skipped = r.skipped
BY DEF ResultType

(* An input is of one of the nine kinds.                                   *)
LEMMA InputFields ==
    ASSUME NEW i \in Inputs
    PROVE  /\ i.kind \in DOMAIN Positions /\ i.session \in Sessions
           /\ i.lexical \in Nat /\ i.semantic \in Nat /\ i.allowed \in BOOLEAN
           /\ i # NoInput /\ i.reply \in Replies \cup {"none"}
           /\ i.kind \in Replying => i.reply \in Replies
<1>1. i \in [kind : Kinds, session : Sessions, lexical : Scores, semantic : DetectorScores,
             exfil : BOOLEAN, allowed : BOOLEAN, reply : Replies \cup {"none"}]
  BY DEF Inputs
<1>2. i.kind \in Replying <=> i.reply # "none"
  BY DEF Inputs
<1>3. i.kind \in DOMAIN Positions
  BY <1>1, PipelineAssumption DEF Positions
<1>4. i # NoInput
  BY <1>3 DEF NoInput, Positions
<1> QED BY <1>1, <1>2, <1>3, <1>4, PipelineAssumption

(* A call that ends, or is denied, with an exception owes nothing more.    *)
LEMMA ExceptionIsOK ==
    ASSUME NEW strict \in BOOLEAN, NEW d, NEW c, NEW i \in Inputs, NEW r \in ResultType,
           NEW records, NEW o \in {"rate_limited", "denied", "failed", "unavailable"}
    PROVE  /\ CallOK(strict, d, c, i, "done", [r EXCEPT !.outcome = o], records)
           /\ i.kind = "tool" /\ o # "rate_limited" =>
                CallOK(strict, d, c, i, "denial", [r EXCEPT !.outcome = o], records)
<1> DEFINE q == [r EXCEPT !.outcome = o]
<1>1. q \in ResultType /\ q.outcome = o
  <2>1. o \in Outcomes
    BY DEF Outcomes
  <2> QED BY <2>1, ResultFields
<1>2. i.kind \in DOMAIN Positions
  BY InputFields
<1> HIDE DEF q
<1>3. "done" \in Positions[i.kind] /\ "denial" \in Positions["tool"]
  BY <1>2 DEF Positions
<1>4. /\ ~Judgement("done", q) /\ ~Judgement("denial", q)
      /\ i.kind \in DOMAIN Scanned => "done" \notin Scanned[i.kind]
      /\ "tool" \notin DOMAIN Scanned /\ "tool" \notin Replying
  <2>1. ~Judgement("done", q) /\ ~Judgement("denial", q)
    BY <1>1 DEF Judgement
  <2>2. \A k \in DOMAIN Scanned : "done" \notin Scanned[k]
    BY DEF Scanned
  <2>3. "tool" \notin DOMAIN Scanned
    BY DEF Scanned
  <2>4. "tool" \notin Replying
    BY DEF Replying
  <2> QED BY <2>1, <2>2, <2>3, <2>4
<1>5. CallOK(strict, d, c, i, "done", q, records)
  BY <1>1, <1>2, <1>3, <1>4 DEF CallOK, OutcomeInv, ToolInv, RetrieveInv, ModelInv, RecordInv
<1>6. i.kind = "tool" /\ o # "rate_limited" => CallOK(strict, d, c, i, "denial", q, records)
  BY <1>1, <1>2, <1>3, <1>4 DEF CallOK, OutcomeInv, ToolInv, RetrieveInv, ModelInv, RecordInv
<1> QED BY <1>5, <1>6 DEF q

(* One call moves, in one deployment, and its invariant is kept.           *)
Moved(d, c, step, r) ==
    /\ pc' = [pc EXCEPT ![d][c] = step]
    /\ got' = [got EXCEPT ![d][c] = r]

Kept(d, c) ==
    \E step, r :
        /\ Moved(d, c, step, r)
        /\ CallOK(Strict, d, c, input[c], step, r, log'[d])
        /\ got[d][c].skipped \subseteq r.skipped
        /\ step # "budget"

(* A call is at a step, as the invariant has it.                           *)
At(d, c, step) ==
    /\ TypeInv /\ d \in Deployments /\ c \in Calls /\ input[c] \in Inputs
    /\ pc[d][c] = step
    /\ CallOK(Strict, d, c, input[c], step, got[d][c], log[d])

(* What is next after a step is all right with result r.                   *)
Goes(strict, d, c, i, step, r, records) ==
    LET next == Follows[i.kind][step]
    IN  IF next = "done" /\ i.kind # "tool"
        THEN \A o \in {"allowed", "blocked"} :
                (o = "allowed" /\ i.kind \notin {"input", "chat"} => r.score < InputThreshold) =>
                    CallOK(strict, d, c, i, "done", [r EXCEPT !.outcome = o], records)
        ELSE CallOK(strict, d, c, i, next, r, records)

(* A call that goes on to its next round trip keeps what it must.          *)
LEMMA ProceedKeeps ==
    ASSUME NEW d, NEW c, NEW step, At(d, c, step), step \notin {"done", "denial", "unverified"},
           NEW r \in ResultType, Proceed(d, c, r), got[d][c].skipped \subseteq r.skipped,
           Goes(Strict, d, c, input[c], step, r, log'[d])
    PROVE  Kept(d, c)
<1> DEFINE kind == input[c].kind
           next == Follows[kind][step]
           o    == Judged(d, c, r)
           q    == IF next = "done" /\ kind # "tool" THEN [r EXCEPT !.outcome = o] ELSE r
<1>1. /\ pc[d][c] = step /\ Kind(c) = kind
      /\ kind \in DOMAIN Positions /\ step \in Positions[kind] \ {"done", "denial", "unverified"}
  BY InputFields DEF At, CallOK, Kind
<1>2. After(c, step) = next
  BY <1>1, AfterFollows
<1>3. Moved(d, c, next, q)
  BY <1>1, <1>2 DEF Proceed, Moved
<1>4. o \in {"allowed", "blocked"}
  BY DEF Judged
<1>5. o = "allowed" /\ kind \notin {"input", "chat"} => r.score < InputThreshold
  BY <1>1, PipelineAssumption DEF Judged, Would, Turn, ResultType
<1>6. next # "budget"
  BY <1>1 DEF Follows, Positions
<1>7. CASE next = "done" /\ kind # "tool"
  <2>1. q = [r EXCEPT !.outcome = o]
    BY <1>7
  <2>2. CallOK(Strict, d, c, input[c], next, q, log'[d])
    BY <1>4, <1>5, <1>7, <2>1 DEF Goes
  <2>3. q.skipped = r.skipped
    BY <2>1, <1>4 DEF ResultType
  <2> HIDE DEF q, next, o
  <2> QED BY <1>3, <1>6, <2>2, <2>3 DEF Kept
<1>8. CASE ~(next = "done" /\ kind # "tool")
  <2>1. q = r
    BY <1>8
  <2>2. CallOK(Strict, d, c, input[c], next, q, log'[d])
    BY <1>8, <2>1 DEF Goes
  <2> HIDE DEF q, next, o
  <2> QED BY <1>3, <1>6, <2>1, <2>2 DEF Kept
<1> QED BY <1>7, <1>8

(* An exception ends the call, or has it denied.                           *)
LEMMA EndKeeps ==
    ASSUME NEW d, NEW c, NEW step, At(d, c, step), NEW r \in ResultType,
           got[d][c].skipped \subseteq r.skipped,
           NEW o \in {"rate_limited", "denied", "failed", "unavailable"}, End(d, c, r, o)
    PROVE  Kept(d, c)
<1>1. Moved(d, c, "done", [r EXCEPT !.outcome = o])
  BY DEF End, Moved
<1>2. CallOK(Strict, d, c, input[c], "done", [r EXCEPT !.outcome = o], log'[d])
  <2>1. Strict \in BOOLEAN /\ input[c] \in Inputs
    BY DEF At, Strict
  <2> QED BY <2>1, ExceptionIsOK
<1>3. [r EXCEPT !.outcome = o].skipped = r.skipped
  BY DEF ResultType
<1> QED BY <1>1, <1>2, <1>3 DEF Kept

(* A tool call that is refused, and goes on to the record of its denial.   *)
LEMMA RefuseKeeps ==
    ASSUME NEW d, NEW c, NEW step, At(d, c, step), NEW r \in ResultType,
           got[d][c].skipped \subseteq r.skipped, input[c].kind = "tool",
           NEW o \in {"denied", "failed", "unavailable"}, Refuse(d, c, r, o)
    PROVE  Kept(d, c)
<1>1. Moved(d, c, "denial", [r EXCEPT !.outcome = o])
  BY DEF Refuse, Moved
<1>2. CallOK(Strict, d, c, input[c], "denial", [r EXCEPT !.outcome = o], log'[d])
  <2>1. Strict \in BOOLEAN /\ input[c] \in Inputs
    BY DEF At, Strict
  <2> QED BY <2>1, ExceptionIsOK
<1>3. [r EXCEPT !.outcome = o].skipped = r.skipped
  BY DEF ResultType
<1> QED BY <1>1, <1>2, <1>3 DEF Kept

(* A call that ends with the error of a closed policy.                     *)
LEMMA RaiseKeeps ==
    ASSUME NEW d, NEW c, NEW step, At(d, c, step), Raise(d, c, got[d][c], "unavailable")
    PROVE  Kept(d, c)
<1>1. got[d][c] \in ResultType /\ pc[d][c] = step /\ step \in Positions[input[c].kind]
  BY DEF At, TypeInv, CallOK
<1>2. CASE step \in {"authorize", "invoke", "allow"}
  <2>1. input[c].kind = "tool"
    BY <1>1, <1>2, InputFields DEF At, Positions
  <2>2. Refuse(d, c, got[d][c], "unavailable")
    BY <1>1, <1>2 DEF Raise
  <2> QED BY <1>1, <2>1, <2>2, RefuseKeeps
<1>3. CASE step \notin {"authorize", "invoke", "allow"}
  BY <1>1, <1>3, EndKeeps DEF Raise
<1> QED BY <1>2, <1>3

(* r adds to q nothing but what was skipped.                               *)
Same(q, r) ==
    /\ r \in ResultType /\ q.skipped \subseteq r.skipped
    /\ r.outcome = q.outcome /\ r.ran = q.ran /\ r.score = q.score

(* Round trips that ask nothing of what comes after.                       *)
LEMMA PlainGoes ==
    ASSUME NEW strict \in BOOLEAN, NEW d, NEW c, NEW i \in Inputs,
           NEW step \in {"request", "budget", "arguments", "authorize", "session"},
           NEW q, NEW r, NEW records, CallOK(strict, d, c, i, step, q, records), Same(q, r)
    PROVE  Goes(strict, d, c, i, step, r, records)
<1> DEFINE next == Follows[i.kind][step]
<1>1. i.kind \in DOMAIN Positions /\ step \in Positions[i.kind] /\ q.outcome = "none"
  BY InputFields DEF CallOK, OutcomeInv
<1>2. /\ step = "request" => next = "detect"
      /\ step = "budget" => next = "arguments"
      /\ step = "arguments" => next = "authorize"
      /\ step = "authorize" => next = "invoke"
      /\ step = "session" => next = "actor"
  BY <1>1 DEF Follows, Positions
<1>3. next # "done" /\ next # "denial" /\ next \in Positions[i.kind]
  BY <1>1, <1>2 DEF Positions
<1> HIDE DEF next
<1>4. CallOK(strict, d, c, i, next, r, records)
  <2>1. r \in ResultType /\ r.outcome = "none"
    BY <1>1 DEF Same
  <2>2. OutcomeInv(next, r)
    BY <1>3, <2>1 DEF OutcomeInv
  <2>3. ToolInv(d, i, next, r)
    BY <1>1, <1>2, <1>3 DEF ToolInv, CallOK, Same, Positions
  <2>4. RetrieveInv(i, next, r)
    BY <1>1, <1>2, <1>3 DEF RetrieveInv, CallOK, Same
  <2>5. ModelInv(i, next, r)
    BY <1>1, <1>2, <1>3 DEF ModelInv, CallOK, Same
  <2>6. RecordInv(c, i, step, q, records) => RecordInv(c, i, next, r, records)
    BY <1>1, <1>2, <1>3, <2>1 DEF RecordInv, Judgement, Scanned, Positions
  <2> QED BY <1>3, <2>1, <2>2, <2>3, <2>4, <2>5, <2>6 DEF CallOK
<1> QED BY <1>3, <1>4 DEF Goes, next

(* The detectors raise the score, or have been skipped.                    *)
LEMMA DetectGoes ==
    ASSUME NEW strict \in BOOLEAN, NEW d, NEW c, NEW i \in Inputs,
           NEW q, NEW r \in ResultType, NEW records,
           CallOK(strict, d, c, i, "detect", q, records),
           q.skipped \subseteq r.skipped, r.outcome = q.outcome, r.ran = q.ran,
           \/ r.score = Merge(q.score, i.semantic)
           \/ r.score = q.score /\ "detector" \in r.skipped
    PROVE  Goes(strict, d, c, i, "detect", r, records)
<1> DEFINE next == Follows[i.kind]["detect"]
<1>1. /\ i.kind \in DOMAIN Positions /\ "detect" \in Positions[i.kind] /\ q.outcome = "none"
      /\ i.lexical \in Nat /\ i.semantic \in Nat
  BY InputFields DEF CallOK, OutcomeInv
<1>2. /\ i.kind \in {"input", "external", "media", "tool", "chat"}
      /\ i.kind \in {"external", "tool"} => next = "audit"
      /\ i.kind \in {"input", "media", "chat"} => next = "session"
  BY <1>1 DEF Follows, Positions
<1>3. next \in {"audit", "session"} /\ next \in Positions[i.kind]
  BY <1>2 DEF Positions
<1> HIDE DEF next
<1>4. CallOK(strict, d, c, i, next, r, records)
  <2>1. OutcomeInv(next, r)
    BY <1>1, <1>3 DEF OutcomeInv
  <2>2. ToolInv(d, i, next, r)
    BY <1>1, <1>2, <1>3 DEF ToolInv, CallOK, Merge, ResultType
  <2>3. RetrieveInv(i, next, r)
    BY <1>2 DEF RetrieveInv
  <2>4. ModelInv(i, next, r)
    BY <1>1, <1>2, <1>3 DEF ModelInv, CallOK
  <2>5. RecordInv(c, i, "detect", q, records) => RecordInv(c, i, next, r, records)
    BY <1>1, <1>2, <1>3 DEF RecordInv, Judgement, Scanned
  <2> QED BY <1>3, <2>1, <2>2, <2>3, <2>4, <2>5 DEF CallOK
<1> QED BY <1>3, <1>4 DEF Goes, next

(* The charge of the actor, the last of a call.                            *)
LEMMA ActorGoes ==
    ASSUME NEW strict \in BOOLEAN, NEW d, NEW c, NEW i \in Inputs,
           NEW q, NEW r, NEW records, CallOK(strict, d, c, i, "actor", q, records), Same(q, r)
    PROVE  Goes(strict, d, c, i, "actor", r, records)
<1> DEFINE next == Follows[i.kind]["actor"]
<1>1. /\ i.kind \in DOMAIN Positions /\ "actor" \in Positions[i.kind] /\ q.outcome = "none"
      /\ r \in ResultType /\ r.outcome = "none"
  BY InputFields DEF CallOK, OutcomeInv, Same
<1>2. /\ i.kind \in {"input", "external", "batch", "media", "tool", "chat", "retrieve"}
      /\ i.kind \in {"input", "media", "chat"} => next = "audit"
      /\ i.kind \in {"external", "batch"} => next = "done"
      /\ i.kind = "tool" => next = "result"
      /\ i.kind = "retrieve" => next = "verify"
  BY <1>1 DEF Follows, Positions
<1>3. next \in Positions[i.kind]
  BY <1>2 DEF Positions
<1> HIDE DEF next
<1>4. CASE next = "done"
  <2>1. i.kind \in {"external", "batch"}
    BY <1>2, <1>4
  <2>2. ASSUME NEW o \in {"allowed", "blocked"}
        PROVE  CallOK(strict, d, c, i, "done", [r EXCEPT !.outcome = o], records)
    <3>1. PICK p : p = [r EXCEPT !.outcome = o]
      OBVIOUS
    <3>2. p \in ResultType /\ p.outcome = o
      BY <1>1, <3>1 DEF ResultType, Outcomes
    <3>3. RecordInv(c, i, "actor", q, records) => RecordInv(c, i, "done", p, records)
      BY <2>1 DEF RecordInv, Scanned, Replying
    <3>4. CallOK(strict, d, c, i, "done", p, records)
      BY <1>3, <1>4, <2>1, <3>2, <3>3 DEF CallOK, OutcomeInv, ToolInv, RetrieveInv, ModelInv
    <3> QED BY <3>1, <3>4
  <2> QED BY <1>4, <2>1, <2>2 DEF Goes, next
<1>5. CASE next # "done"
  <2>1. next \in {"audit", "result", "verify"}
    BY <1>2, <1>5
  <2>2. OutcomeInv(next, r)
    BY <1>1, <2>1 DEF OutcomeInv
  <2>3. ToolInv(d, i, next, r)
    BY <1>2, <2>1 DEF ToolInv, CallOK, Same
  <2>4. RetrieveInv(i, next, r)
    BY <1>2, <2>1 DEF RetrieveInv, CallOK, Same
  <2>5. ModelInv(i, next, r)
    BY <2>1 DEF ModelInv, CallOK, Same
  <2>6. RecordInv(c, i, "actor", q, records) => RecordInv(c, i, next, r, records)
    BY <1>1, <1>2, <2>1 DEF RecordInv, Judgement, Scanned, Replying
  <2>7. CallOK(strict, d, c, i, next, r, records)
    BY <1>1, <1>3, <2>2, <2>3, <2>4, <2>5, <2>6 DEF CallOK
  <2> QED BY <1>5, <2>7 DEF Goes, next
<1> QED BY <1>4, <1>5

(* The record of a scan, without which a closed policy ends the call.      *)
LEMMA AuditGoes ==
    ASSUME NEW strict \in BOOLEAN, NEW d, NEW c, NEW i \in Inputs,
           NEW q, NEW r, NEW records, NEW more, records \subseteq more,
           CallOK(strict, d, c, i, "audit", q, records), Same(q, r),
           strict => [call |-> c, event |-> ScanEvent[i.kind]] \in more
    PROVE  Goes(strict, d, c, i, "audit", r, more)
<1> DEFINE next == Follows[i.kind]["audit"]
<1>1. /\ i.kind \in DOMAIN Positions /\ "audit" \in Positions[i.kind] /\ q.outcome = "none"
      /\ r \in ResultType /\ r.outcome = "none"
  BY InputFields DEF CallOK, OutcomeInv, Same
<1>2. /\ i.kind \in {"input", "external", "batch", "media", "tool", "chat", "retrieve"}
      /\ i.kind \in {"input", "media"} => next = "done"
      /\ i.kind \in {"external", "batch", "tool", "retrieve"} => next = "session"
      /\ i.kind = "chat" => next = "model"
  BY <1>1 DEF Follows, Positions
<1>3. next \in Positions[i.kind]
  BY <1>2 DEF Positions
<1> HIDE DEF next
<1>4. CASE next = "done"
  <2>1. i.kind \in {"input", "media"}
    BY <1>2, <1>4
  <2>2. ASSUME NEW o \in {"allowed", "blocked"}
        PROVE  CallOK(strict, d, c, i, "done", [r EXCEPT !.outcome = o], more)
    <3>1. PICK p : p = [r EXCEPT !.outcome = o]
      OBVIOUS
    <3>2. p \in ResultType /\ p.outcome = o
      BY <1>1, <3>1 DEF ResultType, Outcomes
    <3>3. strict => RecordInv(c, i, "done", p, more)
      BY <2>1 DEF RecordInv, Scanned, Replying
    <3>4. CallOK(strict, d, c, i, "done", p, more)
      BY <1>3, <1>4, <2>1, <3>2, <3>3 DEF CallOK, OutcomeInv, ToolInv, RetrieveInv, ModelInv
    <3> QED BY <3>1, <3>4
  <2> QED BY <1>4, <2>1, <2>2 DEF Goes, next
<1>5. CASE next # "done"
  <2>1. next \in {"session", "model"}
    BY <1>2, <1>5
  <2>2. OutcomeInv(next, r)
    BY <1>1, <2>1 DEF OutcomeInv
  <2>3. ToolInv(d, i, next, r)
    BY <1>2, <2>1 DEF ToolInv, CallOK, Same
  <2>4. RetrieveInv(i, next, r)
    BY <1>2, <2>1 DEF RetrieveInv, CallOK, Same
  <2>5. ModelInv(i, next, r)
    BY <2>1 DEF ModelInv, CallOK, Same
  <2>6. RecordInv(c, i, "audit", q, records) /\ strict => RecordInv(c, i, next, r, more)
    <3>1. ~Judgement(next, r)
      BY <1>1 DEF Judgement
    <3>2. i.kind = "tool" /\ RecordInv(c, i, "audit", q, records) =>
              [call |-> c, event |-> "allowed"] \in more
      BY DEF RecordInv
    <3> QED BY <3>1, <3>2 DEF RecordInv
  <2>7. CallOK(strict, d, c, i, next, r, more)
    BY <1>1, <1>3, <2>2, <2>3, <2>4, <2>5, <2>6 DEF CallOK
  <2> QED BY <1>5, <2>7 DEF Goes, next
<1> QED BY <1>4, <1>5

(* The tool has run: what it returned has a score of its own.              *)
LEMMA InvokeGoes ==
    ASSUME NEW strict \in BOOLEAN, NEW d, NEW c, NEW i \in Inputs, NEW q, NEW r \in ResultType,
           NEW records, CallOK(strict, d, c, i, "invoke", q, records),
           r.outcome = q.outcome, r.score = i.lexical
    PROVE  Goes(strict, d, c, i, "invoke", r, records)
<1>1. i.kind = "tool" /\ r.outcome = "none"
  BY InputFields DEF CallOK, OutcomeInv, Positions
<1>2. Follows[i.kind]["invoke"] = "allow" /\ "allow" \in Positions[i.kind]
  BY <1>1 DEF Follows, Positions
<1>3. RecordInv(c, i, "allow", r, records)
  BY <1>1 DEF RecordInv, Judgement, Scanned, Replying
<1>4. CallOK(strict, d, c, i, "allow", r, records)
  BY <1>1, <1>2, <1>3 DEF CallOK, OutcomeInv, ToolInv, RetrieveInv, ModelInv
<1> QED BY <1>2, <1>4 DEF Goes

(* The record of a tool call that ran.                                     *)
LEMMA AllowGoes ==
    ASSUME NEW strict \in BOOLEAN, NEW d, NEW c, NEW i \in Inputs, NEW q, NEW r,
           NEW records, NEW more, CallOK(strict, d, c, i, "allow", q, records), Same(q, r),
           strict => [call |-> c, event |-> "allowed"] \in more
    PROVE  /\ Goes(strict, d, c, i, "allow", r, more)
           /\ r.score = 0 /\ i.semantic = 0 =>
                 CallOK(strict, d, c, i, "done", [r EXCEPT !.outcome = "allowed"], more)
<1>1. /\ i.kind = "tool" /\ r.outcome = "none" /\ r \in ResultType
      /\ i.lexical \in Nat /\ i.semantic \in Nat
  BY InputFields DEF CallOK, OutcomeInv, Positions, Same
<1>2. /\ Follows[i.kind]["allow"] = "detect"
      /\ "detect" \in Positions[i.kind] /\ "done" \in Positions[i.kind]
  BY <1>1 DEF Follows, Positions
<1>3. r.score = i.lexical
  BY <1>1 DEF CallOK, ToolInv, Same
<1>4. \A step, p : strict => RecordInv(c, i, step, p, more)
  BY <1>1 DEF RecordInv, Scanned, Replying
<1>5. CallOK(strict, d, c, i, "detect", r, more)
  BY <1>1, <1>2, <1>3, <1>4 DEF CallOK, OutcomeInv, ToolInv, RetrieveInv, ModelInv
<1>6. Goes(strict, d, c, i, "allow", r, more)
  BY <1>2, <1>5 DEF Goes
<1>7. ASSUME r.score = 0, i.semantic = 0
      PROVE  CallOK(strict, d, c, i, "done", [r EXCEPT !.outcome = "allowed"], more)
  <2>1. PICK p : p = [r EXCEPT !.outcome = "allowed"]
    OBVIOUS
  <2>2. p \in ResultType /\ p.outcome = "allowed"
    BY <1>1, <2>1 DEF ResultType, Outcomes
  <2>3. i.lexical < InputThreshold /\ i.semantic < InputThreshold
    BY <1>3, <1>7, PipelineAssumption
  <2>4. CallOK(strict, d, c, i, "done", p, more)
    BY <1>1, <1>2, <1>4, <2>2, <2>3 DEF CallOK, OutcomeInv, ToolInv, RetrieveInv, ModelInv
  <2> QED BY <2>1, <2>4
<1> QED BY <1>6, <1>7

(* The model is called for a chat that was not blocked.                    *)
LEMMA ModelGoes ==
    ASSUME NEW strict \in BOOLEAN, NEW d, NEW c, NEW i \in Inputs, NEW q, NEW r \in ResultType,
           NEW records, CallOK(strict, d, c, i, "model", q, records), r.outcome = q.outcome
    PROVE  /\ Goes(strict, d, c, i, "model", r, records)
           /\ CallOK(strict, d, c, i, "done", [q EXCEPT !.outcome = "blocked"], records)
<1>1. /\ i.kind \in {"chat", "followup"} /\ r.outcome = "none" /\ q \in ResultType /\ ~q.ran
      /\ strict => RecordInv(c, i, "model", q, records)
  BY InputFields DEF CallOK, OutcomeInv, ModelInv, Positions
<1>2. /\ Follows[i.kind]["model"] = "reply"
      /\ "reply" \in Positions[i.kind] /\ "done" \in Positions[i.kind]
  BY <1>1 DEF Follows, Positions
<1>3. strict => RecordInv(c, i, "reply", r, records)
  BY <1>1 DEF RecordInv, Judgement, Scanned
<1>4. CallOK(strict, d, c, i, "reply", r, records)
  BY <1>1, <1>2, <1>3 DEF CallOK, OutcomeInv, ToolInv, RetrieveInv, ModelInv
<1>5. Goes(strict, d, c, i, "model", r, records)
  BY <1>2, <1>4 DEF Goes
<1>6. PICK p : p = [q EXCEPT !.outcome = "blocked"]
  OBVIOUS
<1>7. p \in ResultType /\ p.outcome = "blocked" /\ p.ran = q.ran
  BY <1>1, <1>6 DEF ResultType, Outcomes
<1>8. strict => RecordInv(c, i, "done", p, records)
  BY <1>1, <1>7 DEF RecordInv, Scanned
<1>9. CallOK(strict, d, c, i, "done", p, records)
  BY <1>1, <1>2, <1>7, <1>8 DEF CallOK, OutcomeInv, ToolInv, RetrieveInv, ModelInv
<1> QED BY <1>5, <1>6, <1>9

(* The provenance of a retrieved document that is handed on.               *)
LEMMA VerifyGoes ==
    ASSUME NEW strict \in BOOLEAN, NEW d, NEW c, NEW i \in Inputs, NEW q, NEW r,
           NEW records, CallOK(strict, d, c, i, "verify", q, records), Same(q, r),
           \/ i.allowed \/ "provenance" \in r.skipped
           \/ r.score >= InputThreshold
    PROVE  Goes(strict, d, c, i, "verify", r, records)
<1>1. /\ i.kind = "retrieve" /\ r \in ResultType /\ q.score = i.lexical /\ i.lexical \in Nat
      /\ strict => RecordInv(c, i, "verify", q, records)
  BY InputFields DEF CallOK, RetrieveInv, Positions, Same
<1>2. Follows[i.kind]["verify"] = "done" /\ "done" \in Positions[i.kind]
  BY <1>1 DEF Follows, Positions
<1>3. ASSUME NEW o \in {"allowed", "blocked"}, o = "allowed" => r.score < InputThreshold
      PROVE  CallOK(strict, d, c, i, "done", [r EXCEPT !.outcome = o], records)
  <2>1. PICK p : p = [r EXCEPT !.outcome = o]
    OBVIOUS
  <2>2. p \in ResultType /\ p.outcome = o /\ p.skipped = r.skipped
    BY <1>1, <2>1 DEF ResultType, Outcomes
  <2>3. strict => RecordInv(c, i, "done", p, records)
    BY <1>1 DEF RecordInv, Scanned, Replying
  <2>4. RetrieveInv(i, "done", p)
    BY <1>1, <1>3, <2>2, PipelineAssumption DEF RetrieveInv, Same
  <2>5. CallOK(strict, d, c, i, "done", p, records)
    BY <1>1, <1>2, <2>2, <2>3, <2>4 DEF CallOK, OutcomeInv, ToolInv, ModelInv
  <2> QED BY <2>1, <2>5
<1> QED BY <1>1, <1>2, <1>3 DEF Goes

----------------------------------------------------------------------------
(* No record is lost, and no tool call counted.                            *)
LogGrows ==
    /\ log' \in [Deployments -> SUBSET [call : Calls, event : Events]]
    /\ \A e \in Deployments : log[e] \subseteq log'[e]

StoreKept ==
    /\ store' \in [Deployments -> StoreType]
    /\ \A e \in Deployments : store'[e].tools = store[e].tools

(* A step of a call past the check of its budget.                          *)
Walks(d, c) ==
    /\ pc[d][c] \notin {"budget", "done"}
    /\ Kept(d, c) /\ LogGrows /\ StoreKept
    /\ UNCHANGED input

(* A request that is counted leaves the tool counters alone.               *)
LEMMA RequestsKeepStore ==
    ASSUME TypeInv, NEW d \in Deployments, NEW s \in Sessions, NEW n \in Nat,
           store' = [store EXCEPT ![d].requests[s] = n]
    PROVE  StoreKept
<1>1. PICK q : q = [store[d].requests EXCEPT ![s] = n]
  OBVIOUS
<1>2. store[d] \in StoreType /\ q \in [Sessions -> Nat]
  BY <1>1 DEF TypeInv, StoreType
<1>3. PICK p : p = [store[d] EXCEPT !.requests = q]
  OBVIOUS
<1>4. p \in StoreType /\ p.tools = store[d].tools
  BY <1>2, <1>3 DEF StoreType
<1>5. store' = [store EXCEPT ![d] = p]
  BY <1>1, <1>3
<1> QED BY <1>4, <1>5 DEF StoreKept, TypeInv

(* So does a charge of risk.                                               *)
LEMMA ChargeKeepsStore ==
    ASSUME TypeInv, NEW d \in Deployments, NEW k \in Keys, NEW n \in Nat, NEW b \in BOOLEAN,
           store' = [store EXCEPT ![d].risk[k] = n, ![d].flag[k] = b]
    PROVE  StoreKept
<1>1. PICK q : q = [store[d].risk EXCEPT ![k] = n]
  OBVIOUS
<1>2. PICK f : f = [store[d].flag EXCEPT ![k] = b]
  OBVIOUS
<1>3. store[d] \in StoreType /\ q \in [Keys -> Nat] /\ f \in [Keys -> BOOLEAN]
  BY <1>1, <1>2 DEF TypeInv, StoreType
<1>4. PICK p : p = [store[d] EXCEPT !.risk = q]
  OBVIOUS
<1>5. p \in StoreType /\ p.tools = store[d].tools /\ p.flag = store[d].flag
  BY <1>3, <1>4 DEF StoreType
<1>6. PICK t : t = [p EXCEPT !.flag = f]
  OBVIOUS
<1>7. t \in StoreType /\ t.tools = store[d].tools
  BY <1>3, <1>5, <1>6 DEF StoreType
<1>8. store' = [store EXCEPT ![d] = t]
  <2>1. [store EXCEPT ![d].risk[k] = n] = [store EXCEPT ![d] = p]
    BY <1>1, <1>4
  <2>2. store' = [[store EXCEPT ![d] = p] EXCEPT ![d].flag[k] = b]
    BY <2>1
  <2>3. PICK u : u = [store EXCEPT ![d] = p]
    OBVIOUS
  <2>4. u[d] = p
    BY <2>3 DEF TypeInv
  <2>5. store' = [u EXCEPT ![d] = [u[d] EXCEPT !.flag = [u[d].flag EXCEPT ![k] = b]]]
    BY <2>2, <2>3
  <2>6. store' = [u EXCEPT ![d] = t]
    BY <2>4, <2>5, <1>2, <1>5, <1>6
  <2> QED BY <2>3, <2>6 DEF TypeInv
<1> QED BY <1>7, <1>8 DEF StoreKept, TypeInv

(* A tool call is counted, and nothing else.                               *)
Counted(d, s, n) ==
    /\ store' \in [Deployments -> StoreType]
    /\ store'[d].tools[s] = n
    /\ \A e \in Deployments, u \in Sessions :
          e # d \/ u # s => store'[e].tools[u] = store[e].tools[u]

(* A tool call that is counted raises one counter.                         *)
LEMMA ToolsAreCounted ==
    ASSUME TypeInv, NEW d \in Deployments, NEW s \in Sessions, NEW n \in Nat,
           store' = [store EXCEPT ![d].tools[s] = n]
    PROVE  Counted(d, s, n)
<1>1. PICK q : q = [store[d].tools EXCEPT ![s] = n]
  OBVIOUS
<1>2. store[d] \in StoreType /\ q \in [Sessions -> Nat]
  BY <1>1 DEF TypeInv, StoreType
<1>3. PICK p : p = [store[d] EXCEPT !.tools = q]
  OBVIOUS
<1>4. p \in StoreType /\ p.tools = q
  BY <1>2, <1>3 DEF StoreType
<1>5. store' = [store EXCEPT ![d] = p]
  BY <1>1, <1>3
<1>6. q[s] = n /\ \A u \in Sessions : u # s => q[u] = store[d].tools[u]
  BY <1>1, <1>2 DEF StoreType
<1> QED BY <1>4, <1>5, <1>6 DEF TypeInv, Counted

(* Skipping adds to what was skipped.                                      *)
LEMMA SkipIsSame ==
    ASSUME NEW d, NEW c, NEW step, At(d, c, step), NEW operation \in Operations
    PROVE  /\ Same(got[d][c], got[d][c])
           /\ Same(got[d][c], Skip(d, c, operation))
           /\ operation \in Skip(d, c, operation).skipped
<1>1. got[d][c] \in ResultType
  BY DEF At, CallOK
<1>2. Skip(d, c, operation) = [got[d][c] EXCEPT !.skipped = got[d][c].skipped \cup {operation}]
  BY DEF Skip
<1>3. PICK S : S = got[d][c].skipped \cup {operation}
  OBVIOUS
<1>4. S \in SUBSET Operations
  BY <1>1, <1>3 DEF ResultType
<1>5. Skip(d, c, operation) = [got[d][c] EXCEPT !.skipped = S]
  BY <1>2, <1>3
<1> QED BY <1>1, <1>3, <1>4, <1>5 DEF Same, ResultType

(* What a charge may tell a call says nothing of its verdict.              *)
LEMMA ResultsAreSame ==
    ASSUME NEW d, NEW c, NEW step, At(d, c, step), NEW r \in Results(d, c)
    PROVE  Same(got[d][c], r)
<1>1. "audit" \in Operations
  BY DEF Operations
<1> QED BY <1>1, SkipIsSame DEF Results

(* A record is written, unless it may be lost.                             *)
LEMMA RecordGrowsLog ==
    ASSUME NEW d, NEW c, NEW step, At(d, c, step), NEW event \in Events, NEW r,
           Recorded(d, c, event, r)
    PROVE  LogGrows /\ (Strict => [call |-> c, event |-> event] \in log'[d])
<1>1. d \in Deployments /\ c \in Calls
      /\ log \in [Deployments -> SUBSET [call : Calls, event : Events]]
  BY DEF At, TypeInv
<1>2. CASE UNCHANGED log /\ ~Strict
  BY <1>1, <1>2 DEF LogGrows
<1>3. CASE log' = [log EXCEPT ![d] = @ \cup {[call |-> c, event |-> event]}]
  <2>1. PICK e : e = [call |-> c, event |-> event]
    OBVIOUS
  <2>2. e \in [call : Calls, event : Events]
    BY <1>1, <2>1
  <2>3. log' = [log EXCEPT ![d] = log[d] \cup {e}]
    BY <1>3, <2>1
  <2>4. e \in log'[d] /\ LogGrows
    BY <1>1, <2>2, <2>3 DEF LogGrows
  <2> QED BY <2>1, <2>4
<1> QED BY <1>2, <1>3 DEF Recorded, Strict

(* A log nothing is written to has lost nothing.                           *)
LEMMA NoRecord ==
    ASSUME TypeInv, UNCHANGED log
    PROVE  LogGrows
BY DEF TypeInv, LogGrows

(* A store nothing is written to is as it was.                             *)
LEMMA NoStore ==
    ASSUME TypeInv, UNCHANGED store
    PROVE  StoreKept
BY DEF TypeInv, StoreKept

(* A record that failed, under either policy.                              *)
LEMMA UnrecordedKeeps ==
    ASSUME NEW d, NEW c, NEW step, At(d, c, step), Unrecorded(d, c)
    PROVE  Kept(d, c) /\ LogGrows
BY RaiseKeeps, NoRecord DEF Unrecorded, At

(* A round trip that failed, under either policy.                          *)
LEMMA UnansweredKeeps ==
    ASSUME NEW d, NEW c, NEW step, At(d, c, step), step \notin {"done", "denial", "unverified"},
           NEW operation \in Operations, Unanswered(d, c, operation),
           Goes(Strict, d, c, input[c], step, Skip(d, c, operation), log'[d])
    PROVE  Kept(d, c) /\ StoreKept
<1>1. Same(got[d][c], Skip(d, c, operation))
  BY SkipIsSame
<1>2. StoreKept
  BY NoStore DEF Unanswered, At
<1>3. CASE Raise(d, c, got[d][c], "unavailable")
  BY <1>2, <1>3, RaiseKeeps
<1>4. CASE Proceed(d, c, Skip(d, c, operation))
  BY <1>1, <1>2, <1>4, ProceedKeeps DEF Same
<1> QED BY <1>3, <1>4 DEF Unanswered

(* Whether the audit policy is closed is known.                            *)
LEMMA StrictIsBoolean == Strict \in BOOLEAN
BY DEF Strict

(* check_request.                                                          *)
LEMMA StepRequest ==
    ASSUME NEW d, NEW c, At(d, c, "request"), CheckRequest(d, c)
    PROVE  Walks(d, c)
<1> DEFINE s == input[c].session
           n == store[d].requests[s] + 1
           q == got[d][c]
<1>1. /\ TypeInv /\ d \in Deployments /\ c \in Calls /\ input[c] \in Inputs
      /\ pc[d][c] = "request" /\ q \in ResultType
      /\ CallOK(Strict, d, c, input[c], "request", q, log[d])
  BY DEF At, CallOK
<1>2. s \in Sessions /\ n \in Nat
  BY <1>1, InputFields DEF TypeInv, StoreType
<1>3. UNCHANGED <<input, log>> /\ LogGrows
  BY <1>1, NoRecord DEF CheckRequest
<1>4. \A r : Same(q, r) => Goes(Strict, d, c, input[c], "request", r, log'[d])
  BY <1>1, <1>3, PlainGoes, StrictIsBoolean
<1>5. CASE Unanswered(d, c, "rate_limit")
  <2>1. "rate_limit" \in Operations
    BY DEF Operations
  <2>2. Same(q, Skip(d, c, "rate_limit"))
    BY <2>1, SkipIsSame
  <2>3. Kept(d, c) /\ StoreKept
    BY <1>4, <1>5, <2>1, <2>2, UnansweredKeeps
  <2> QED BY <1>1, <1>3, <2>3 DEF Walks
<1>6. CASE store' = [store EXCEPT ![d].requests[s] = n]
  <2>1. StoreKept
    BY <1>1, <1>2, <1>6, RequestsKeepStore
  <2>2. CASE End(d, c, q, "rate_limited")
    BY <1>1, <1>3, <2>1, <2>2, EndKeeps DEF Walks
  <2>3. CASE Proceed(d, c, [q EXCEPT !.limited = OverBudget(n, RequestBudget)])
    <3>1. PICK b \in BOOLEAN : b = OverBudget(n, RequestBudget)
      <4>1. OverBudget(n, RequestBudget) \in BOOLEAN
        BY <1>2, PipelineAssumption, SMT DEF OverBudget
      <4> QED BY <4>1
    <3>2. Same(q, [q EXCEPT !.limited = b])
      BY <1>1, ResultFields DEF Same
    <3>3. Proceed(d, c, [q EXCEPT !.limited = b])
      BY <2>3, <3>1
    <3>4. Kept(d, c)
      BY <1>4, <3>2, <3>3, ProceedKeeps DEF Same
    <3> QED BY <1>1, <1>3, <2>1, <3>4 DEF Walks
  <2> QED BY <1>5, <1>6, <2>2, <2>3 DEF CheckRequest
<1> QED BY <1>5, <1>6 DEF CheckRequest

(* The detectors, on an input, an argument or a result.                    *)
LEMMA StepDetect ==
    ASSUME NEW d, NEW c, At(d, c, "detect"), Detect(d, c)
    PROVE  Walks(d, c)
<1> DEFINE q == got[d][c]
           i == input[c]
<1>1. /\ TypeInv /\ d \in Deployments /\ c \in Calls /\ i \in Inputs
      /\ pc[d][c] = "detect" /\ q \in ResultType
      /\ CallOK(Strict, d, c, i, "detect", q, log[d])
  BY DEF At, CallOK
<1>2. UNCHANGED <<input, log>> /\ LogGrows
  BY <1>1, NoRecord DEF Detect
<1>3. CASE Unanswered(d, c, "detector")
  <2>1. "detector" \in Operations
    BY DEF Operations
  <2>2. Same(q, Skip(d, c, "detector")) /\ "detector" \in Skip(d, c, "detector").skipped
    BY <2>1, SkipIsSame
  <2>3. Goes(Strict, d, c, i, "detect", Skip(d, c, "detector"), log'[d])
    BY <1>1, <1>2, <2>2, DetectGoes, StrictIsBoolean DEF Same
  <2>4. Kept(d, c) /\ StoreKept
    BY <1>3, <2>1, <2>3, UnansweredKeeps
  <2> QED BY <1>1, <1>2, <2>4 DEF Walks
<1>4. CASE UNCHANGED store /\ Proceed(d, c, [q EXCEPT !.score = Merge(@, i.semantic)])
  <2>1. PICK n : n = Merge(q.score, i.semantic)
    OBVIOUS
  <2>2. n \in Nat
    BY <1>1, <2>1, InputFields DEF Merge, ResultType
  <2>3. PICK r : r = [q EXCEPT !.score = n]
    OBVIOUS
  <2>4. r \in ResultType /\ q.skipped = r.skipped /\ r.outcome = q.outcome /\ r.ran = q.ran /\ r.score = n
    BY <1>1, <2>2, <2>3, ResultFields
  <2>5. Proceed(d, c, r)
    BY <1>4, <2>1, <2>3
  <2>6. Goes(Strict, d, c, i, "detect", r, log'[d])
    BY <1>1, <1>2, <2>1, <2>4, DetectGoes, StrictIsBoolean
  <2>7. Kept(d, c)
    BY <2>4, <2>5, <2>6, ProceedKeeps
  <2> QED BY <1>1, <1>2, <1>4, <2>7, NoStore DEF Walks
<1> QED BY <1>3, <1>4 DEF Detect

(* The two charges, to either step's.                                      *)
LEMMA StepCharge ==
    ASSUME NEW d, NEW c, NEW step \in {"session", "actor"}, At(d, c, step), NEW k \in Keys,
           Charge(d, c, k) \/ Uncharged(d, c), UNCHANGED <<input, log>>
    PROVE  Walks(d, c)
<1> DEFINE q == got[d][c]
<1>1. /\ TypeInv /\ d \in Deployments /\ c \in Calls /\ input[c] \in Inputs
      /\ pc[d][c] = step /\ q \in ResultType
      /\ CallOK(Strict, d, c, input[c], step, q, log[d])
  BY DEF At, CallOK
<1>2. LogGrows
  BY <1>1, NoRecord
<1>3. \A r : Same(q, r) => Goes(Strict, d, c, input[c], step, r, log'[d])
  BY <1>1, PlainGoes, ActorGoes, StrictIsBoolean
<1>4. CASE Uncharged(d, c)
  <2>1. Kept(d, c)
    BY <1>1, <1>3, <1>4, ProceedKeeps DEF Uncharged, Same
  <2>2. StoreKept
    BY <1>1, <1>4, NoStore DEF Uncharged
  <2> QED BY <1>1, <1>2, <2>1, <2>2 DEF Walks
<1>5. CASE Unanswered(d, c, "session_risk")
  <2>1. "session_risk" \in Operations
    BY DEF Operations
  <2>2. Same(q, Skip(d, c, "session_risk"))
    BY <2>1, SkipIsSame
  <2>3. Kept(d, c) /\ StoreKept
    BY <1>3, <1>5, <2>1, <2>2, UnansweredKeeps
  <2> QED BY <1>1, <1>2, <2>3 DEF Walks
<1>6. CASE /\ store' = [store EXCEPT ![d].risk[k] = Cumulative(d, c, k), ![d].flag[k] = Flags(d, c, k)]
           /\ Proceed(d, c, [q EXCEPT !.flagged = @ \/ Flags(d, c, k)])
  <2>1. PICK n \in Nat : n = Cumulative(d, c, k)
    BY <1>1 DEF Cumulative, TypeInv, StoreType, ResultType
  <2>2. PICK b \in BOOLEAN : b = Flags(d, c, k)
    BY DEF Flags
  <2>3. PICK f \in BOOLEAN : f = (q.flagged \/ Flags(d, c, k))
    OBVIOUS
  <2>4. StoreKept
    BY <1>1, <1>6, <2>1, <2>2, ChargeKeepsStore
  <2>5. Proceed(d, c, [q EXCEPT !.flagged = f])
    BY <1>6, <2>3
  <2>6. Same(q, [q EXCEPT !.flagged = f])
    BY <1>1, ResultFields DEF Same
  <2>7. Kept(d, c)
    BY <1>3, <2>5, <2>6, ProceedKeeps DEF Same
  <2> QED BY <1>1, <1>2, <2>4, <2>7 DEF Walks
<1> QED BY <1>4, <1>5, <1>6 DEF Charge

(* record_turn_risk_and_check, of the session and of the actor.            *)
LEMMA StepCharges ==
    ASSUME NEW d, NEW c, NEW step \in {"session", "actor"}, At(d, c, step),
           ChargeSession(d, c) \/ ChargeActor(d, c)
    PROVE  Walks(d, c)
<1>1. input[c].session \in Keys /\ Actor \in Keys
  BY InputFields DEF At, Keys
<1> QED BY <1>1, StepCharge DEF ChargeSession, ChargeActor

(* The record of a scan.                                                   *)
LEMMA StepAudit ==
    ASSUME NEW d, NEW c, At(d, c, "audit"), AuditScan(d, c)
    PROVE  Walks(d, c)
<1> DEFINE q == got[d][c]
           i == input[c]
<1>1. /\ TypeInv /\ d \in Deployments /\ c \in Calls /\ i \in Inputs
      /\ pc[d][c] = "audit" /\ CallOK(Strict, d, c, i, "audit", q, log[d])
      /\ UNCHANGED <<input, store>> /\ StoreKept
  BY NoStore DEF At, AuditScan
<1>2. ScanEvent[Kind(c)] = ScanEvent[i.kind] /\ ScanEvent[i.kind] \in Events
  <2>1. i.kind \in DOMAIN ScanEvent
    BY <1>1, InputFields DEF CallOK, Positions, ScanEvent
  <2>2. \A k \in DOMAIN ScanEvent : ScanEvent[k] \in Events
    BY DEF ScanEvent, Events
  <2>3. Kind(c) = i.kind
    BY DEF Kind
  <2> QED BY <2>1, <2>2, <2>3
<1>3. CASE Unrecorded(d, c)
  BY <1>1, <1>3, UnrecordedKeeps DEF Walks
<1>4. CASE \E r \in Results(d, c) : Recorded(d, c, ScanEvent[Kind(c)], r) /\ Proceed(d, c, r)
  <2>1. PICK r \in Results(d, c) : Recorded(d, c, ScanEvent[i.kind], r) /\ Proceed(d, c, r)
    BY <1>2, <1>4
  <2>2. LogGrows /\ (Strict => [call |-> c, event |-> ScanEvent[i.kind]] \in log'[d])
    BY <1>2, <2>1, RecordGrowsLog
  <2>3. Same(q, r)
    BY ResultsAreSame
  <2>4. log[d] \subseteq log'[d]
    BY <1>1, <2>2 DEF LogGrows
  <2>5. Goes(Strict, d, c, i, "audit", r, log'[d])
    BY <1>1, <2>2, <2>3, <2>4, AuditGoes, StrictIsBoolean
  <2>6. Kept(d, c)
    BY <2>1, <2>3, <2>5, ProceedKeeps DEF Same
  <2> QED BY <1>1, <2>2, <2>6 DEF Walks
<1> QED BY <1>3, <1>4 DEF AuditScan

(* The scan of a tool call's arguments.                                    *)
LEMMA StepArguments ==
    ASSUME NEW d, NEW c, At(d, c, "arguments"), ScanArguments(d, c)
    PROVE  Walks(d, c)
<1> DEFINE q == got[d][c]
           i == input[c]
<1>1. /\ TypeInv /\ d \in Deployments /\ c \in Calls /\ i \in Inputs
      /\ pc[d][c] = "arguments" /\ CallOK(Strict, d, c, i, "arguments", q, log[d])
      /\ q \in ResultType /\ UNCHANGED <<input, store>> /\ StoreKept
  BY NoStore DEF At, ScanArguments, CallOK
<1>2. ASSUME LogGrows, NEW r, Same(q, r), Proceed(d, c, r)
      PROVE  Kept(d, c)
  <2>1. log[d] \subseteq log'[d]
    BY <1>1, <1>2 DEF LogGrows
  <2>2. CallOK(Strict, d, c, i, "arguments", q, log'[d])
    BY <1>1, <2>1 DEF CallOK, RecordInv
  <2>3. Goes(Strict, d, c, i, "arguments", r, log'[d])
    BY <1>1, <1>2, <2>2, PlainGoes, StrictIsBoolean
  <2> QED BY <1>2, <2>3, ProceedKeeps DEF Same
<1>3. CASE UNCHANGED log /\ Proceed(d, c, q)
  <2>1. LogGrows
    BY <1>1, <1>3, NoRecord
  <2>2. Same(q, q)
    BY <1>1 DEF Same
  <2> QED BY <1>1, <1>2, <1>3, <2>1, <2>2 DEF Walks
<1>4. CASE Unrecorded(d, c)
  BY <1>1, <1>4, UnrecordedKeeps DEF Walks
<1>5. ASSUME NEW r \in Results(d, c),
             \/ Recorded(d, c, "denied", r) /\ End(d, c, r, "denied")
             \/ Recorded(d, c, "would_deny", r) /\ Proceed(d, c, r)
      PROVE  Walks(d, c)
  <2>1. LogGrows
    <3>1. "denied" \in Events /\ "would_deny" \in Events
      BY DEF Events
    <3>2. CASE Recorded(d, c, "denied", r)
      BY <3>1, <3>2, RecordGrowsLog
    <3>3. CASE Recorded(d, c, "would_deny", r)
      BY <3>1, <3>3, RecordGrowsLog
    <3> QED BY <1>5, <3>2, <3>3
  <2>2. Same(q, r)
    BY ResultsAreSame
  <2>3. CASE End(d, c, r, "denied")
    BY <1>1, <2>1, <2>2, <2>3, EndKeeps DEF Walks, Same
  <2>4. CASE Proceed(d, c, r)
    BY <1>1, <1>2, <2>1, <2>2, <2>4 DEF Walks
  <2> QED BY <1>5, <2>3, <2>4
<1> QED BY <1>3, <1>4, <1>5 DEF ScanArguments

(* authorize, of a tool call's token.                                      *)
LEMMA StepAuthorize ==
    ASSUME NEW d, NEW c, At(d, c, "authorize"), Authorize(d, c)
    PROVE  Walks(d, c)
<1> DEFINE q == got[d][c]
           i == input[c]
<1>1. /\ TypeInv /\ d \in Deployments /\ c \in Calls /\ i \in Inputs /\ i.kind = "tool"
      /\ pc[d][c] = "authorize" /\ CallOK(Strict, d, c, i, "authorize", q, log[d])
      /\ q \in ResultType /\ UNCHANGED <<input, log, store>>
  <2>1. At(d, c, "authorize") /\ UNCHANGED <<input, log, store>>
    BY DEF Authorize, Unanswered
  <2>2. i.kind = "tool"
    BY InputFields DEF At, CallOK, Positions
  <2> QED BY <2>1, <2>2 DEF At, CallOK
<1>2. LogGrows /\ StoreKept
  BY <1>1, NoRecord, NoStore
<1>3. \A r : Same(q, r) => Goes(Strict, d, c, i, "authorize", r, log'[d])
  BY <1>1, PlainGoes, StrictIsBoolean
<1>4. CASE Proceed(d, c, q)
  <2>1. Same(q, q)
    BY <1>1 DEF Same
  <2>2. Kept(d, c)
    BY <1>1, <1>3, <1>4, <2>1, ProceedKeeps
  <2> QED BY <1>1, <1>2, <2>2 DEF Walks
<1>5. CASE Refuse(d, c, q, "denied")
  BY <1>1, <1>2, <1>5, RefuseKeeps DEF Walks
<1>6. CASE Unanswered(d, c, "token_replay")
  <2>1. "token_replay" \in Operations
    BY DEF Operations
  <2>2. Same(q, Skip(d, c, "token_replay"))
    BY <2>1, SkipIsSame
  <2>3. Kept(d, c)
    BY <1>3, <1>6, <2>1, <2>2, UnansweredKeeps
  <2> QED BY <1>1, <1>2, <2>3 DEF Walks
<1> QED BY <1>4, <1>5, <1>6 DEF Authorize

(* The tool itself.                                                        *)
LEMMA StepInvoke ==
    ASSUME NEW d, NEW c, At(d, c, "invoke"), Invoke(d, c)
    PROVE  Walks(d, c)
<1> DEFINE q == got[d][c]
           i == input[c]
           r == [q EXCEPT !.ran = TRUE]
           t == [r EXCEPT !.score = i.lexical]
<1>1. /\ TypeInv /\ d \in Deployments /\ c \in Calls /\ i \in Inputs /\ i.kind = "tool"
      /\ pc[d][c] = "invoke" /\ CallOK(Strict, d, c, i, "invoke", q, log[d])
      /\ q \in ResultType /\ UNCHANGED <<input, log, store>>
  <2>1. i.kind = "tool"
    BY InputFields DEF At, CallOK, Positions
  <2> QED BY <2>1 DEF At, CallOK, Invoke
<1>2. LogGrows /\ StoreKept
  BY <1>1, NoRecord, NoStore
<1>3. r \in ResultType /\ r.outcome = q.outcome /\ r.skipped = q.skipped
  BY <1>1, ResultFields
<1>4. CASE Proceed(d, c, t)
  <2>1. i.lexical \in Nat
    BY <1>1, InputFields
  <2> HIDE DEF r
  <2>2. t \in ResultType /\ t.outcome = q.outcome /\ t.skipped = q.skipped /\ t.score = i.lexical
    BY <1>3, <2>1, ResultFields
  <2> HIDE DEF t
  <2>3. Goes(Strict, d, c, i, "invoke", t, log'[d])
    BY <1>1, <2>2, InvokeGoes, StrictIsBoolean
  <2>4. Kept(d, c)
    BY <1>1, <1>4, <2>2, <2>3, ProceedKeeps
  <2> QED BY <1>1, <1>2, <2>4 DEF Walks
<1>5. CASE Refuse(d, c, r, "failed")
  BY <1>1, <1>2, <1>3, <1>5, RefuseKeeps DEF Walks
<1> QED BY <1>4, <1>5 DEF Invoke

(* The record of a tool call that ran.                                     *)
LEMMA StepAllow ==
    ASSUME NEW d, NEW c, At(d, c, "allow"), AuditAllowed(d, c)
    PROVE  Walks(d, c)
<1> DEFINE q == got[d][c]
           i == input[c]
<1>1. /\ TypeInv /\ d \in Deployments /\ c \in Calls /\ i \in Inputs
      /\ pc[d][c] = "allow" /\ CallOK(Strict, d, c, i, "allow", q, log[d])
      /\ UNCHANGED <<input, store>> /\ StoreKept
  BY NoStore DEF At, AuditAllowed
<1>2. CASE Unrecorded(d, c)
  BY <1>1, <1>2, UnrecordedKeeps DEF Walks
<1>3. ASSUME NEW r \in Results(d, c), Recorded(d, c, "allowed", r),
             \/ Proceed(d, c, r)
             \/ r.score = 0 /\ i.semantic = 0 /\ End(d, c, r, "allowed")
      PROVE  Walks(d, c)
  <2>1. LogGrows /\ (Strict => [call |-> c, event |-> "allowed"] \in log'[d])
    <3>1. "allowed" \in Events
      BY DEF Events
    <3> QED BY <1>3, <3>1, RecordGrowsLog
  <2>2. Same(q, r)
    BY ResultsAreSame
  <2>3. /\ Goes(Strict, d, c, i, "allow", r, log'[d])
        /\ r.score = 0 /\ i.semantic = 0 =>
              CallOK(Strict, d, c, i, "done", [r EXCEPT !.outcome = "allowed"], log'[d])
    BY <1>1, <2>1, <2>2, AllowGoes, StrictIsBoolean
  <2>4. CASE Proceed(d, c, r)
    <3>1. Kept(d, c)
      BY <2>2, <2>3, <2>4, ProceedKeeps DEF Same
    <3> QED BY <1>1, <2>1, <3>1 DEF Walks
  <2>5. CASE r.score = 0 /\ i.semantic = 0 /\ End(d, c, r, "allowed")
    <3>1. PICK p : p = [r EXCEPT !.outcome = "allowed"]
      OBVIOUS
    <3>2. CallOK(Strict, d, c, i, "done", p, log'[d]) /\ Moved(d, c, "done", p)
      BY <2>3, <2>5, <3>1 DEF End, Moved
    <3>3. p.skipped = r.skipped
      BY <2>2, <3>1 DEF Same, ResultType
    <3>4. Kept(d, c)
      BY <2>2, <3>2, <3>3 DEF Kept, Same
    <3> QED BY <1>1, <2>1, <3>4 DEF Walks
  <2> QED BY <1>3, <2>4, <2>5
<1> QED BY <1>2, <1>3 DEF AuditAllowed

(* The record of a tool call that was refused.                             *)
LEMMA StepDenial ==
    ASSUME NEW d, NEW c, At(d, c, "denial"), AuditDenied(d, c)
    PROVE  Walks(d, c)
<1> DEFINE q == got[d][c]
<1>1. /\ TypeInv /\ d \in Deployments /\ c \in Calls
      /\ pc[d][c] = "denial" /\ q.outcome \in {"denied", "failed", "unavailable"}
      /\ UNCHANGED <<input, store>> /\ StoreKept
  BY NoStore DEF At, AuditDenied, CallOK, OutcomeInv
<1>2. CASE Unrecorded(d, c)
  BY <1>1, <1>2, UnrecordedKeeps DEF Walks
<1>3. ASSUME NEW r \in Results(d, c), Recorded(d, c, "denied", r), End(d, c, r, q.outcome)
      PROVE  Walks(d, c)
  <2>1. LogGrows
    <3>1. "denied" \in Events
      BY DEF Events
    <3> QED BY <1>3, <3>1, RecordGrowsLog
  <2>2. Same(q, r)
    BY ResultsAreSame
  <2>3. Kept(d, c)
    BY <1>1, <1>3, <2>2, EndKeeps DEF Same
  <2> QED BY <1>1, <2>1, <2>3 DEF Walks
<1> QED BY <1>2, <1>3 DEF AuditDenied

(* A verdict that ends a call, all that it owes being on record.           *)
LEMMA VerdictKeeps ==
    ASSUME NEW d, NEW c, NEW step, At(d, c, step), NEW r, Same(got[d][c], r),
           NEW o \in {"allowed", "blocked"}, NEW p, p.outcome = o, p \in ResultType,
           p.skipped = r.skipped, Moved(d, c, "done", p),
           ToolInv(d, input[c], "done", p), RetrieveInv(input[c], "done", p),
           Strict => RecordInv(c, input[c], "done", p, log'[d])
    PROVE  Kept(d, c)
<1>1. input[c] \in Inputs /\ "done" \in Positions[input[c].kind]
  BY InputFields DEF At, Positions
<1>2. CallOK(Strict, d, c, input[c], "done", p, log'[d])
  BY <1>1 DEF CallOK, OutcomeInv, ModelInv
<1> QED BY <1>2 DEF Kept, Same

(* The verdict on what a tool returned.                                    *)
LEMMA StepResult ==
    ASSUME NEW d, NEW c, At(d, c, "result"), JudgeResult(d, c)
    PROVE  Walks(d, c)
<1> DEFINE q == got[d][c]
           i == input[c]
<1>1. /\ TypeInv /\ d \in Deployments /\ c \in Calls /\ i \in Inputs /\ i.kind = "tool"
      /\ pc[d][c] = "result" /\ CallOK(Strict, d, c, i, "result", q, log[d])
      /\ q \in ResultType /\ UNCHANGED <<input, store>> /\ StoreKept
      /\ i.lexical \in Nat /\ i.semantic \in Nat
  <2>1. i.kind = "tool"
    BY InputFields DEF At, CallOK, Positions
  <2> QED BY <2>1, NoStore, InputFields DEF At, CallOK, JudgeResult
<1>2. CASE Unrecorded(d, c)
  BY <1>1, <1>2, UnrecordedKeeps DEF Walks
<1>3. ASSUME NEW r, Same(q, r), LogGrows, NEW o \in {"allowed", "blocked"}, End(d, c, r, o),
             o = "allowed" /\ Enforced(d) => q.score < InputThreshold
      PROVE  Walks(d, c)
  <2>1. PICK p : p = [r EXCEPT !.outcome = o]
    OBVIOUS
  <2>2. p \in ResultType /\ p.outcome = o /\ p.skipped = r.skipped /\ Moved(d, c, "done", p)
    BY <1>3, <2>1 DEF Same, ResultType, Outcomes, End, Moved
  <2>3. ToolInv(d, i, "done", p)
    <3>1. q.score >= i.lexical /\ (q.score >= i.semantic \/ "detector" \in q.skipped)
      BY <1>1 DEF CallOK, ToolInv
    <3>2. "detector" \in q.skipped => "detector" \in p.skipped
      BY <1>3, <2>2 DEF Same
    <3> QED BY <1>1, <1>3, <2>2, <3>1, <3>2, PipelineAssumption DEF ToolInv, ResultType
  <2>4. RetrieveInv(i, "done", p)
    BY <1>1 DEF RetrieveInv
  <2>5. Strict => RecordInv(c, i, "done", p, log'[d])
    <3>1. log[d] \subseteq log'[d]
      BY <1>1, <1>3 DEF LogGrows
    <3>2. Strict => [call |-> c, event |-> "allowed"] \in log[d]
      BY <1>1 DEF CallOK, RecordInv
    <3> QED BY <1>1, <3>1, <3>2 DEF RecordInv, Scanned, Replying
  <2>6. Kept(d, c)
    BY <1>3, <2>2, <2>3, <2>4, <2>5, VerdictKeeps
  <2> QED BY <1>1, <1>3, <2>6 DEF Walks
<1>4. CASE ~(q.score >= InputThreshold) /\ End(d, c, q, "allowed") /\ UNCHANGED log
  <2>1. LogGrows /\ Same(q, q)
    BY <1>1, <1>4, NoRecord DEF Same
  <2>2. q.score < InputThreshold
    BY <1>1, <1>4, PipelineAssumption DEF ResultType
  <2> QED BY <1>3, <1>4, <2>1, <2>2
<1>5. ASSUME NEW r \in Results(d, c), q.score >= InputThreshold, Recorded(d, c, "tool_result", r),
             End(d, c, r, IF Enforced(d) THEN "blocked" ELSE "allowed")
      PROVE  Walks(d, c)
  <2>1. LogGrows
    <3>1. "tool_result" \in Events
      BY DEF Events
    <3> QED BY <1>5, <3>1, RecordGrowsLog
  <2>2. Same(q, r)
    BY ResultsAreSame
  <2>3. CASE Enforced(d)
    BY <1>3, <1>5, <2>1, <2>2, <2>3
  <2>4. CASE ~Enforced(d)
    BY <1>3, <1>5, <2>1, <2>2, <2>4
  <2> QED BY <2>3, <2>4
<1> QED BY <1>2, <1>4, <1>5 DEF JudgeResult

(* The call of the model by a chat.                                        *)
LEMMA StepModel ==
    ASSUME NEW d, NEW c, At(d, c, "model"), CallModel(d, c)
    PROVE  Walks(d, c)
<1> DEFINE q == got[d][c]
           i == input[c]
           called == [q EXCEPT !.ran = TRUE]
<1>1. /\ TypeInv /\ d \in Deployments /\ c \in Calls /\ i \in Inputs
      /\ pc[d][c] = "model" /\ CallOK(Strict, d, c, i, "model", q, log[d])
      /\ q \in ResultType /\ UNCHANGED <<input, store, log>>
  BY DEF At, CallModel, CallOK
<1>2. LogGrows /\ StoreKept
  BY <1>1, NoRecord, NoStore
<1>3. called \in ResultType /\ called.outcome = q.outcome /\ called.skipped = q.skipped
  BY <1>1, ResultFields
<1> HIDE DEF called
<1>4. /\ Goes(Strict, d, c, i, "model", called, log'[d])
      /\ CallOK(Strict, d, c, i, "done", [q EXCEPT !.outcome = "blocked"], log'[d])
  BY <1>1, <1>3, ModelGoes, StrictIsBoolean
<1>5. CASE End(d, c, q, "blocked")
  <2>1. PICK p : p = [q EXCEPT !.outcome = "blocked"]
    OBVIOUS
  <2>2. CallOK(Strict, d, c, i, "done", p, log'[d]) /\ Moved(d, c, "done", p)
    BY <1>4, <1>5, <2>1 DEF End, Moved
  <2>3. p.skipped = q.skipped
    BY <1>1, <2>1 DEF ResultType
  <2>4. Kept(d, c)
    BY <2>2, <2>3 DEF Kept
  <2> QED BY <1>1, <1>2, <2>4 DEF Walks
<1>6. CASE Proceed(d, c, called)
  <2>1. Kept(d, c)
    BY <1>1, <1>3, <1>4, <1>6, ProceedKeeps
  <2> QED BY <1>1, <1>2, <2>1 DEF Walks
<1>7. CASE End(d, c, called, "failed")
  <2>1. Kept(d, c)
    BY <1>1, <1>3, <1>7, EndKeeps
  <2> QED BY <1>1, <1>2, <2>1 DEF Walks
<1> QED BY <1>5, <1>6, <1>7 DEF CallModel, called

(* The scan of the model's reply.                                          *)
LEMMA StepReply ==
    ASSUME NEW d, NEW c, At(d, c, "reply"), ScanReply(d, c)
    PROVE  Walks(d, c)
<1> DEFINE q == got[d][c]
           i == input[c]
<1>1. /\ TypeInv /\ d \in Deployments /\ c \in Calls /\ i \in Inputs /\ i.kind \in Replying
      /\ pc[d][c] = "reply" /\ CallOK(Strict, d, c, i, "reply", q, log[d])
      /\ q \in ResultType /\ UNCHANGED <<input, store>> /\ StoreKept
  <2>1. i.kind \in Replying
    BY InputFields DEF At, CallOK, Positions, Replying
  <2> QED BY <2>1, NoStore DEF At, CallOK, ScanReply
<1>2. CASE Unrecorded(d, c)
  BY <1>1, <1>2, UnrecordedKeeps DEF Walks
<1>3. CASE End(d, c, q, "failed") /\ UNCHANGED log
  <2>1. Kept(d, c) /\ LogGrows
    BY <1>1, <1>3, EndKeeps, NoRecord
  <2> QED BY <1>1, <2>1 DEF Walks
<1>4. ASSUME NEW r \in Results(d, c), Recorded(d, c, "output_scan", r),
             End(d, c, [r EXCEPT !.reply = SafeText(d, c)],
                 IF ReplyBlocked(d, c) THEN "blocked" ELSE "allowed")
      PROVE  Walks(d, c)
  <2>1. LogGrows /\ (Strict => [call |-> c, event |-> "output_scan"] \in log'[d])
    <3>1. "output_scan" \in Events
      BY DEF Events
    <3> QED BY <1>4, <3>1, RecordGrowsLog
  <2>2. Same(q, r)
    BY ResultsAreSame
  <2>3. PICK t \in Replies \cup {"raw"} : t = SafeText(d, c)
    BY <1>1, InputFields DEF SafeText
  <2>4. PICK o \in {"allowed", "blocked"} : o = IF ReplyBlocked(d, c) THEN "blocked" ELSE "allowed"
    OBVIOUS
  <2>5. PICK u : u = [r EXCEPT !.reply = t]
    OBVIOUS
  <2>6. u \in ResultType /\ u.skipped = r.skipped
    BY <2>2, <2>5 DEF Same, ResultType
  <2>7. PICK p : p = [u EXCEPT !.outcome = o]
    OBVIOUS
  <2>8. p \in ResultType /\ p.skipped = r.skipped /\ p.outcome = o /\ Moved(d, c, "done", p)
    BY <1>4, <2>3, <2>4, <2>5, <2>6, <2>7 DEF End, Moved, ResultType, Outcomes
  <2>9. ToolInv(d, i, "done", p) /\ RetrieveInv(i, "done", p)
    BY <1>1 DEF ToolInv, RetrieveInv, Replying
  <2>10. Strict => RecordInv(c, i, "done", p, log'[d])
    <3>1. log[d] \subseteq log'[d]
      BY <1>1, <2>1 DEF LogGrows
    <3>2. i.kind \in DOMAIN Scanned => "reply" \in Scanned[i.kind]
      BY <1>1 DEF Scanned, Replying
    <3>3. Strict /\ i.kind \in DOMAIN Scanned => [call |-> c, event |-> ScanEvent[i.kind]] \in log[d]
      BY <1>1, <3>2 DEF CallOK, RecordInv
    <3>4. i.kind # "tool"
      BY <1>1 DEF Replying
    <3> QED BY <2>1, <3>1, <3>3, <3>4 DEF RecordInv
  <2>11. Kept(d, c)
    BY <2>2, <2>8, <2>9, <2>10, VerdictKeeps
  <2> QED BY <1>1, <2>1, <2>11 DEF Walks
<1> QED BY <1>2, <1>3, <1>4 DEF ScanReply

(* verify_retrieved, of a retrieved document.                              *)
LEMMA StepVerify ==
    ASSUME NEW d, NEW c, At(d, c, "verify"), Verify(d, c)
    PROVE  Walks(d, c)
<1> DEFINE q == got[d][c]
           i == input[c]
<1>1. /\ TypeInv /\ d \in Deployments /\ c \in Calls /\ i \in Inputs /\ i.kind = "retrieve"
      /\ pc[d][c] = "verify" /\ CallOK(Strict, d, c, i, "verify", q, log[d])
      /\ q \in ResultType /\ UNCHANGED <<input, store, log>>
  <2>1. i.kind = "retrieve"
    BY InputFields DEF At, CallOK, Positions
  <2> QED BY <2>1 DEF At, CallOK, Verify, Unanswered
<1>2. LogGrows /\ StoreKept
  BY <1>1, NoRecord, NoStore
<1>3. CASE (Would(c, q) \/ i.allowed) /\ Proceed(d, c, q)
  <2>1. Same(q, q)
    BY <1>1 DEF Same
  <2>2. i.allowed \/ q.score >= InputThreshold
    BY <1>1, <1>3 DEF Would, Turn, Kind
  <2>3. Kept(d, c)
    BY <1>1, <1>3, <2>1, <2>2, VerifyGoes, ProceedKeeps, StrictIsBoolean
  <2> QED BY <1>1, <1>2, <2>3 DEF Walks
<1>4. CASE pc' = [pc EXCEPT ![d][c] = "unverified"] /\ UNCHANGED got
  <2>1. Moved(d, c, "unverified", q)
    BY <1>1, <1>4 DEF Moved, TypeInv
  <2>2. CallOK(Strict, d, c, i, "unverified", q, log'[d])
    <3>1. "unverified" \in Positions[i.kind]
      BY <1>1 DEF Positions
    <3>2. Strict => RecordInv(c, i, "unverified", q, log'[d])
      BY <1>1 DEF CallOK, RecordInv, Judgement, Scanned, Replying
    <3>3. OutcomeInv("unverified", q) /\ RetrieveInv(i, "unverified", q)
      BY <1>1 DEF CallOK, OutcomeInv, RetrieveInv
    <3> QED BY <1>1, <3>1, <3>2, <3>3 DEF CallOK, ToolInv, ModelInv
  <2>3. Kept(d, c)
    BY <2>1, <2>2 DEF Kept
  <2> QED BY <1>1, <1>2, <2>3 DEF Walks
<1>5. CASE Unanswered(d, c, "provenance")
  <2>1. "provenance" \in Operations
    BY DEF Operations
  <2>2. Same(q, Skip(d, c, "provenance")) /\ "provenance" \in Skip(d, c, "provenance").skipped
    BY <2>1, SkipIsSame
  <2>3. Goes(Strict, d, c, i, "verify", Skip(d, c, "provenance"), log'[d])
    BY <1>1, <2>2, VerifyGoes, StrictIsBoolean
  <2>4. Kept(d, c)
    BY <1>5, <2>1, <2>3, UnansweredKeeps
  <2> QED BY <1>1, <1>2, <2>4 DEF Walks
<1> QED BY <1>3, <1>4, <1>5 DEF Verify

(* The record of a retrieved document that is not handed on.               *)
LEMMA StepUnverified ==
    ASSUME NEW d, NEW c, At(d, c, "unverified"), AuditUnverified(d, c)
    PROVE  Walks(d, c)
<1> DEFINE q == got[d][c]
           i == input[c]
<1>1. /\ TypeInv /\ d \in Deployments /\ c \in Calls /\ i \in Inputs /\ i.kind = "retrieve"
      /\ pc[d][c] = "unverified" /\ CallOK(Strict, d, c, i, "unverified", q, log[d])
      /\ q \in ResultType /\ UNCHANGED <<input, store>> /\ StoreKept
  <2>1. i.kind = "retrieve"
    BY InputFields DEF At, CallOK, Positions
  <2> QED BY <2>1, NoStore DEF At, CallOK, AuditUnverified
<1>2. CASE Unrecorded(d, c)
  BY <1>1, <1>2, UnrecordedKeeps DEF Walks
<1>3. ASSUME NEW r \in Results(d, c), Recorded(d, c, "retrieval_provenance", r),
             End(d, c, r, "blocked")
      PROVE  Walks(d, c)
  <2>1. LogGrows
    <3>1. "retrieval_provenance" \in Events
      BY DEF Events
    <3> QED BY <1>3, <3>1, RecordGrowsLog
  <2>2. Same(q, r)
    BY ResultsAreSame
  <2>3. PICK p : p = [r EXCEPT !.outcome = "blocked"]
    OBVIOUS
  <2>4. p \in ResultType /\ p.skipped = r.skipped /\ p.outcome = "blocked" /\ Moved(d, c, "done", p)
    BY <1>3, <2>2, <2>3 DEF Same, ResultType, Outcomes, End, Moved
  <2>5. ToolInv(d, i, "done", p) /\ RetrieveInv(i, "done", p)
    BY <1>1, <2>4 DEF ToolInv, RetrieveInv
  <2>6. Strict => RecordInv(c, i, "done", p, log'[d])
    <3>1. log[d] \subseteq log'[d]
      BY <1>1, <2>1 DEF LogGrows
    <3>2. Strict => [call |-> c, event |-> ScanEvent[i.kind]] \in log[d]
      BY <1>1 DEF CallOK, RecordInv, Scanned
    <3> QED BY <1>1, <3>1, <3>2 DEF RecordInv, Replying
  <2>7. Kept(d, c)
    BY <2>2, <2>4, <2>5, <2>6, VerdictKeeps
  <2> QED BY <1>1, <2>1, <2>7 DEF Walks
<1> QED BY <1>2, <1>3 DEF AuditUnverified

----------------------------------------------------------------------------
(* A call that is in order stays so as the log grows.                      *)
LEMMA MoreRecords ==
    ASSUME NEW strict, NEW d, NEW c, NEW i, NEW step, NEW r, NEW records, NEW more,
           CallOK(strict, d, c, i, step, r, records), records \subseteq more
    PROVE  CallOK(strict, d, c, i, step, r, more)
BY DEF CallOK, RecordInv

(* A call that keeps what it must keeps all calls in order.                *)
LEMMA CallsAfter ==
    ASSUME TypeInv, CallsInv, NEW d \in Deployments, NEW c \in Calls, input[c] \in Inputs,
           Kept(d, c), LogGrows, store' \in [Deployments -> StoreType], UNCHANGED <<input, closed>>
    PROVE  TypeInv' /\ CallsInv'
<1>1. PICK step, r : /\ Moved(d, c, step, r)
                     /\ CallOK(Strict, d, c, input[c], step, r, log'[d])
  BY DEF Kept
<1>2. step \in Stages /\ r \in ResultType
  <2>1. input[c].kind \in DOMAIN Positions
    BY InputFields
  <2>2. \A k \in DOMAIN Positions : Positions[k] \subseteq Stages
    BY DEF Positions, Stages
  <2> QED BY <1>1, <2>1, <2>2 DEF CallOK
<1>3. TypeInv'
  BY <1>1, <1>2 DEF TypeInv, Moved, LogGrows
<1>4. ASSUME NEW e \in Deployments, NEW b \in Calls
      PROVE  IF input'[b] = NoInput THEN pc'[e][b] = "idle" /\ got'[e][b] = NoResult
             ELSE CallOK(Strict, e, b, input'[b], pc'[e][b], got'[e][b], log'[e])
  <2>1. CASE e = d /\ b = c
    <3>1. pc'[e][b] = step /\ got'[e][b] = r
      BY <1>1, <2>1 DEF Moved, TypeInv
    <3>2. input'[b] # NoInput
      BY <2>1, InputFields
    <3> QED BY <1>1, <2>1, <3>1, <3>2
  <2>2. CASE ~(e = d /\ b = c)
    <3>1. pc'[e][b] = pc[e][b] /\ got'[e][b] = got[e][b]
      BY <1>1, <2>2 DEF Moved, TypeInv
    <3>2. log[e] \subseteq log'[e]
      BY DEF LogGrows
    <3>3. CASE input[b] = NoInput
      BY <3>1, <3>3 DEF CallsInv
    <3>4. CASE input[b] # NoInput
      <4>1. CallOK(Strict, e, b, input[b], pc[e][b], got[e][b], log[e])
        BY <3>4 DEF CallsInv
      <4>2. CallOK(Strict, e, b, input[b], pc[e][b], got[e][b], log'[e])
        BY <3>2, <4>1, MoreRecords
      <4> QED BY <3>1, <3>4, <4>2
    <3> QED BY <3>3, <3>4
  <2> QED BY <2>1, <2>2
<1>5. Strict' = Strict
  BY DEF Strict
<1>6. CallsInv'
  BY <1>4, <1>5 DEF CallsInv
<1> QED BY <1>3, <1>6

(* The check of the budget: the call is counted and let through within it, *)
(* or it does not go on, or it goes on uncounted.                          *)
LEMMA StepBudget ==
    ASSUME NEW d, NEW c, At(d, c, "budget"), CheckToolCall(d, c)
    PROVE  /\ Kept(d, c) /\ LogGrows /\ UNCHANGED input
           /\ store' \in [Deployments -> StoreType]
           /\ \A e \in Deployments, u \in Sessions :
                 /\ e # d \/ u # input[c].session => store'[e].tools[u] = store[e].tools[u]
                 /\ store'[e].tools[u] >= store[e].tools[u]
           /\ \/ ~got'[d][c].ran /\ pc'[d][c] = "done"
              \/ "rate_limit" \in got'[d][c].skipped
              \/ /\ store'[d].tools[input[c].session] = store[d].tools[input[c].session] + 1
                 /\ store'[d].tools[input[c].session] <= ToolBudget
<1> DEFINE s == input[c].session
           n == store[d].tools[s] + 1
           q == got[d][c]
<1>1. /\ TypeInv /\ d \in Deployments /\ c \in Calls /\ input[c] \in Inputs
      /\ pc[d][c] = "budget" /\ q \in ResultType
      /\ CallOK(Strict, d, c, input[c], "budget", q, log[d])
  BY DEF At, CallOK
<1>2. /\ s \in Sessions /\ input[c].kind = "tool" /\ ~q.ran
      /\ \A e \in Deployments, u \in Sessions : store[e].tools[u] \in Nat
  <2>1. s \in Sessions /\ input[c].kind = "tool"
    BY <1>1, InputFields DEF CallOK, Positions
  <2> QED BY <1>1, <2>1 DEF CallOK, ToolInv, TypeInv, StoreType
<1>3. UNCHANGED <<input, log>> /\ LogGrows
  BY <1>1, NoRecord DEF CheckToolCall
<1>4. \A r : Same(q, r) => Goes(Strict, d, c, input[c], "budget", r, log'[d])
  BY <1>1, <1>3, PlainGoes, StrictIsBoolean
<1>5. ASSUME NEW r \in ResultType, ~r.ran, NEW o \in Outcomes, End(d, c, r, o)
      PROVE  ~got'[d][c].ran /\ pc'[d][c] = "done"
  <2>1. PICK p : p = [r EXCEPT !.outcome = o]
    OBVIOUS
  <2>2. ~p.ran
    BY <1>5, <2>1 DEF ResultType
  <2> QED BY <1>1, <1>5, <2>1, <2>2 DEF End, TypeInv
<1>6. CASE Unanswered(d, c, "rate_limit")
  <2>1. "rate_limit" \in Operations
    BY DEF Operations
  <2>2. /\ Same(q, Skip(d, c, "rate_limit"))
        /\ "rate_limit" \in Skip(d, c, "rate_limit").skipped
    BY <2>1, SkipIsSame
  <2>3. Kept(d, c) /\ StoreKept /\ UNCHANGED store
    BY <1>4, <1>6, <2>1, <2>2, UnansweredKeeps DEF Unanswered
  <2>4. CASE Raise(d, c, q, "unavailable")
    <3>1. ~got'[d][c].ran /\ pc'[d][c] = "done"
      BY <1>1, <1>2, <1>5, <2>4 DEF Raise, Outcomes
    <3> QED BY <1>2, <1>3, <2>3, <3>1 DEF StoreKept
  <2>5. CASE Proceed(d, c, Skip(d, c, "rate_limit"))
    <3>1. got' = [got EXCEPT ![d][c] = Skip(d, c, "rate_limit")]
      BY <1>2, <2>5 DEF Proceed, Kind
    <3>2. "rate_limit" \in got'[d][c].skipped
      BY <1>1, <2>2, <3>1 DEF TypeInv
    <3> QED BY <1>2, <1>3, <2>3, <3>2 DEF StoreKept
  <2> QED BY <1>6, <2>4, <2>5 DEF Unanswered
<1>7. CASE store' = [store EXCEPT ![d].tools[s] = n]
  <2>1. n \in Nat
    BY <1>1, <1>2
  <2>2. /\ store' \in [Deployments -> StoreType]
        /\ store'[d].tools[s] = n
        /\ \A e \in Deployments, u \in Sessions :
              e # d \/ u # s => store'[e].tools[u] = store[e].tools[u]
    <3>1. Counted(d, s, n)
      BY <1>1, <1>2, <1>7, <2>1, ToolsAreCounted
    <3> QED BY <3>1 DEF Counted
  <2>3. ASSUME NEW e \in Deployments, NEW u \in Sessions
        PROVE  store'[e].tools[u] >= store[e].tools[u]
    <3>1. CASE e = d /\ u = s
      BY <1>2, <2>2, <3>1
    <3>2. CASE e # d \/ u # s
      BY <1>2, <2>2, <3>2
    <3> QED BY <3>1, <3>2
  <2>4. CASE End(d, c, q, "rate_limited")
    <3>1. ~got'[d][c].ran /\ pc'[d][c] = "done"
      BY <1>1, <1>2, <1>5, <2>4 DEF Outcomes
    <3>2. Kept(d, c)
      BY <1>1, <2>4, EndKeeps
    <3> QED BY <1>3, <2>2, <2>3, <3>1, <3>2
  <2>5. CASE n <= ToolBudget /\ Proceed(d, c, q)
    <3>1. Same(q, q)
      BY <1>1 DEF Same
    <3>2. Kept(d, c)
      BY <1>1, <1>4, <2>5, <3>1, ProceedKeeps
    <3> QED BY <1>3, <2>2, <2>3, <2>5, <3>2
  <2>6. ~OverBudget(n, ToolBudget) => n <= ToolBudget
    BY <2>1, PipelineAssumption DEF OverBudget
  <2> QED BY <1>6, <2>4, <2>5, <2>6 DEF CheckToolCall
<1> QED BY <1>6, <1>7 DEF CheckToolCall

(* The calls let through are as many as there are calls, at most.          *)
LEMMA PassedIsFinite ==
    ASSUME NEW d, NEW s
    PROVE  IsFiniteSet(Passed(d, s)) /\ Cardinality(Passed(d, s)) \in Nat
<1>1. IsFiniteSet(Passed(d, s))
  BY PipelineAssumption, FS_Subset DEF Passed
<1> QED BY <1>1, FS_CardinalityType

(* The tool calls that passed their budget are finitely many.              *)
LEMMA PassedIsFiniteNext ==
    ASSUME NEW d, NEW s
    PROVE  IsFiniteSet(Passed(d, s)') /\ Cardinality(Passed(d, s)') \in Nat
<1>1. Passed(d, s)' \subseteq Calls
  BY DEF Passed
<1>2. IsFiniteSet(Passed(d, s)')
  BY <1>1, PipelineAssumption, FS_Subset
<1> QED BY <1>2, FS_CardinalityType

(* Nobody is let through by the steps of others.                           *)
LEMMA OthersPassed ==
    ASSUME TypeInv, NEW d \in Deployments, NEW c \in Calls, Kept(d, c), UNCHANGED input,
           NEW e \in Deployments, NEW s \in Sessions
    PROVE  /\ Passed(e, s)' \subseteq Passed(e, s) \cup {c}
           /\ e # d \/ s # input[c].session => Passed(e, s)' \subseteq Passed(e, s)
           /\ pc[d][c] \notin {"budget", "done"} => Passed(e, s)' \subseteq Passed(e, s)
           /\ \/ ~got'[d][c].ran /\ pc'[d][c] = "done"
              \/ "rate_limit" \in got'[d][c].skipped
              => Passed(e, s)' \subseteq Passed(e, s)
<1>1. PICK step, r : /\ Moved(d, c, step, r)
                     /\ got[d][c].skipped \subseteq r.skipped
  BY DEF Kept
<1>2. /\ pc'[d][c] = step /\ got'[d][c] = r
      /\ \A b \in Calls : e # d \/ b # c => pc'[e][b] = pc[e][b] /\ got'[e][b] = got[e][b]
  BY <1>1 DEF Moved, TypeInv
<1>3. \A b \in Calls : (e # d \/ b # c) /\ b \in Passed(e, s)' => b \in Passed(e, s)
  BY <1>2 DEF Passed
<1>4. Passed(e, s)' \subseteq Calls
  BY DEF Passed
<1>5. s # input[c].session => c \notin Passed(e, s)'
  BY DEF Passed
<1>6. pc[d][c] \notin {"budget", "done"} /\ c \in Passed(d, s)' => c \in Passed(d, s)
  BY <1>1, <1>2 DEF Passed
<1>7. \/ ~got'[d][c].ran /\ pc'[d][c] = "done"
      \/ "rate_limit" \in got'[d][c].skipped
      => c \notin Passed(d, s)'
  BY DEF Passed
<1> QED BY <1>3, <1>4, <1>5, <1>6, <1>7

(* The budget holds after a step that lets nobody more through.            *)
LEMMA BudgetAfter ==
    ASSUME TypeInv, BudgetInv, store' \in [Deployments -> StoreType],
           \A e \in Deployments, s \in Sessions :
              \/ /\ Passed(e, s)' \subseteq Passed(e, s)
                 /\ store'[e].tools[s] >= store[e].tools[s]
              \/ /\ \E c \in Calls : Passed(e, s)' \subseteq Passed(e, s) \cup {c}
                 /\ store'[e].tools[s] = store[e].tools[s] + 1
                 /\ store'[e].tools[s] <= ToolBudget
    PROVE  BudgetInv'
<1> SUFFICES ASSUME NEW e \in Deployments, NEW s \in Sessions
             PROVE  /\ Cardinality(Passed(e, s)') <= store'[e].tools[s]
                    /\ Cardinality(Passed(e, s)') <= ToolBudget
  BY DEF BudgetInv
<1> DEFINE P == Passed(e, s)
           Q == Passed(e, s)'
<1>1. /\ Cardinality(P) <= store[e].tools[s] /\ Cardinality(P) <= ToolBudget
      /\ store[e].tools[s] \in Nat /\ store'[e].tools[s] \in Nat /\ ToolBudget \in Nat
  BY PipelineAssumption DEF BudgetInv, TypeInv, StoreType
<1>2. /\ IsFiniteSet(P) /\ Cardinality(P) \in Nat
      /\ IsFiniteSet(Q) /\ Cardinality(Q) \in Nat
  BY PassedIsFinite, PassedIsFiniteNext
<1>3. \/ Q \subseteq P /\ store'[e].tools[s] >= store[e].tools[s]
      \/ /\ \E c \in Calls : Q \subseteq P \cup {c}
         /\ store'[e].tools[s] = store[e].tools[s] + 1
         /\ store'[e].tools[s] <= ToolBudget
  OBVIOUS
<1> HIDE DEF P, Q
<1>4. CASE Q \subseteq P /\ store'[e].tools[s] >= store[e].tools[s]
  <2>1. Cardinality(Q) <= Cardinality(P)
    BY <1>2, <1>4, FS_Subset
  <2> QED BY <1>1, <1>2, <1>4, <2>1 DEF P, Q
<1>5. ASSUME NEW c \in Calls, Q \subseteq P \cup {c},
             store'[e].tools[s] = store[e].tools[s] + 1, store'[e].tools[s] <= ToolBudget
      PROVE  Cardinality(Q) <= store'[e].tools[s] /\ Cardinality(Q) <= ToolBudget
  <2>1. IsFiniteSet(P \cup {c}) /\ Cardinality(P \cup {c}) <= Cardinality(P) + 1
    <3>1. /\ IsFiniteSet(P \cup {c})
          /\ Cardinality(P \cup {c}) = IF c \in P THEN Cardinality(P) ELSE Cardinality(P) + 1
      BY <1>2, FS_AddElement
    <3> QED BY <1>2, <3>1
  <2>2. Cardinality(Q) <= Cardinality(P \cup {c})
    BY <1>5, <2>1, FS_Subset
  <2>3. Cardinality(P \cup {c}) \in Nat
    BY <2>1, FS_CardinalityType
  <2> QED BY <1>1, <1>2, <1>5, <2>1, <2>2, <2>3
<1>6. CASE \E c \in Calls : /\ Q \subseteq P \cup {c}
                            /\ store'[e].tools[s] = store[e].tools[s] + 1
                            /\ store'[e].tools[s] <= ToolBudget
  BY <1>5, <1>6 DEF Q
<1> QED BY <1>3, <1>4, <1>6

(* Every step but the check of a tool budget keeps the invariant.          *)
LEMMA WalkKeepsInv ==
    ASSUME PipelineInv, NEW d \in Deployments, NEW c \in Calls, input[c] \in Inputs,
           Walks(d, c), UNCHANGED closed
    PROVE  PipelineInv'
<1>1. TypeInv' /\ CallsInv'
  BY CallsAfter DEF PipelineInv, Walks, StoreKept
<1>2. \A e \in Deployments, s \in Sessions :
          /\ Passed(e, s)' \subseteq Passed(e, s)
          /\ store'[e].tools[s] >= store[e].tools[s]
  <2> SUFFICES ASSUME NEW e \in Deployments, NEW s \in Sessions
               PROVE  /\ Passed(e, s)' \subseteq Passed(e, s)
                      /\ store'[e].tools[s] >= store[e].tools[s]
    OBVIOUS
  <2>1. Passed(e, s)' \subseteq Passed(e, s)
    BY OthersPassed DEF PipelineInv, Walks
  <2>2. store[e].tools[s] \in Nat /\ store'[e].tools[s] = store[e].tools[s]
    BY DEF PipelineInv, TypeInv, StoreType, Walks, StoreKept
  <2> QED BY <2>1, <2>2
<1>3. BudgetInv'
  BY <1>2, BudgetAfter DEF PipelineInv, Walks, StoreKept
<1> QED BY <1>1, <1>3 DEF PipelineInv

(* check_tool_call keeps it too: what passes is counted.                   *)
LEMMA CheckToolCallKeepsInv ==
    ASSUME PipelineInv, NEW d \in Deployments, NEW c \in Calls, input[c] \in Inputs,
           At(d, c, "budget"), CheckToolCall(d, c), UNCHANGED closed
    PROVE  PipelineInv'
<1>1. /\ Kept(d, c) /\ LogGrows /\ UNCHANGED input
      /\ store' \in [Deployments -> StoreType]
  BY StepBudget
<1>2. TypeInv' /\ CallsInv'
  BY <1>1, CallsAfter DEF PipelineInv
<1>3. ASSUME NEW e \in Deployments, NEW s \in Sessions
      PROVE  \/ /\ Passed(e, s)' \subseteq Passed(e, s)
                /\ store'[e].tools[s] >= store[e].tools[s]
             \/ /\ \E b \in Calls : Passed(e, s)' \subseteq Passed(e, s) \cup {b}
                /\ store'[e].tools[s] = store[e].tools[s] + 1
                /\ store'[e].tools[s] <= ToolBudget
  <2>1. store'[e].tools[s] >= store[e].tools[s]
    BY StepBudget
  <2>2. /\ Passed(e, s)' \subseteq Passed(e, s) \cup {c}
        /\ e # d \/ s # input[c].session => Passed(e, s)' \subseteq Passed(e, s)
        /\ \/ ~got'[d][c].ran /\ pc'[d][c] = "done"
           \/ "rate_limit" \in got'[d][c].skipped
           => Passed(e, s)' \subseteq Passed(e, s)
    BY <1>1, OthersPassed DEF PipelineInv
  <2>3. \/ ~got'[d][c].ran /\ pc'[d][c] = "done"
        \/ "rate_limit" \in got'[d][c].skipped
        \/ /\ store'[d].tools[input[c].session] = store[d].tools[input[c].session] + 1
           /\ store'[d].tools[input[c].session] <= ToolBudget
    BY StepBudget
  <2> QED BY <2>1, <2>2, <2>3
<1>4. BudgetInv'
  BY <1>1, <1>3, BudgetAfter DEF PipelineInv
<1> QED BY <1>2, <1>4 DEF PipelineInv

(* A call arrives: nothing has been let through, nor recorded.             *)
LEMMA ArriveKeepsInv ==
    ASSUME PipelineInv, NEW c \in Calls, Arrive(c), UNCHANGED closed
    PROVE  PipelineInv'
<1>1. /\ TypeInv /\ CallsInv /\ BudgetInv /\ input[c] = NoInput
      /\ UNCHANGED <<store, log, closed>>
  BY DEF PipelineInv, Arrive
<1>2. PICK i \in Inputs :
          /\ input' = [input EXCEPT ![c] = i]
          /\ pc' = [d \in Deployments |-> [pc[d] EXCEPT ![c] = Steps[i.kind][1]]]
          /\ got' = [d \in Deployments |->
                        [got[d] EXCEPT ![c].score = IF i.kind = "tool" THEN 0 ELSE i.lexical]]
  BY DEF Arrive
<1>3. /\ i.kind \in DOMAIN Positions /\ i.lexical \in Nat /\ i # NoInput
  BY InputFields
<1>4. PICK first : first = Steps[i.kind][1]
  OBVIOUS
<1>5. /\ i.kind = "input" => first = "request"
      /\ i.kind = "external" => first = "detect"
      /\ i.kind = "batch" => first = "audit"
      /\ i.kind = "media" => first = "detect"
      /\ i.kind = "tool" => first = "budget"
      /\ i.kind = "output" => first = "reply"
      /\ i.kind = "chat" => first = "request"
      /\ i.kind = "followup" => first = "model"
      /\ i.kind = "retrieve" => first = "audit"
  BY <1>4 DEF Steps
<1>6. first \in Positions[i.kind] /\ first \in Stages /\ first # "done" /\ first # "denial"
  BY <1>3, <1>5 DEF Positions, Stages
<1>7. PICK n \in Nat : n = IF i.kind = "tool" THEN 0 ELSE i.lexical
  BY <1>3
<1>8. PICK r : r = [NoResult EXCEPT !.score = n]
  OBVIOUS
<1>9. /\ r \in ResultType /\ r.score = n /\ r.outcome = "none" /\ ~r.ran /\ r.skipped = {}
      /\ NoResult \in ResultType
  BY <1>7, <1>8 DEF NoResult, ResultType, Outcomes
<1>10. \A d \in Deployments : got[d][c] = NoResult
  BY <1>1 DEF CallsInv
<1>11. /\ got' = [d \in Deployments |-> [got[d] EXCEPT ![c] = r]]
       /\ pc' = [d \in Deployments |-> [pc[d] EXCEPT ![c] = first]]
  <2>1. \A d \in Deployments : [got[d] EXCEPT ![c].score = n] = [got[d] EXCEPT ![c] = r]
    BY <1>8, <1>10
  <2> QED BY <1>2, <1>4, <1>7, <2>1
<1>12. TypeInv'
  <2>1. pc' \in [Deployments -> [Calls -> Stages]]
    BY <1>1, <1>6, <1>11 DEF TypeInv
  <2>2. got' \in [Deployments -> [Calls -> ResultType]]
    BY <1>1, <1>9, <1>11 DEF TypeInv
  <2>3. input' \in [Calls -> Inputs \cup {NoInput}]
    BY <1>1, <1>2 DEF TypeInv
  <2> QED BY <1>1, <2>1, <2>2, <2>3 DEF TypeInv
<1>13. \A d, records : CallOK(Strict, d, c, i, first, r, records)
  <2> TAKE d, records
  <2>1. OutcomeInv(first, r)
    BY <1>6, <1>9 DEF OutcomeInv
  <2>2. ToolInv(d, i, first, r)
    BY <1>5, <1>9 DEF ToolInv
  <2>3. RetrieveInv(i, first, r)
    BY <1>5, <1>7, <1>9 DEF RetrieveInv
  <2>4. ModelInv(i, first, r)
    BY <1>9 DEF ModelInv
  <2>5. RecordInv(c, i, first, r, records)
    <3>1. ~Judgement(first, r)
      BY <1>6 DEF Judgement
    <3>2. i.kind \in DOMAIN Scanned => first \notin Scanned[i.kind]
      BY <1>3, <1>5 DEF Scanned, Positions
    <3>3. i.kind = "tool" => first = "budget"
      BY <1>5
    <3> QED BY <3>1, <3>2, <3>3 DEF RecordInv
  <2> QED BY <1>6, <1>9, <2>1, <2>2, <2>3, <2>4, <2>5 DEF CallOK
<1>14. CallsInv'
  <2>1. ASSUME NEW d \in Deployments, NEW b \in Calls
        PROVE  IF input'[b] = NoInput THEN pc'[d][b] = "idle" /\ got'[d][b] = NoResult
               ELSE CallOK(Strict, d, b, input'[b], pc'[d][b], got'[d][b], log'[d])
    <3>1. CASE b = c
      <4>1. input'[b] = i /\ pc'[d][b] = first /\ got'[d][b] = r
        BY <1>1, <1>2, <1>11, <3>1 DEF TypeInv
      <4> QED BY <1>3, <1>13, <3>1, <4>1
    <3>2. CASE b # c
      <4>1. input'[b] = input[b] /\ pc'[d][b] = pc[d][b] /\ got'[d][b] = got[d][b]
        BY <1>1, <1>2, <1>11, <3>2 DEF TypeInv
      <4> QED BY <1>1, <4>1 DEF CallsInv
    <3> QED BY <3>1, <3>2
  <2>2. Strict' = Strict
    BY DEF Strict
  <2> QED BY <2>1, <2>2 DEF CallsInv
<1>15. BudgetInv'
  <2>1. ASSUME NEW d \in Deployments, NEW s \in Sessions
        PROVE  /\ Passed(d, s)' \subseteq Passed(d, s)
               /\ store'[d].tools[s] >= store[d].tools[s]
    <3>1. \A b \in Calls : b # c => /\ input'[b] = input[b] /\ pc'[d][b] = pc[d][b]
                                     /\ got'[d][b] = got[d][b]
      BY <1>1, <1>2, <1>11 DEF TypeInv
    <3>2. c \notin Passed(d, s)'
      <4>1. input'[c] = i /\ pc'[d][c] = first /\ got'[d][c] = r
        BY <1>1, <1>2, <1>11 DEF TypeInv
      <4> QED BY <1>5, <1>9, <4>1 DEF Passed
    <3>3. Passed(d, s)' \subseteq Passed(d, s)
      BY <3>1, <3>2 DEF Passed
    <3>4. store[d].tools[s] \in Nat
      BY <1>1 DEF TypeInv, StoreType
    <3> QED BY <1>1, <3>3, <3>4
  <2>2. store' \in [Deployments -> StoreType]
    BY <1>1 DEF TypeInv
  <2> QED BY <1>1, <2>1, <2>2, BudgetAfter
<1> QED BY <1>12, <1>14, <1>15 DEF PipelineInv

(* At first nothing has been asked.                                        *)
LEMMA InitPipeline == Init => PipelineInv
<1> SUFFICES ASSUME Init PROVE PipelineInv
  OBVIOUS
<1>1. NoResult \in ResultType
  BY DEF NoResult, ResultType, Outcomes
<1>2. TypeInv
  BY <1>1, PipelineAssumption DEF Init, TypeInv, StoreType, Stages
<1>3. CallsInv
  BY DEF Init, CallsInv
<1>4. BudgetInv
  <2> SUFFICES ASSUME NEW d \in Deployments, NEW s \in Sessions
               PROVE  /\ Cardinality(Passed(d, s)) <= store[d].tools[s]
                      /\ Cardinality(Passed(d, s)) <= ToolBudget
    BY DEF BudgetInv
  <2>1. Passed(d, s) = {}
    BY DEF Passed, Init
  <2>2. store[d].tools[s] = 0
    BY DEF Init
  <2> QED BY <2>1, <2>2, FS_EmptySet, PipelineAssumption
<1> QED BY <1>2, <1>3, <1>4 DEF PipelineInv

(* A round trip is taken by a call that has arrived and is at it.          *)
LEMMA AdvanceWalks ==
    ASSUME PipelineInv, NEW d \in Deployments, NEW c \in Calls, Advance(d, c)
    PROVE  /\ input[c] \in Inputs
           /\ Walks(d, c) \/ (At(d, c, "budget") /\ CheckToolCall(d, c))
<1>1. /\ pc[d][c] # "idle"
      /\ \A step \in Stages : pc[d][c] = step /\ step # "idle" => At(d, c, step)
  <2>1. pc[d][c] # "idle"
    BY DEF Advance, Scan, Tool, Chain, CheckRequest, Detect, AuditScan, ChargeSession, ChargeActor,
           CheckToolCall, ScanArguments, Authorize, Invoke, AuditAllowed, AuditDenied, JudgeResult,
           CallModel, ScanReply, Verify, AuditUnverified
  <2> QED BY <2>1 DEF PipelineInv, TypeInv, CallsInv, At
<1>2. input[c] \in Inputs
  BY <1>1 DEF PipelineInv, TypeInv, CallsInv
<1>3. CheckToolCall(d, c) => At(d, c, "budget")
  BY <1>1 DEF CheckToolCall, Stages
<1>4. CheckRequest(d, c) => Walks(d, c)
  BY <1>1, StepRequest DEF CheckRequest, Stages
<1>5. Scan(d, c) => Walks(d, c)
  <2>1. Detect(d, c) => Walks(d, c)
    BY <1>1, StepDetect DEF Detect, Stages
  <2>2. AuditScan(d, c) => Walks(d, c)
    BY <1>1, StepAudit DEF AuditScan, Stages
  <2>3. ASSUME ChargeSession(d, c) \/ ChargeActor(d, c) PROVE Walks(d, c)
    <3>1. PICK step \in {"session", "actor"} : pc[d][c] = step
      BY <2>3 DEF ChargeSession, ChargeActor
    <3>2. At(d, c, step)
      BY <1>1, <3>1 DEF Stages
    <3> QED BY <2>3, <3>2, StepCharges
  <2> QED BY <2>1, <2>2, <2>3 DEF Scan
<1>6. Tool(d, c) => Walks(d, c) \/ CheckToolCall(d, c)
  <2>1. ScanArguments(d, c) => Walks(d, c)
    BY <1>1, StepArguments DEF ScanArguments, Stages
  <2>2. Authorize(d, c) => Walks(d, c)
    BY <1>1, StepAuthorize DEF Authorize, Stages
  <2>3. Invoke(d, c) => Walks(d, c)
    BY <1>1, StepInvoke DEF Invoke, Stages
  <2>4. AuditAllowed(d, c) => Walks(d, c)
    BY <1>1, StepAllow DEF AuditAllowed, Stages
  <2>5. AuditDenied(d, c) => Walks(d, c)
    BY <1>1, StepDenial DEF AuditDenied, Stages
  <2>6. JudgeResult(d, c) => Walks(d, c)
    BY <1>1, StepResult DEF JudgeResult, Stages
  <2> QED BY <2>1, <2>2, <2>3, <2>4, <2>5, <2>6 DEF Tool
<1>7. Chain(d, c) => Walks(d, c)
  <2>1. CallModel(d, c) => Walks(d, c)
    BY <1>1, StepModel DEF CallModel, Stages
  <2>2. ScanReply(d, c) => Walks(d, c)
    BY <1>1, StepReply DEF ScanReply, Stages
  <2>3. Verify(d, c) => Walks(d, c)
    BY <1>1, StepVerify DEF Verify, Stages
  <2>4. AuditUnverified(d, c) => Walks(d, c)
    BY <1>1, StepUnverified DEF AuditUnverified, Stages
  <2> QED BY <2>1, <2>2, <2>3, <2>4 DEF Chain
<1> QED BY <1>2, <1>3, <1>4, <1>5, <1>6, <1>7 DEF Advance

(* Only the call that advances is touched, and it stays all right.         *)
LEMMA AdvanceKeeps ==
    ASSUME PipelineInv, NEW d \in Deployments, NEW c \in Calls, Advance(d, c)
    PROVE  Kept(d, c)
BY AdvanceWalks, StepBudget DEF Walks

(* It keeps the invariant.                                                 *)
LEMMA AdvanceKeepsInv ==
    ASSUME PipelineInv, NEW d \in Deployments, NEW c \in Calls, Advance(d, c), UNCHANGED closed
    PROVE  PipelineInv'
BY AdvanceWalks, WalkKeepsInv, CheckToolCallKeepsInv

(* Each action keeps the invariant.                                        *)
LEMMA StepPipeline == PipelineInv /\ [Next]_vars => PipelineInv'
<1> SUFFICES ASSUME PipelineInv, [Next]_vars PROVE PipelineInv'
  OBVIOUS
<1>1. ASSUME NEW c \in Calls, Arrive(c), UNCHANGED closed PROVE PipelineInv'
  BY <1>1, ArriveKeepsInv
<1>2. ASSUME NEW d \in Deployments, NEW c \in Calls, Advance(d, c), UNCHANGED closed
      PROVE  PipelineInv'
  BY <1>2, AdvanceKeepsInv
<1>3. CASE UNCHANGED vars
  BY <1>3 DEF vars, PipelineInv, TypeInv, CallsInv, BudgetInv, Passed, Strict
<1> QED BY <1>1, <1>2, <1>3 DEF Next

(* The invariant holds of every run of the pipeline.                       *)
THEOREM PipelineInvariant == Spec => []PipelineInv
BY InitPipeline, StepPipeline, PTL DEF Spec

(* check_tool_call_budget: however tool calls interleave, no more of a     *)
(* session's run than its budget, unless the counter was unavailable and   *)
(* its policy is open.                                                     *)
THEOREM ToolsWithinBudget == Spec => []ToolsStayInBudget
<1>1. PipelineInv => ToolsStayInBudget
  <2> SUFFICES ASSUME PipelineInv, NEW d \in Deployments, NEW s \in Sessions
               PROVE  Cardinality({c \in Calls : /\ input[c] # NoInput
                                   /\ Kind(c) = "tool" /\ input[c].session = s
                                   /\ got[d][c].ran /\ "rate_limit" \notin got[d][c].skipped})
                        <= ToolBudget
    BY DEF ToolsStayInBudget
  <2>1. PICK ran : ran = {c \in Calls : /\ input[c] # NoInput
                                   /\ Kind(c) = "tool" /\ input[c].session = s
                                   /\ got[d][c].ran /\ "rate_limit" \notin got[d][c].skipped}
    OBVIOUS
  <2>2. ran \subseteq Passed(d, s)
    BY <2>1 DEF Passed, Kind
  <2>3. /\ IsFiniteSet(Passed(d, s)) /\ Cardinality(Passed(d, s)) \in Nat
        /\ Cardinality(Passed(d, s)) <= ToolBudget
    BY PassedIsFinite DEF PipelineInv, BudgetInv
  <2>4. IsFiniteSet(ran) /\ Cardinality(ran) <= Cardinality(Passed(d, s))
    BY <2>2, <2>3, FS_Subset
  <2>5. Cardinality(ran) \in Nat
    BY <2>4, FS_CardinalityType
  <2>6. Cardinality(ran) <= ToolBudget
    BY <2>3, <2>4, <2>5, PipelineAssumption
  <2> QED BY <2>1, <2>6
<1> QED BY <1>1, PipelineInvariant, PTL

(* What the scan, the detectors or the record of its ingest would refuse   *)
(* is not handed to the model, whatever became of the records.             *)
THEOREM PoisonIsWithheld == Spec => []PoisonedResultIsWithheld
<1>1. PipelineInv => PoisonedResultIsWithheld
  <2> SUFFICES ASSUME PipelineInv, NEW d \in Deployments, NEW c \in Calls, Over(d, c),
                      Outcome(d, c) = "allowed"
               PROVE  /\ Kind(c) = "tool" /\ Enforced(d) =>
                          /\ input[c].lexical < InputThreshold
                          /\ input[c].semantic < InputThreshold \/ "detector" \in got[d][c].skipped
                      /\ Kind(c) = "retrieve" =>
                          /\ input[c].lexical < InputThreshold
                          /\ input[c].allowed \/ "provenance" \in got[d][c].skipped
    BY DEF PoisonedResultIsWithheld
  <2>1. CallOK(Strict, d, c, input[c], pc[d][c], got[d][c], log[d])
    BY DEF PipelineInv, CallsInv, Over
  <2> QED BY <2>1 DEF CallOK, ToolInv, RetrieveInv, Over, Outcome, Kind
<1> QED BY <1>1, PipelineInvariant, PTL

(* Under a closed audit policy no verdict is returned that is not on       *)
(* record, whichever of a call's round trips fail.                         *)
THEOREM VerdictsAreOnRecord == Spec => []ReturnedIsOnRecord
<1>1. PipelineInv => ReturnedIsOnRecord
  <2> SUFFICES ASSUME PipelineInv, "audit" \in closed, NEW d \in Deployments, NEW c \in Calls,
                      Over(d, c), Outcome(d, c) \in {"allowed", "blocked"},
                      NEW event \in Owes(d, c)
               PROVE  [call |-> c, event |-> event] \in log[d]
    BY DEF ReturnedIsOnRecord
  <2>1. CallOK(Strict, d, c, input[c], "done", got[d][c], log[d])
    BY DEF PipelineInv, CallsInv, Over
  <2>2. /\ RecordInv(c, input[c], "done", got[d][c], log[d]) /\ Judgement("done", got[d][c])
        /\ Kind(c) = input[c].kind
    BY <2>1 DEF CallOK, Strict, Judgement, Outcome, Kind
  <2>3. CASE event = "allowed"
    <3>1. Kind(c) = "tool"
      BY <2>3 DEF Owes
    <3> QED BY <2>2, <2>3, <3>1 DEF RecordInv
  <2>4. CASE event = "output_scan"
    <3>1. Kind(c) = "output" \/ (Kind(c) \in Replying /\ got[d][c].ran)
      BY <2>4 DEF Owes
    <3>2. Kind(c) \in Replying
      BY <3>1 DEF Replying
    <3> QED BY <2>2, <2>4, <3>1, <3>2 DEF RecordInv
  <2>5. CASE event \notin {"allowed", "output_scan"}
    <3>1. Kind(c) \in DOMAIN ScanEvent \ {"tool"} /\ event = ScanEvent[Kind(c)]
      BY <2>5 DEF Owes
    <3>2. Kind(c) \in DOMAIN Scanned
      BY <3>1 DEF ScanEvent, Scanned
    <3> QED BY <2>2, <3>1, <3>2 DEF RecordInv
  <2> QED BY <2>3, <2>4, <2>5
<1> QED BY <1>1, PipelineInvariant, PTL
----------------------------------------------------------------------------
(* What a round trip leaves a call with: its next step, what r says but    *)
(* for the outcome, and o; no other call is touched.                       *)
Gets(d, c, step, r, o) ==
    /\ pc'[d][c] = step
    /\ got'[d][c].outcome = o /\ got'[d][c].score = r.score /\ got'[d][c].ran = r.ran
    /\ got'[d][c].flagged = r.flagged /\ got'[d][c].limited = r.limited
    /\ got'[d][c].skipped = r.skipped
    /\ \A e \in Deployments, b \in Calls :
          e # d \/ b # c => pc'[e][b] = pc[e][b] /\ got'[e][b] = got[e][b]

(* A step and a result, written for one call.                              *)
LEMMA MovedGets ==
    ASSUME TypeInv, NEW d \in Deployments, NEW c \in Calls, NEW step,
           NEW r \in ResultType, NEW o \in Outcomes, Moved(d, c, step, [r EXCEPT !.outcome = o])
    PROVE  Gets(d, c, step, r, o)
<1>1. PICK q : q = [r EXCEPT !.outcome = o]
  OBVIOUS
<1>2. /\ q.outcome = o /\ q.score = r.score /\ q.ran = r.ran
      /\ q.flagged = r.flagged /\ q.limited = r.limited /\ q.skipped = r.skipped
  BY <1>1 DEF ResultType
<1>3. Moved(d, c, step, q)
  BY <1>1
<1> QED BY <1>2, <1>3 DEF Moved, Gets, TypeInv

(* On to the next round trip, or to the verdict.                           *)
LEMMA ProceedGets ==
    ASSUME NEW d, NEW c, NEW step, At(d, c, step), step \notin {"done", "denial", "unverified"},
           NEW r \in ResultType, Proceed(d, c, r)
    PROVE  LET next == Follows[input[c].kind][step]
           IN  Gets(d, c, next, r, IF next = "done" /\ input[c].kind # "tool"
                                   THEN Judged(d, c, r) ELSE r.outcome)
<1> DEFINE kind == input[c].kind
           next == Follows[kind][step]
           o    == IF next = "done" /\ kind # "tool" THEN Judged(d, c, r) ELSE r.outcome
<1>1. /\ TypeInv /\ d \in Deployments /\ c \in Calls /\ pc[d][c] = step /\ Kind(c) = kind
      /\ kind \in DOMAIN Positions /\ step \in Positions[kind] \ {"done", "denial", "unverified"}
  BY InputFields DEF At, CallOK, Kind
<1>2. After(c, step) = next
  BY <1>1, AfterFollows
<1>3. o \in Outcomes /\ r.outcome \in Outcomes
  BY DEF Judged, Outcomes, ResultType
<1>4. r = [r EXCEPT !.outcome = r.outcome]
  BY DEF ResultType
<1>5. Moved(d, c, next, [r EXCEPT !.outcome = o])
  BY <1>1, <1>2, <1>4 DEF Proceed, Moved
<1> HIDE DEF next, o
<1>6. Gets(d, c, next, r, o)
  BY <1>1, <1>3, <1>5, MovedGets
<1> QED BY <1>6 DEF next, o

(* The end of a call.                                                      *)
LEMMA EndGets ==
    ASSUME NEW d, NEW c, NEW step, At(d, c, step), NEW r \in ResultType,
           NEW o \in Outcomes, End(d, c, r, o)
    PROVE  Gets(d, c, "done", r, o)
BY MovedGets DEF At, End, Moved

(* The denial of a tool call.                                              *)
LEMMA RefuseGets ==
    ASSUME NEW d, NEW c, NEW step, At(d, c, step), NEW r \in ResultType,
           NEW o \in Outcomes, Refuse(d, c, r, o)
    PROVE  Gets(d, c, "denial", r, o)
BY MovedGets DEF At, Refuse, Moved

(* An error, which ends a call that is not a tool's.                       *)
LEMMA RaiseGets ==
    ASSUME NEW d, NEW c, NEW step, At(d, c, step), Raise(d, c, got[d][c], "unavailable")
    PROVE  /\ Gets(d, c, "done", got[d][c], "unavailable")
              \/ Gets(d, c, "denial", got[d][c], "unavailable")
           /\ input[c].kind # "tool" => Gets(d, c, "done", got[d][c], "unavailable")
<1>1. got[d][c] \in ResultType /\ pc[d][c] = step /\ step \in Positions[input[c].kind]
      /\ "unavailable" \in Outcomes
  BY DEF At, CallOK, Outcomes
<1>2. CASE step \in {"authorize", "invoke", "allow"}
  <2>1. input[c].kind = "tool"
    BY <1>1, <1>2, InputFields DEF At, Positions
  <2>2. Refuse(d, c, got[d][c], "unavailable")
    BY <1>1, <1>2 DEF Raise
  <2> QED BY <1>1, <2>1, <2>2, RefuseGets
<1>3. CASE step \notin {"authorize", "invoke", "allow"}
  BY <1>1, <1>3, EndGets DEF Raise
<1> QED BY <1>2, <1>3

(* What is skipped is all that is new in r.                                *)
Only(q, r) ==
    /\ r \in ResultType /\ q.skipped \subseteq r.skipped
    /\ r.outcome = q.outcome /\ r.ran = q.ran /\ r.score = q.score
    /\ r.flagged = q.flagged /\ r.limited = q.limited

(* ... of a call some operation of which was skipped.                      *)
LEMMA SkipIsOnly ==
    ASSUME NEW d, NEW c, NEW step, At(d, c, step), NEW operation \in Operations
    PROVE  /\ Only(got[d][c], got[d][c])
           /\ Only(got[d][c], Skip(d, c, operation))
           /\ operation \in Skip(d, c, operation).skipped
<1>1. got[d][c] \in ResultType
  BY DEF At, CallOK
<1>2. PICK S : S = got[d][c].skipped \cup {operation}
  OBVIOUS
<1>3. S \in SUBSET Operations
  BY <1>1, <1>2 DEF ResultType
<1>4. Skip(d, c, operation) = [got[d][c] EXCEPT !.skipped = S]
  BY <1>2 DEF Skip
<1> QED BY <1>1, <1>2, <1>3, <1>4 DEF Only, ResultType

(* ... or the record of which may be lost.                                 *)
LEMMA ResultsAreOnly ==
    ASSUME NEW d, NEW c, NEW step, At(d, c, step), NEW r \in Results(d, c)
    PROVE  Only(got[d][c], r)
<1>1. "audit" \in Operations
  BY DEF Operations
<1> QED BY <1>1, SkipIsOnly DEF Results

----------------------------------------------------------------------------
(* Nothing is charged.                                                     *)
Rests ==
    /\ UNCHANGED <<charged, owed>>
    /\ \A e \in Deployments : store'[e].risk = store[e].risk /\ store'[e].flag = store[e].flag
    /\ \A e \in Deployments, b \in Calls : got'[e][b].flagged = got[e][b].flagged

(* A key is charged the score of a call, and the call told of its flag.    *)
ChargesKey(d, c, k) ==
    /\ charged' = [charged EXCEPT ![d] =
                      Append(@, [call |-> c, key |-> k, owed |-> owed[d][k] + got[d][c].score])]
    /\ owed' = [owed EXCEPT ![d][k] = owed[d][k] + got[d][c].score]
    /\ store'[d].risk[k] = Cumulative(d, c, k) /\ store'[d].flag[k] = Flags(d, c, k)
    /\ \A e \in Deployments, j \in Keys : e # d \/ j # k =>
          store'[e].risk[j] = store[e].risk[j] /\ store'[e].flag[j] = store[e].flag[j]
    /\ got'[d][c].flagged = (got[d][c].flagged \/ Flags(d, c, k))
    /\ \A e \in Deployments, b \in Calls : e # d \/ b # c =>
          got'[e][b].flagged = got[e][b].flagged

(* The request counters after one of them is set.                          *)
Requested(d, s, n) ==
    /\ \A e \in Deployments : store'[e].risk = store[e].risk /\ store'[e].flag = store[e].flag
    /\ \A e \in Deployments, u \in Sessions :
          store'[e].requests[u] = IF e = d /\ u = s THEN n ELSE store[e].requests[u]

(* A request that is counted, in the other fields of a store.              *)
LEMMA RequestIsCounted ==
    ASSUME TypeInv, NEW d \in Deployments, NEW s \in Sessions, NEW n \in Nat,
           store' = [store EXCEPT ![d].requests[s] = n]
    PROVE  Requested(d, s, n)
<1>1. PICK q : q = [store[d].requests EXCEPT ![s] = n]
  OBVIOUS
<1>2. store[d] \in StoreType /\ q \in [Sessions -> Nat]
  BY <1>1 DEF TypeInv, StoreType
<1>3. PICK p : p = [store[d] EXCEPT !.requests = q]
  OBVIOUS
<1>4. p.requests = q /\ p.risk = store[d].risk /\ p.flag = store[d].flag
  BY <1>2, <1>3 DEF StoreType
<1>5. store' = [store EXCEPT ![d] = p]
  BY <1>1, <1>3
<1>6. \A u \in Sessions : q[u] = IF u = s THEN n ELSE store[d].requests[u]
  BY <1>1, <1>2 DEF StoreType
<1> QED BY <1>4, <1>5, <1>6 DEF TypeInv, Requested

(* A tool call that is counted leaves the risks alone.                     *)
LEMMA ToolsKeepRisks ==
    ASSUME TypeInv, NEW d \in Deployments, NEW s \in Sessions, NEW n \in Nat,
           store' = [store EXCEPT ![d].tools[s] = n]
    PROVE  \A e \in Deployments : store'[e].risk = store[e].risk /\ store'[e].flag = store[e].flag
<1>1. PICK q : q = [store[d].tools EXCEPT ![s] = n]
  OBVIOUS
<1>2. store[d] \in StoreType
  BY DEF TypeInv
<1>3. PICK p : p = [store[d] EXCEPT !.tools = q]
  OBVIOUS
<1>4. p.risk = store[d].risk /\ p.flag = store[d].flag
  BY <1>2, <1>3 DEF StoreType
<1>5. store' = [store EXCEPT ![d] = p]
  BY <1>1, <1>3
<1> QED BY <1>4, <1>5 DEF TypeInv

(* The risks, flags and counters after a charge.                           *)
Billed(d, k, n, b) ==
    /\ store'[d].risk[k] = n /\ store'[d].flag[k] = b
    /\ \A e \in Deployments, j \in Keys : e # d \/ j # k =>
          store'[e].risk[j] = store[e].risk[j] /\ store'[e].flag[j] = store[e].flag[j]
    /\ \A e \in Deployments : store'[e].requests = store[e].requests

(* A charge, in the other fields of a store.                               *)
LEMMA ChargeIsBilled ==
    ASSUME TypeInv, NEW d \in Deployments, NEW k \in Keys, NEW n \in Nat, NEW b \in BOOLEAN,
           store' = [store EXCEPT ![d].risk[k] = n, ![d].flag[k] = b]
    PROVE  Billed(d, k, n, b)
<1>1. PICK q : q = [store[d].risk EXCEPT ![k] = n]
  OBVIOUS
<1>2. PICK f : f = [store[d].flag EXCEPT ![k] = b]
  OBVIOUS
<1>3. store[d] \in StoreType /\ q \in [Keys -> Nat] /\ f \in [Keys -> BOOLEAN]
  BY <1>1, <1>2 DEF TypeInv, StoreType
<1>4. PICK p : p = [store[d] EXCEPT !.risk = q]
  OBVIOUS
<1>5. p \in StoreType /\ p.requests = store[d].requests /\ p.flag = store[d].flag /\ p.risk = q
  BY <1>3, <1>4 DEF StoreType
<1>6. PICK t : t = [p EXCEPT !.flag = f]
  OBVIOUS
<1>7. t \in StoreType /\ t.requests = store[d].requests /\ t.risk = q /\ t.flag = f
  BY <1>3, <1>5, <1>6 DEF StoreType
<1>8. store' = [store EXCEPT ![d] = t]
  <2>1. [store EXCEPT ![d].risk[k] = n] = [store EXCEPT ![d] = p]
    BY <1>1, <1>4
  <2>2. store' = [[store EXCEPT ![d] = p] EXCEPT ![d].flag[k] = b]
    BY <2>1
  <2>3. PICK u : u = [store EXCEPT ![d] = p]
    OBVIOUS
  <2>4. u[d] = p
    BY <2>3 DEF TypeInv
  <2>5. store' = [u EXCEPT ![d] = [u[d] EXCEPT !.flag = [u[d].flag EXCEPT ![k] = b]]]
    BY <2>2, <2>3
  <2>6. store' = [u EXCEPT ![d] = t]
    BY <2>4, <2>5, <1>2, <1>5, <1>6
  <2> QED BY <2>3, <2>6 DEF TypeInv
<1>9. store'[d] = t /\ \A e \in Deployments : e # d => store'[e] = store[e]
  BY <1>8 DEF TypeInv
<1>10. q[k] = n /\ \A j \in Keys : j # k => q[j] = store[d].risk[j]
  BY <1>1, <1>3 DEF StoreType, TypeInv
<1>11. f[k] = b /\ \A j \in Keys : j # k => f[j] = store[d].flag[j]
  BY <1>2, <1>3 DEF StoreType, TypeInv
<1> QED BY <1>7, <1>9, <1>10, <1>11 DEF Billed

(* A call that is told nothing of a flag.                                  *)
LEMMA GetsRests ==
    ASSUME TypeInv, NEW d \in Deployments, NEW c \in Calls, NEW step, NEW r, NEW o,
           Gets(d, c, step, r, o), r.flagged = got[d][c].flagged, UNCHANGED <<charged, owed>>,
           \A e \in Deployments : store'[e].risk = store[e].risk /\ store'[e].flag = store[e].flag
    PROVE  Rests
BY DEF Gets, Rests

(* A call whose record failed.                                             *)
LEMMA UnrecordedRests ==
    ASSUME NEW d, NEW c, NEW step, At(d, c, step), Unrecorded(d, c),
           UNCHANGED <<store, charged, owed>>
    PROVE  Rests
BY RaiseGets, GetsRests DEF Unrecorded, At

(* A call whose round trip failed.                                         *)
LEMMA UnansweredRests ==
    ASSUME NEW d, NEW c, NEW step, At(d, c, step), step \notin {"done", "denial", "unverified"},
           NEW operation \in Operations, Unanswered(d, c, operation), UNCHANGED <<charged, owed>>
    PROVE  Rests
<1>1. TypeInv /\ d \in Deployments /\ c \in Calls /\ UNCHANGED store
  BY DEF At, Unanswered
<1>2. Only(got[d][c], Skip(d, c, operation))
  BY SkipIsOnly
<1>3. CASE Raise(d, c, got[d][c], "unavailable")
  BY <1>1, <1>3, RaiseGets, GetsRests
<1>4. CASE Proceed(d, c, Skip(d, c, operation))
  BY <1>1, <1>2, <1>4, ProceedGets, GetsRests DEF Only
<1> QED BY <1>3, <1>4 DEF Unanswered

(* A call that goes on, told nothing of a flag.                            *)
LEMMA ProceedRests ==
    ASSUME NEW d, NEW c, NEW step, At(d, c, step), step \notin {"done", "denial", "unverified"},
           NEW r \in ResultType, r.flagged = got[d][c].flagged, Proceed(d, c, r),
           UNCHANGED <<charged, owed>>,
           \A e \in Deployments : store'[e].risk = store[e].risk /\ store'[e].flag = store[e].flag
    PROVE  Rests
BY ProceedGets, GetsRests DEF At

(* A call that ends, told nothing of a flag.                               *)
LEMMA EndRests ==
    ASSUME NEW d, NEW c, NEW step, At(d, c, step), NEW r \in ResultType, NEW o \in Outcomes,
           r.flagged = got[d][c].flagged, End(d, c, r, o) \/ Refuse(d, c, r, o),
           UNCHANGED <<charged, owed>>,
           \A e \in Deployments : store'[e].risk = store[e].risk /\ store'[e].flag = store[e].flag
    PROVE  Rests
BY EndGets, RefuseGets, GetsRests DEF At

(* Either charge.                                                          *)
LEMMA ChargeCharges ==
    ASSUME NEW d, NEW c, NEW step \in {"session", "actor"}, At(d, c, step), NEW k \in Keys,
           Charge(d, c, k)
    PROVE  Rests \/ ChargesKey(d, c, k)
<1> DEFINE q == got[d][c]
<1>1. /\ TypeInv /\ d \in Deployments /\ c \in Calls /\ q \in ResultType /\ pc[d][c] = step
  BY DEF At, CallOK
<1>2. CASE Unanswered(d, c, "session_risk") /\ UNCHANGED <<charged, owed>>
  <2>1. "session_risk" \in Operations
    BY DEF Operations
  <2> QED BY <1>2, <2>1, UnansweredRests
<1>3. CASE /\ store' = [store EXCEPT ![d].risk[k] = Cumulative(d, c, k), ![d].flag[k] = Flags(d, c, k)]
           /\ charged' = [charged EXCEPT ![d] = Append(@, [call |-> c, key |-> k,
                                                          owed |-> owed[d][k] + q.score])]
           /\ owed' = [owed EXCEPT ![d][k] = owed[d][k] + q.score]
           /\ Proceed(d, c, [q EXCEPT !.flagged = @ \/ Flags(d, c, k)])
  <2>1. PICK n \in Nat : n = Cumulative(d, c, k)
    BY <1>1 DEF Cumulative, TypeInv, StoreType, ResultType
  <2>2. PICK b \in BOOLEAN : b = Flags(d, c, k)
    BY DEF Flags
  <2>3. PICK f \in BOOLEAN : f = (q.flagged \/ Flags(d, c, k))
    OBVIOUS
  <2>4. Billed(d, k, n, b)
    BY <1>1, <1>3, <2>1, <2>2, ChargeIsBilled
  <2>5. PICK r : r = [q EXCEPT !.flagged = f]
    OBVIOUS
  <2>6. r \in ResultType /\ r.flagged = f
    BY <1>1, <2>5 DEF ResultType
  <2>7. Proceed(d, c, r)
    BY <1>3, <2>3, <2>5
  <2>8. got'[d][c].flagged = f /\ \A e \in Deployments, a \in Calls :
            e # d \/ a # c => got'[e][a] = got[e][a]
    BY <2>6, <2>7, ProceedGets DEF Gets
  <2>9. /\ got'[d][c].flagged = (q.flagged \/ Flags(d, c, k))
        /\ \A e \in Deployments, a \in Calls : e # d \/ a # c =>
              got'[e][a].flagged = got[e][a].flagged
    BY <2>3, <2>8
  <2> QED BY <1>3, <2>1, <2>2, <2>4, <2>9 DEF ChargesKey, Billed
<1> QED BY <1>2, <1>3 DEF Charge

(* A round trip is taken by a call that has arrived and is at it.          *)
LEMMA AdvanceIsAt ==
    ASSUME PipelineInv, NEW d \in Deployments, NEW c \in Calls, Advance(d, c)
    PROVE  /\ At(d, c, pc[d][c]) /\ pc[d][c] \in Stages \ {"idle", "done"}
           /\ input[c] \in Inputs /\ UNCHANGED input
<1>1. pc[d][c] # "idle" /\ pc[d][c] # "done" /\ pc[d][c] \in Stages /\ UNCHANGED input
  BY DEF Advance, Scan, Tool, Chain, CheckRequest, Detect, AuditScan, ChargeSession, ChargeActor,
         CheckToolCall, ScanArguments, Authorize, Invoke, AuditAllowed, AuditDenied, JudgeResult,
         CallModel, ScanReply, Verify, AuditUnverified, PipelineInv, TypeInv, Stages
<1> QED BY <1>1 DEF PipelineInv, TypeInv, CallsInv, At

(* What each round trip does to risks, flags and history.                  *)
LEMMA AdvanceCharges ==
    ASSUME PipelineInv, NEW d \in Deployments, NEW c \in Calls, Advance(d, c)
    PROVE  Rests \/ \E k \in Keys : ChargesKey(d, c, k)
<1> DEFINE q == got[d][c]
<1>2. /\ At(d, c, pc[d][c]) /\ TypeInv /\ input[c] \in Inputs
      /\ q \in ResultType /\ input[c].session \in Sessions /\ store[d] \in StoreType
  BY AdvanceIsAt, InputFields DEF PipelineInv, TypeInv, At
<1>3. /\ {"none", "allowed", "blocked", "rate_limited", "denied", "failed", "unavailable"} = Outcomes
      /\ {"rate_limit", "session_risk", "token_replay", "detector", "audit", "provenance"} = Operations
  BY DEF Outcomes, Operations
<1>4. \A r \in Results(d, c) : r \in ResultType /\ r.flagged = q.flagged
  BY <1>2, ResultsAreOnly DEF Only
<1>5. ASSUME NEW r, r = [q EXCEPT !.ran = TRUE] PROVE r \in ResultType /\ r.flagged = q.flagged
  BY <1>2, <1>5 DEF ResultType
<1>6. ASSUME NEW r, NEW n \in Nat, r = [[q EXCEPT !.ran = TRUE] EXCEPT !.score = n]
      PROVE  r \in ResultType /\ r.flagged = q.flagged
  BY <1>2, <1>6 DEF ResultType
<1>7. CASE CheckRequest(d, c)
  <2>1. pc[d][c] = "request" /\ UNCHANGED <<charged, owed>>
    BY <1>7 DEF CheckRequest
  <2>2. CASE Unanswered(d, c, "rate_limit")
    BY <1>2, <1>3, <2>1, <2>2, UnansweredRests
  <2>3. CASE ~Unanswered(d, c, "rate_limit")
    <3> DEFINE s == input[c].session
               n == store[d].requests[s] + 1
    <3>1. s \in Sessions /\ n \in Nat
      BY <1>2 DEF StoreType
    <3>2. Requested(d, s, n)
      BY <1>2, <1>7, <2>3, <3>1, RequestIsCounted DEF CheckRequest
    <3>3. CASE End(d, c, q, "rate_limited")
      BY <1>2, <1>3, <2>1, <3>2, <3>3, EndRests DEF Requested
    <3>4. CASE Proceed(d, c, [q EXCEPT !.limited = OverBudget(n, RequestBudget)])
      <4>1. PICK b \in BOOLEAN : b = OverBudget(n, RequestBudget)
        <5>1. OverBudget(n, RequestBudget) \in BOOLEAN
          BY <3>1, PipelineAssumption, SMT DEF OverBudget
        <5> QED BY <5>1
      <4>2. PICK r : r = [q EXCEPT !.limited = b]
        OBVIOUS
      <4>3. r \in ResultType /\ r.flagged = q.flagged
        BY <1>2, <4>2 DEF ResultType
      <4>4. Proceed(d, c, r)
        BY <3>4, <4>1, <4>2
      <4> QED BY <1>2, <2>1, <3>2, <4>3, <4>4, ProceedRests DEF Requested
    <3> QED BY <1>7, <2>3, <3>3, <3>4 DEF CheckRequest
  <2> QED BY <2>2, <2>3
<1>8. CASE Detect(d, c)
  <2>1. pc[d][c] = "detect" /\ UNCHANGED <<charged, owed>>
    BY <1>8 DEF Detect
  <2>2. CASE Unanswered(d, c, "detector")
    BY <1>2, <1>3, <2>1, <2>2, UnansweredRests
  <2>3. CASE UNCHANGED store /\ Proceed(d, c, [q EXCEPT !.score = Merge(@, input[c].semantic)])
    <3>1. PICK n : n = Merge(q.score, input[c].semantic)
      OBVIOUS
    <3>2. n \in Nat
      BY <1>2, <3>1, InputFields DEF Merge, ResultType
    <3>3. PICK r : r = [q EXCEPT !.score = n]
      OBVIOUS
    <3>4. r \in ResultType /\ r.flagged = q.flagged
      BY <1>2, <3>2, <3>3 DEF ResultType
    <3>5. Proceed(d, c, r)
      BY <2>3, <3>1, <3>3
    <3> QED BY <1>2, <2>1, <2>3, <3>4, <3>5, ProceedRests
  <2> QED BY <1>8, <2>2, <2>3 DEF Detect
<1>9. CASE ChargeSession(d, c) \/ ChargeActor(d, c)
  <2>1. PICK step \in {"session", "actor"} : pc[d][c] = step
    BY <1>9 DEF ChargeSession, ChargeActor
  <2>2. input[c].session \in Keys /\ Actor \in Keys
    BY <1>2 DEF Keys
  <2>3. CASE Uncharged(d, c)
    BY <1>2, <2>1, <2>3, ProceedRests DEF Uncharged
  <2>4. ASSUME NEW k \in Keys, Charge(d, c, k) PROVE Rests \/ ChargesKey(d, c, k)
    BY <1>2, <2>1, <2>4, ChargeCharges
  <2> QED BY <1>9, <2>2, <2>3, <2>4 DEF ChargeSession, ChargeActor
<1>10. CASE AuditScan(d, c)
  BY <1>2, <1>4, <1>10, UnrecordedRests, ProceedRests DEF AuditScan
<1>11. CASE CheckToolCall(d, c)
  <2>1. pc[d][c] = "budget" /\ UNCHANGED <<charged, owed>>
    BY <1>11 DEF CheckToolCall
  <2>2. CASE Unanswered(d, c, "rate_limit")
    BY <1>2, <1>3, <2>1, <2>2, UnansweredRests
  <2>3. CASE ~Unanswered(d, c, "rate_limit")
    <3> DEFINE s == input[c].session
               n == store[d].tools[s] + 1
    <3>1. s \in Sessions /\ n \in Nat
      BY <1>2 DEF StoreType
    <3>2. \A e \in Deployments : store'[e].risk = store[e].risk /\ store'[e].flag = store[e].flag
      BY <1>2, <1>11, <2>3, <3>1, ToolsKeepRisks DEF CheckToolCall
    <3>3. End(d, c, q, "rate_limited") \/ Proceed(d, c, q)
      BY <1>11, <2>3 DEF CheckToolCall
    <3> QED BY <1>2, <1>3, <2>1, <3>2, <3>3, EndRests, ProceedRests
  <2> QED BY <2>2, <2>3
<1>12. CASE ScanArguments(d, c)
  BY <1>2, <1>3, <1>4, <1>12, UnrecordedRests, ProceedRests, EndRests DEF ScanArguments
<1>13. CASE Authorize(d, c)
  BY <1>2, <1>3, <1>13, UnansweredRests, ProceedRests, EndRests DEF Authorize
<1>14. CASE Invoke(d, c)
  <2>1. PICK r : r = [q EXCEPT !.ran = TRUE]
    OBVIOUS
  <2>2. PICK p : p = [r EXCEPT !.score = input[c].lexical]
    OBVIOUS
  <2>3. r \in ResultType /\ r.flagged = q.flagged /\ p \in ResultType /\ p.flagged = q.flagged
    BY <1>2, <1>5, <1>6, <2>1, <2>2, InputFields
  <2>4. /\ pc[d][c] = "invoke" /\ UNCHANGED <<store, charged, owed>>
        /\ Proceed(d, c, p) \/ Refuse(d, c, r, "failed")
    BY <1>14, <2>1, <2>2 DEF Invoke
  <2> QED BY <1>2, <1>3, <2>3, <2>4, ProceedRests, EndRests
<1>15. CASE AuditAllowed(d, c)
  BY <1>2, <1>3, <1>4, <1>15, UnrecordedRests, ProceedRests, EndRests DEF AuditAllowed
<1>16. CASE AuditDenied(d, c)
  <2>1. q.outcome \in Outcomes
    BY <1>2 DEF ResultType
  <2> QED BY <1>2, <1>4, <1>16, <2>1, UnrecordedRests, EndRests DEF AuditDenied
<1>17. CASE JudgeResult(d, c)
  BY <1>2, <1>3, <1>4, <1>17, UnrecordedRests, EndRests DEF JudgeResult
<1>18. CASE CallModel(d, c)
  <2>1. PICK r : r = [q EXCEPT !.ran = TRUE]
    OBVIOUS
  <2>2. r \in ResultType /\ r.flagged = q.flagged
    BY <1>2, <1>5, <2>1
  <2>3. /\ pc[d][c] = "model" /\ UNCHANGED <<store, charged, owed>>
        /\ End(d, c, q, "blocked") \/ Proceed(d, c, r) \/ End(d, c, r, "failed")
    BY <1>18, <2>1 DEF CallModel
  <2> QED BY <1>2, <1>3, <2>2, <2>3, ProceedRests, EndRests
<1>19. CASE ScanReply(d, c)
  <2>1. pc[d][c] = "reply" /\ UNCHANGED <<store, charged, owed>>
    BY <1>19 DEF ScanReply
  <2>2. CASE Unrecorded(d, c)
    BY <1>2, <2>1, <2>2, UnrecordedRests
  <2>3. CASE End(d, c, q, "failed")
    BY <1>2, <1>3, <2>1, <2>3, EndRests
  <2>4. ASSUME NEW r \in Results(d, c), NEW o \in {"blocked", "allowed"},
               End(d, c, [r EXCEPT !.reply = SafeText(d, c)], o)
        PROVE  Rests
    <3>1. SafeText(d, c) \in Replies \cup {"none", "raw"}
      BY <1>2, InputFields DEF SafeText
    <3>2. PICK p : p = [r EXCEPT !.reply = SafeText(d, c)]
      OBVIOUS
    <3>3. p \in ResultType /\ p.flagged = q.flagged
      BY <1>4, <3>1, <3>2 DEF ResultType
    <3>4. End(d, c, p, o)
      BY <2>4, <3>2
    <3> QED BY <1>2, <1>3, <2>1, <3>3, <3>4, EndRests
  <2> QED BY <1>19, <2>2, <2>3, <2>4 DEF ScanReply
<1>20. CASE Verify(d, c)
  <2>1. pc[d][c] = "verify" /\ UNCHANGED <<charged, owed>>
    BY <1>20 DEF Verify
  <2>2. CASE UNCHANGED <<got, store>>
    BY <2>1, <2>2 DEF Rests
  <2>3. CASE Proceed(d, c, q) /\ UNCHANGED store
    BY <1>2, <2>1, <2>3, ProceedRests
  <2>4. CASE Unanswered(d, c, "provenance")
    BY <1>2, <1>3, <2>1, <2>4, UnansweredRests
  <2> QED BY <1>20, <2>2, <2>3, <2>4 DEF Verify
<1>21. CASE AuditUnverified(d, c)
  BY <1>2, <1>3, <1>4, <1>21, UnrecordedRests, EndRests DEF AuditUnverified
<1> QED BY <1>7, <1>8, <1>9, <1>10, <1>11, <1>12, <1>13, <1>14, <1>15, <1>16, <1>17, <1>18, <1>19,
           <1>20, <1>21 DEF Advance, Scan, Tool, Chain

----------------------------------------------------------------------------
(* The history of charges: each is of a call that has arrived.             *)
LedgerType ==
    /\ charged \in [Deployments -> Seq([call : Calls, key : Keys, owed : Nat])]
    /\ owed \in [Deployments -> [Keys -> Nat]]
    /\ \A d \in Deployments : \A i \in DOMAIN charged[d] : input[charged[d][i].call] # NoInput

(* A charge at which the total had come to the limit it was made under.    *)
Reaches(e) == e.owed >= Limit(e.call, e.key)

(* One of the charges of a key had come to its limit, by the last of those *)
(* of call c.                                                              *)
Cause(d, c) ==
    \E i, j \in DOMAIN charged[d] :
        /\ i <= j /\ charged[d][j].call = c /\ charged[d][j].key = charged[d][i].key
        /\ Reaches(charged[d][i])

(* The store agrees with the history: a risk is what has been charged, a   *)
(* flag that is set has a charge that came to its limit, a turn that made  *)
(* such a charge was told, and one that was told has a cause.              *)
LedgerOf(d) ==
    /\ \A k \in Keys :
          /\ store[d].risk[k] = owed[d][k]
          /\ store[d].flag[k] => \E i \in DOMAIN charged[d] :
                                    charged[d][i].key = k /\ Reaches(charged[d][i])
    /\ \A i \in DOMAIN charged[d] :
          Reaches(charged[d][i]) => got[d][charged[d][i].call].flagged
    /\ \A c \in Calls : got[d][c].flagged => Cause(d, c)

LedgerInv == LedgerType /\ \A d \in Deployments : LedgerOf(d)

(* A sequence and one more.                                                *)
LEMMA AppendFacts ==
    ASSUME NEW S, NEW s \in Seq(S), NEW e \in S
    PROVE  /\ Append(s, e) \in Seq(S)
           /\ DOMAIN s \subseteq DOMAIN Append(s, e) /\ Len(s) + 1 \in DOMAIN Append(s, e)
           /\ \A i \in DOMAIN Append(s, e) : i \in DOMAIN s \/ i = Len(s) + 1
           /\ \A i \in DOMAIN s : Append(s, e)[i] = s[i] /\ i <= Len(s) + 1
           /\ Append(s, e)[Len(s) + 1] = e
           /\ Len(s) + 1 \notin DOMAIN s
OBVIOUS

(* A charge of the history, and what has been charged.                     *)
LEMMA LedgerFields ==
    ASSUME LedgerType, NEW d \in Deployments
    PROVE  /\ charged[d] \in Seq([call : Calls, key : Keys, owed : Nat])
           /\ \A i \in DOMAIN charged[d] :
                 charged[d][i].call \in Calls /\ input[charged[d][i].call] # NoInput
           /\ \A k \in Keys : owed[d][k] \in Nat
<1>1. PICK S : S = [call : Calls, key : Keys, owed : Nat]
  OBVIOUS
<1>2. charged[d] \in Seq(S)
  BY <1>1 DEF LedgerType
<1>3. \A i \in DOMAIN charged[d] : charged[d][i] \in S
  BY <1>2
<1>4. \A e \in S : e.call \in Calls
  BY <1>1
<1> QED BY <1>1, <1>2, <1>3, <1>4 DEF LedgerType

(* A charge is entered in the history.                                     *)
LEMMA ChargeKeepsLedger ==
    ASSUME TypeInv, LedgerInv, NEW d \in Deployments, NEW c \in Calls, NEW k \in Keys,
           input[c] # NoInput, ChargesKey(d, c, k), UNCHANGED input
    PROVE  LedgerInv'
<1> DEFINE entries == [call : Calls, key : Keys, owed : Nat]
           sum     == owed[d][k] + got[d][c].score
           old     == charged[d]
           last    == Len(old) + 1
<1>1. /\ charged \in [Deployments -> Seq(entries)] /\ old \in Seq(entries)
      /\ owed \in [Deployments -> [Keys -> Nat]] /\ got[d][c].score \in Nat
      /\ LedgerOf(d) /\ sum \in Nat
  <2>1. charged \in [Deployments -> Seq(entries)] /\ owed \in [Deployments -> [Keys -> Nat]]
    BY DEF LedgerInv, LedgerType
  <2>2. old \in Seq(entries) /\ owed[d][k] \in Nat
    BY LedgerFields DEF LedgerInv
  <2>3. got[d][c].score \in Nat /\ LedgerOf(d)
    BY DEF LedgerInv, TypeInv, ResultType
  <2>4. sum \in Nat
    BY <2>2, <2>3
  <2> QED BY Zenon, <2>1, <2>2, <2>3, <2>4
<1>2. PICK e : e = [call |-> c, key |-> k, owed |-> sum]
  OBVIOUS
<1>3. e \in entries /\ e.call = c /\ e.key = k /\ e.owed = sum
  BY <1>1, <1>2
<1>4. PICK new : new = Append(old, e)
  OBVIOUS
<1>5. charged' = [charged EXCEPT ![d] = new]
  BY <1>2, <1>4 DEF ChargesKey
<1>6. charged'[d] = new /\ \A a \in Deployments : a # d => charged'[a] = charged[a]
  BY <1>1, <1>5
<1> HIDE DEF entries
<1>7. /\ new \in Seq(entries)
      /\ DOMAIN old \subseteq DOMAIN new /\ last \in DOMAIN new
      /\ \A i \in DOMAIN new : i \in DOMAIN old \/ i = last
      /\ \A i \in DOMAIN old : new[i] = old[i] /\ i <= last
      /\ new[last] = e
  BY <1>1, <1>3, <1>4, AppendFacts
<1>8. \A f : Reaches(f)' <=> Reaches(f)
  BY DEF Reaches, Limit, Turn, Kind
<1>9. Flags(d, c, k) <=> store[d].flag[k] \/ Reaches(e)
  BY <1>1, <1>3 DEF Flags, Cumulative, Reaches, LedgerOf
<1>10. LedgerType'
  <2>1. charged' \in [Deployments -> Seq(entries)]
    BY <1>1, <1>5, <1>7
  <2>2. owed' \in [Deployments -> [Keys -> Nat]]
    BY <1>1 DEF ChargesKey
  <2>3. ASSUME NEW a \in Deployments, NEW i \in DOMAIN charged'[a]
        PROVE  input[charged'[a][i].call] # NoInput
    <3>1. CASE a = d
      <4>1. charged'[a] = new /\ (i \in DOMAIN old \/ i = last)
        BY <1>6, <1>7, <2>3, <3>1
      <4> QED BY <1>3, <1>7, <4>1, LedgerFields DEF LedgerInv
    <3>2. CASE a # d
      BY <1>6, <3>2, LedgerFields DEF LedgerInv
    <3> QED BY <3>1, <3>2
  <2> QED BY <2>1, <2>2, <2>3 DEF LedgerType, entries
<1>11. ASSUME NEW a \in Deployments, a # d PROVE LedgerOf(a)'
  <2>1. /\ charged'[a] = charged[a] /\ LedgerOf(a) /\ owed'[a] = owed[a]
    BY <1>1, <1>6, <1>11 DEF LedgerInv, ChargesKey
  <2>2. /\ \A j \in Keys : store'[a].risk[j] = store[a].risk[j] /\ store'[a].flag[j] = store[a].flag[j]
        /\ \A b \in Calls : got'[a][b].flagged = got[a][b].flagged
    BY <1>11 DEF ChargesKey
  <2>3. \A b : Cause(a, b)' <=> Cause(a, b)
    BY <1>8, <2>1 DEF Cause
  <2>4. \A i \in DOMAIN charged[a] : charged[a][i].call \in Calls
    BY LedgerFields DEF LedgerInv
  <2> QED BY <1>8, <2>1, <2>2, <2>3, <2>4 DEF LedgerOf
<1>12. LedgerOf(d)'
  <2>1. /\ store'[d].risk[k] = sum /\ owed'[d][k] = sum
        /\ store'[d].flag[k] <=> store[d].flag[k] \/ Reaches(e)
        /\ \A j \in Keys : j # k => /\ store'[d].risk[j] = store[d].risk[j]
                                    /\ store'[d].flag[j] = store[d].flag[j]
                                    /\ owed'[d][j] = owed[d][j]
    BY <1>1, <1>9 DEF ChargesKey, Cumulative, LedgerOf
  <2>2. ASSUME NEW j \in Keys
        PROVE  /\ store'[d].risk[j] = owed'[d][j]
               /\ store'[d].flag[j] => \E i \in DOMAIN new : new[i].key = j /\ Reaches(new[i])
    <3>1. store[d].risk[j] = owed[d][j]
      BY <1>1 DEF LedgerOf
    <3>2. store[d].flag[j] => \E i \in DOMAIN new : new[i].key = j /\ Reaches(new[i])
      BY <1>1, <1>7 DEF LedgerOf
    <3>3. CASE j = k
      BY <1>3, <1>7, <2>1, <3>2, <3>3
    <3>4. CASE j # k
      BY <2>1, <3>1, <3>2, <3>4
    <3> QED BY <3>3, <3>4
  <2>3. /\ got'[d][c].flagged <=> got[d][c].flagged \/ Flags(d, c, k)
        /\ \A b \in Calls : b # c => got'[d][b].flagged = got[d][b].flagged
    BY DEF ChargesKey
  <2>4. ASSUME NEW i \in DOMAIN new, Reaches(new[i]) PROVE got'[d][new[i].call].flagged
    <3>1. CASE i \in DOMAIN old
      <4>1. old[i].call \in Calls /\ new[i] = old[i]
        BY <1>7, <3>1, LedgerFields DEF LedgerInv
      <4>2. got[d][old[i].call].flagged
        BY <1>1, <2>4, <3>1, <4>1 DEF LedgerOf
      <4> QED BY <2>3, <4>1, <4>2
    <3>2. CASE i = last
      BY <1>3, <1>7, <1>9, <2>3, <2>4, <3>2
    <3> QED BY <1>7, <3>1, <3>2
  <2>5. ASSUME NEW b \in Calls, got'[d][b].flagged
        PROVE  \E i, j \in DOMAIN new : /\ i <= j /\ new[j].call = b /\ new[j].key = new[i].key
                                        /\ Reaches(new[i])
    <3>1. CASE got[d][b].flagged
      <4>1. PICK i, j \in DOMAIN old : /\ i <= j /\ old[j].call = b /\ old[j].key = old[i].key
                                       /\ Reaches(old[i])
        BY <1>1, <3>1 DEF LedgerOf, Cause
      <4> QED BY <1>7, <4>1
    <3>2. CASE ~got[d][b].flagged
      <4>1. b = c /\ Flags(d, c, k)
        BY <2>3, <2>5, <3>2
      <4>2. PICK i \in DOMAIN new : new[i].key = k /\ Reaches(new[i])
        BY <2>1, <2>2, <1>9, <4>1
      <4>3. i <= last
        BY <1>1, <1>7, <4>2
      <4> QED BY <1>3, <1>7, <4>1, <4>2, <4>3
    <3> QED BY <3>1, <3>2
  <2> QED BY <1>6, <1>8, <2>2, <2>4, <2>5 DEF LedgerOf, Cause
<1> QED BY <1>10, <1>11, <1>12 DEF LedgerInv

(* A step that charges nothing.                                            *)
LEMMA RestsKeepLedger ==
    ASSUME TypeInv, LedgerInv, Rests, \A c \in Calls : input[c] # NoInput => input'[c] = input[c]
    PROVE  LedgerInv'
<1>1. \A d \in Deployments : \A i \in DOMAIN charged[d] :
          /\ charged[d][i].call \in Calls /\ input[charged[d][i].call] # NoInput
          /\ input'[charged[d][i].call] = input[charged[d][i].call]
  BY LedgerFields DEF LedgerInv
<1>2. LedgerType'
  <2>1. charged' = charged /\ owed' = owed /\ LedgerType
    BY DEF LedgerInv, Rests
  <2>2. \A d \in Deployments : \A i \in DOMAIN charged'[d] : input'[charged'[d][i].call] # NoInput
    BY <1>1, <2>1
  <2> QED BY <2>1, <2>2 DEF LedgerType
<1>3. ASSUME NEW d \in Deployments PROVE LedgerOf(d)'
  <2>1. \A i \in DOMAIN charged[d] : Reaches(charged[d][i])' <=> Reaches(charged[d][i])
    BY <1>1 DEF Reaches, Limit, Turn, Kind, Rests
  <2>2. /\ charged'[d] = charged[d] /\ LedgerOf(d) /\ owed'[d] = owed[d]
        /\ store'[d].risk = store[d].risk /\ store'[d].flag = store[d].flag
        /\ \A b \in Calls : got'[d][b].flagged = got[d][b].flagged
    BY DEF Rests, LedgerInv
  <2>3. \A b \in Calls : Cause(d, b)' <=> Cause(d, b)
    BY <2>1, <2>2 DEF Cause
  <2> QED BY <1>1, <2>1, <2>2, <2>3 DEF LedgerOf
<1> QED BY <1>2, <1>3 DEF LedgerInv

(* Each action keeps the history in agreement with the store.              *)
LEMMA StepLedger == PipelineInv /\ LedgerInv /\ [Next]_vars => LedgerInv'
<1> SUFFICES ASSUME PipelineInv, LedgerInv, [Next]_vars PROVE LedgerInv'
  OBVIOUS
<1>1. TypeInv
  BY DEF PipelineInv
<1>2. ASSUME NEW c \in Calls, Arrive(c) PROVE LedgerInv'
  <2>1. /\ UNCHANGED <<store, charged, owed>> /\ input[c] = NoInput
        /\ \A b \in Calls : input[b] # NoInput => input'[b] = input[b]
    BY <1>1, <1>2 DEF Arrive, TypeInv
  <2>2. PICK i \in Inputs :
            got' = [d \in Deployments |->
                       [got[d] EXCEPT ![c].score = IF i.kind = "tool" THEN 0 ELSE i.lexical]]
    BY <1>2 DEF Arrive
  <2>3. \A d \in Deployments, b \in Calls : got'[d][b].flagged = got[d][b].flagged
    <3> SUFFICES ASSUME NEW d \in Deployments, NEW b \in Calls
                 PROVE  got'[d][b].flagged = got[d][b].flagged
      OBVIOUS
    <3>1. got[d] \in [Calls -> ResultType]
      BY <1>1 DEF TypeInv
    <3>2. PICK r : r = [got[d][c] EXCEPT !.score = IF i.kind = "tool" THEN 0 ELSE i.lexical]
      OBVIOUS
    <3>3. r.flagged = got[d][c].flagged
      BY <3>1, <3>2 DEF ResultType
    <3>4. got'[d] = [got[d] EXCEPT ![c] = r]
      BY <2>2, <3>2
    <3> QED BY <3>1, <3>3, <3>4
  <2>4. Rests
    BY <2>1, <2>3 DEF Rests
  <2> QED BY <1>1, <2>1, <2>4, RestsKeepLedger
<1>3. ASSUME NEW d \in Deployments, NEW c \in Calls, Advance(d, c) PROVE LedgerInv'
  <2>1. UNCHANGED input
    BY <1>3, AdvanceIsAt
  <2>2. input[c] # NoInput
    BY <1>3, AdvanceIsAt, InputFields
  <2> QED BY <1>1, <1>3, <2>1, <2>2, AdvanceCharges, ChargeKeepsLedger, RestsKeepLedger
<1>4. CASE UNCHANGED vars
  <2>1. Rests /\ UNCHANGED input
    BY <1>4 DEF vars, Rests
  <2> QED BY <1>1, <2>1, RestsKeepLedger
<1> QED BY <1>2, <1>3, <1>4 DEF Next

(* At first nothing has been charged.                                      *)
LEMMA InitLedger == Init => LedgerInv
<1> SUFFICES ASSUME Init PROVE LedgerInv
  OBVIOUS
<1>1. LedgerType
  <2>1. PICK S : S = [call : Calls, key : Keys, owed : Nat]
    OBVIOUS
  <2>2. charged \in [Deployments -> Seq(S)]
    BY DEF Init
  <2> QED BY <2>1, <2>2 DEF LedgerType, Init
<1>2. ASSUME NEW d \in Deployments PROVE LedgerOf(d)
  BY DEF Init, LedgerOf, NoResult
<1> QED BY <1>1, <1>2 DEF LedgerInv
----------------------------------------------------------------------------
(* What a turn's scan and its charges have told of it.                     *)
Suspect(r) == r.score >= InputThreshold \/ r.flagged

(* A user's turn under enforcement, at step and told r so far: it is told  *)
(* of no flag before it is charged, the model is not called for a suspect  *)
(* one, and its verdict says which it was.                                 *)
TurnInv(step, r) ==
    /\ ~r.limited
    /\ step \in {"request", "detect", "session"} => ~r.flagged
    /\ step \notin {"reply", "done"} => ~r.ran
    /\ step = "reply" => r.ran /\ ~Suspect(r)
    /\ step = "done" =>
          /\ Suspect(r) => ~r.ran /\ r.outcome \in {"blocked", "unavailable", "rate_limited"}
          /\ r.flagged => r.outcome # "rate_limited"
          /\ r.outcome = "blocked" /\ ~r.ran => Suspect(r)

TurnsInv ==
    \A d \in Deployments \cap {"enforce"}, c \in Calls :
        input[c] # NoInput /\ Turn(c) => TurnInv(pc[d][c], got[d][c])

(* The actions of a call that is not a tool's.                             *)
LEMMA NoToolActions ==
    ASSUME PipelineInv, NEW d \in Deployments, NEW c \in Calls, Advance(d, c),
           input[c].kind # "tool"
    PROVE  \/ CheckRequest(d, c) \/ Scan(d, c) \/ Chain(d, c)
<1>1. At(d, c, pc[d][c])
  BY AdvanceIsAt
<1>2. pc[d][c] \notin {"budget", "arguments", "authorize", "invoke", "allow", "denial", "result"}
  BY <1>1, InputFields DEF At, CallOK, Positions
<1> QED BY <1>2 DEF Advance, Tool, CheckToolCall, ScanArguments, Authorize, Invoke, AuditAllowed,
                AuditDenied, JudgeResult

(* A round trip that failed, of a call that is not a tool's.               *)
LEMMA UnansweredGets ==
    ASSUME NEW d, NEW c, NEW step, At(d, c, step), step \notin {"done", "denial", "unverified"},
           input[c].kind # "tool", NEW operation \in Operations, Unanswered(d, c, operation)
    PROVE  \/ Gets(d, c, "done", got[d][c], "unavailable")
           \/ \E r : /\ Only(got[d][c], r) /\ operation \in r.skipped
                     /\ Gets(d, c, Follows[input[c].kind][step], r,
                             IF Follows[input[c].kind][step] = "done" THEN Judged(d, c, r)
                             ELSE r.outcome)
<1>1. Only(got[d][c], Skip(d, c, operation)) /\ operation \in Skip(d, c, operation).skipped
  BY SkipIsOnly
<1>2. CASE Raise(d, c, got[d][c], "unavailable")
  BY <1>2, RaiseGets
<1>3. CASE Proceed(d, c, Skip(d, c, operation))
  BY <1>1, <1>3, ProceedGets DEF Only
<1> QED BY <1>2, <1>3 DEF Unanswered

(* A turn under enforcement is told what TurnInv says.                     *)
LEMMA AdvanceKeepsTurn ==
    ASSUME PipelineInv, NEW d \in Deployments, d = "enforce", NEW c \in Calls, Advance(d, c),
           input[c].kind \in {"input", "chat"}, TurnInv(pc[d][c], got[d][c])
    PROVE  TurnInv(pc'[d][c], got'[d][c])
<1> DEFINE q    == got[d][c]
           p    == pc[d][c]
           kind == input[c].kind
           next == Follows[kind][p]
<1>1. /\ At(d, c, p) /\ TypeInv /\ q \in ResultType /\ input[c] \in Inputs
      /\ Turn(c) /\ Enforced(d) /\ TurnInv(p, q)
  BY AdvanceIsAt DEF At, CallOK, Turn, Kind, Enforced
<1>2. CheckRequest(d, c) \/ Scan(d, c) \/ Chain(d, c)
  BY NoToolActions
<1>3. /\ p \in Positions[kind]
      /\ p = "request" => next = "detect"
      /\ p = "detect" => next = "session"
      /\ p = "session" => next = "actor"
      /\ p = "actor" => next = "audit"
      /\ p = "audit" => next = (IF kind = "input" THEN "done" ELSE "model")
      /\ p = "model" => next = "reply"
      /\ p = "reply" => next = "done"
  BY <1>1 DEF At, CallOK, Follows, Positions
<1>4. \A step, r, o : Gets(d, c, step, r, o) =>
          /\ pc'[d][c] = step
          /\ got'[d][c].outcome = o /\ got'[d][c].score = r.score /\ got'[d][c].ran = r.ran
          /\ got'[d][c].flagged = r.flagged /\ got'[d][c].limited = r.limited
  BY DEF Gets
<1>5. /\ {"none", "allowed", "blocked", "rate_limited", "denied", "failed", "unavailable"} = Outcomes
      /\ {"rate_limit", "session_risk", "token_replay", "detector", "audit", "provenance"} = Operations
  BY DEF Outcomes, Operations
<1>6. ASSUME NEW operation \in Operations, Unanswered(d, c, operation),
             p \in {"request", "detect", "session", "actor"}
      PROVE  TurnInv(pc'[d][c], got'[d][c])
  <2>1. CASE Gets(d, c, "done", q, "unavailable")
    BY <1>1, <1>4, <1>6, <2>1 DEF TurnInv, Suspect
  <2>2. ASSUME NEW r, Only(q, r), Gets(d, c, next, r, r.outcome)
        PROVE  TurnInv(pc'[d][c], got'[d][c])
    BY <1>1, <1>3, <1>4, <1>6, <2>2 DEF TurnInv, Suspect, Only
  <2>3. next # "done"
    BY <1>3, <1>6
  <2> QED BY <1>1, <1>6, <2>1, <2>2, <2>3, UnansweredGets
<1>7. ASSUME Unrecorded(d, c), p \in {"audit", "reply"}
      PROVE  TurnInv(pc'[d][c], got'[d][c])
  <2>1. Gets(d, c, "done", q, "unavailable")
    BY <1>1, <1>7, RaiseGets DEF Unrecorded
  <2> QED BY <1>1, <1>4, <1>7, <2>1 DEF TurnInv, Suspect
<1>8. CASE CheckRequest(d, c)
  <2> DEFINE n == store[d].requests[input[c].session] + 1
  <2>1. p = "request" /\ ~q.flagged /\ ~q.ran /\ ~q.limited
    BY <1>1, <1>8 DEF CheckRequest, TurnInv
  <2>2. CASE Unanswered(d, c, "rate_limit")
    BY <1>5, <1>6, <2>1, <2>2
  <2>3. CASE End(d, c, q, "rate_limited")
    <3>1. Gets(d, c, "done", q, "rate_limited")
      BY <1>1, <1>5, <2>3, EndGets
    <3> QED BY <1>4, <2>1, <3>1 DEF TurnInv, Suspect
  <2>4. CASE ~OverBudget(n, RequestBudget) /\ Proceed(d, c, [q EXCEPT !.limited = OverBudget(n, RequestBudget)])
    <3>1. PICK r : r = [q EXCEPT !.limited = FALSE]
      OBVIOUS
    <3>2. /\ r \in ResultType /\ r.flagged = q.flagged /\ r.ran = q.ran /\ ~r.limited
          /\ r.score = q.score
      BY <1>1, <3>1 DEF ResultType
    <3>3. OverBudget(n, RequestBudget) = FALSE
      <4>1. n \in Nat
        BY <1>1, InputFields DEF TypeInv, StoreType
      <4>2. OverBudget(n, RequestBudget) \in BOOLEAN
        BY <4>1, PipelineAssumption, SMT DEF OverBudget
      <4> QED BY <2>4, <4>2
    <3>4. Proceed(d, c, r)
      BY <2>4, <3>1, <3>3
    <3>5. \E o : Gets(d, c, "detect", r, o)
      BY <1>1, <1>3, <2>1, <3>2, <3>4, ProceedGets
    <3> QED BY <1>4, <2>1, <3>2, <3>5 DEF TurnInv
  <2> QED BY <1>1, <1>8, <2>2, <2>3, <2>4 DEF CheckRequest
<1>9. CASE Detect(d, c)
  <2>1. p = "detect" /\ ~q.flagged /\ ~q.ran /\ ~q.limited
    BY <1>1, <1>9 DEF Detect, TurnInv
  <2>2. CASE Unanswered(d, c, "detector")
    BY <1>5, <1>6, <2>1, <2>2
  <2>3. CASE Proceed(d, c, [q EXCEPT !.score = Merge(@, input[c].semantic)])
    <3>1. PICK n : n = Merge(q.score, input[c].semantic)
      OBVIOUS
    <3>2. n \in Nat
      BY <1>1, <3>1, InputFields DEF Merge, ResultType
    <3>3. PICK r : r = [q EXCEPT !.score = n]
      OBVIOUS
    <3>4. r \in ResultType /\ r.flagged = q.flagged /\ r.ran = q.ran /\ r.limited = q.limited
      BY <1>1, <3>2, <3>3 DEF ResultType
    <3>5. Proceed(d, c, r)
      BY <2>3, <3>1, <3>3
    <3>6. \E o : Gets(d, c, "session", r, o)
      BY <1>1, <1>3, <2>1, <3>4, <3>5, ProceedGets
    <3> QED BY <1>4, <2>1, <3>4, <3>6 DEF TurnInv
  <2> QED BY <1>9, <2>2, <2>3 DEF Detect
<1>10. CASE ChargeSession(d, c) \/ ChargeActor(d, c)
  <2>1. p \in {"session", "actor"} /\ ~q.ran /\ ~q.limited
    BY <1>1, <1>10 DEF ChargeSession, ChargeActor, TurnInv
  <2>2. next \in {"actor", "audit"}
    BY <1>3, <2>1
  <2>3. ASSUME NEW f \in BOOLEAN, Proceed(d, c, [q EXCEPT !.flagged = f])
        PROVE  TurnInv(pc'[d][c], got'[d][c])
    <3>1. PICK r : r = [q EXCEPT !.flagged = f]
      OBVIOUS
    <3>2. r \in ResultType /\ r.ran = q.ran /\ r.limited = q.limited
      BY <1>1, <3>1 DEF ResultType
    <3>3. \E o : Gets(d, c, next, r, o)
      BY <1>1, <2>1, <2>3, <3>1, <3>2, ProceedGets
    <3> QED BY <1>4, <2>1, <2>2, <3>2, <3>3 DEF TurnInv
  <2>4. CASE Uncharged(d, c)
    <3>1. \E o : Gets(d, c, next, q, o)
      BY <1>1, <2>1, <2>4, ProceedGets DEF Uncharged
    <3> QED BY <1>4, <2>1, <2>2, <3>1 DEF TurnInv
  <2>5. CASE Unanswered(d, c, "session_risk")
    BY <1>5, <1>6, <2>1, <2>5
  <2>6. ASSUME NEW k, Proceed(d, c, [q EXCEPT !.flagged = @ \/ Flags(d, c, k)])
        PROVE  TurnInv(pc'[d][c], got'[d][c])
    <3>1. PICK f \in BOOLEAN : f = (q.flagged \/ Flags(d, c, k))
      OBVIOUS
    <3> QED BY <2>3, <2>6, <3>1
  <2> QED BY <1>10, <2>4, <2>5, <2>6 DEF ChargeSession, ChargeActor, Charge
<1>11. CASE AuditScan(d, c)
  <2>1. p = "audit" /\ ~q.ran /\ ~q.limited
    BY <1>1, <1>11 DEF AuditScan, TurnInv
  <2>2. ASSUME NEW r \in Results(d, c), Proceed(d, c, r) PROVE TurnInv(pc'[d][c], got'[d][c])
    <3>1. Only(q, r) /\ r \in ResultType
      BY <1>1, ResultsAreOnly DEF Only
    <3>2. CASE kind = "input"
      <4>1. Gets(d, c, "done", r, Judged(d, c, r))
        BY <1>1, <1>3, <2>1, <2>2, <3>1, <3>2, ProceedGets
      <4>2. Judged(d, c, r) = IF Suspect(r) THEN "blocked" ELSE "allowed"
        BY <1>1, <2>1, <3>1 DEF Judged, Would, Suspect, Only
      <4> QED BY <1>4, <2>1, <3>1, <4>1, <4>2 DEF TurnInv, Suspect, Only
    <3>3. CASE kind = "chat"
      <4>1. \E o : Gets(d, c, "model", r, o)
        BY <1>1, <1>3, <2>1, <2>2, <3>1, <3>3, ProceedGets
      <4> QED BY <1>4, <2>1, <3>1, <4>1 DEF TurnInv, Only
    <3> QED BY <3>2, <3>3
  <2> QED BY <1>7, <1>11, <2>1, <2>2 DEF AuditScan
<1>12. CASE CallModel(d, c)
  <2>1. p = "model" /\ ~q.ran /\ ~q.limited
    BY <1>1, <1>12 DEF CallModel, TurnInv
  <2>2. Would(c, q) <=> Suspect(q)
    BY <1>1, <2>1 DEF Would, Suspect
  <2>3. PICK r : r = [q EXCEPT !.ran = TRUE]
    OBVIOUS
  <2>4. /\ r \in ResultType /\ r.ran /\ r.limited = q.limited /\ r.score = q.score
        /\ r.flagged = q.flagged
    BY <1>1, <2>3 DEF ResultType
  <2>5. CASE Suspect(q) /\ End(d, c, q, "blocked")
    <3>1. Gets(d, c, "done", q, "blocked")
      BY <1>1, <1>5, <2>5, EndGets
    <3> QED BY <1>4, <2>1, <2>5, <3>1 DEF TurnInv, Suspect
  <2>6. CASE ~Suspect(q) /\ Proceed(d, c, r)
    <3>1. \E o : Gets(d, c, "reply", r, o)
      BY <1>1, <1>3, <2>1, <2>4, <2>6, ProceedGets
    <3> QED BY <1>4, <2>1, <2>4, <2>6, <3>1 DEF TurnInv, Suspect
  <2>7. CASE ~Suspect(q) /\ End(d, c, r, "failed")
    <3>1. Gets(d, c, "done", r, "failed")
      BY <1>1, <1>5, <2>4, <2>7, EndGets
    <3> QED BY <1>4, <2>1, <2>4, <2>7, <3>1 DEF TurnInv, Suspect
  <2> QED BY <1>1, <1>12, <2>2, <2>3, <2>5, <2>6, <2>7 DEF CallModel
<1>13. CASE ScanReply(d, c)
  <2>1. p = "reply" /\ q.ran /\ ~q.limited /\ ~Suspect(q)
    BY <1>1, <1>13 DEF ScanReply, TurnInv
  <2>2. ASSUME NEW r \in ResultType, NEW o \in Outcomes, End(d, c, r, o), r.ran, ~r.limited,
               r.score = q.score, r.flagged = q.flagged
        PROVE  TurnInv(pc'[d][c], got'[d][c])
    <3>1. Gets(d, c, "done", r, o)
      BY <1>1, <2>2, EndGets
    <3> QED BY <1>4, <2>1, <2>2, <3>1 DEF TurnInv, Suspect
  <2>3. ASSUME NEW r \in Results(d, c), NEW o \in {"blocked", "allowed"},
               End(d, c, [r EXCEPT !.reply = SafeText(d, c)], o)
        PROVE  TurnInv(pc'[d][c], got'[d][c])
    <3>1. SafeText(d, c) \in Replies \cup {"none", "raw"}
      BY <1>1, InputFields DEF SafeText
    <3>2. PICK t : t = [r EXCEPT !.reply = SafeText(d, c)]
      OBVIOUS
    <3>3. Only(q, r)
      BY <1>1, ResultsAreOnly
    <3>4. /\ t \in ResultType /\ t.flagged = q.flagged /\ t.ran = q.ran
          /\ t.score = q.score /\ t.limited = q.limited
      BY <3>1, <3>2, <3>3 DEF ResultType, Only
    <3>5. End(d, c, t, o)
      BY <2>3, <3>2
    <3> QED BY <1>5, <2>1, <2>2, <3>4, <3>5
  <2>4. End(d, c, q, "failed") => TurnInv(pc'[d][c], got'[d][c])
    BY <1>1, <1>5, <2>1, <2>2
  <2> QED BY <1>7, <1>13, <2>1, <2>3, <2>4 DEF ScanReply
<1>14. p \notin {"verify", "unverified"}
  BY <1>3 DEF Positions
<1> QED BY <1>2, <1>8, <1>9, <1>10, <1>11, <1>12, <1>13, <1>14
        DEF Scan, Chain, Verify, AuditUnverified

(* A call that has arrived is at its first step, and told its score.       *)
LEMMA ArriveGets ==
    ASSUME TypeInv, CallsInv, NEW c \in Calls, Arrive(c)
    PROVE  /\ input[c] = NoInput /\ UNCHANGED <<store, log, charged, owed>>
           /\ \A b \in Calls : b < c => input[b] # NoInput
           /\ OneAtATime => \A b \in Calls : b < c => \A d \in Deployments : pc[d][b] = "done"
           /\ \A b \in Calls : b # c =>
                 /\ input'[b] = input[b]
                 /\ \A d \in Deployments : pc'[d][b] = pc[d][b] /\ got'[d][b] = got[d][b]
           /\ \E i \in Inputs :
                 /\ input'[c] = i
                 /\ \A d \in Deployments :
                       /\ pc'[d][c] = Steps[i.kind][1]
                       /\ got'[d][c] = [NoResult EXCEPT !.score = IF i.kind = "tool" THEN 0
                                                                  ELSE i.lexical]
<1>1. PICK i \in Inputs :
          /\ input' = [input EXCEPT ![c] = i]
          /\ pc' = [d \in Deployments |-> [pc[d] EXCEPT ![c] = Steps[i.kind][1]]]
          /\ got' = [d \in Deployments |->
                        [got[d] EXCEPT ![c].score = IF i.kind = "tool" THEN 0 ELSE i.lexical]]
  BY DEF Arrive
<1>2. /\ input[c] = NoInput /\ UNCHANGED <<store, log, charged, owed>>
      /\ \A b \in Calls : b < c => input[b] # NoInput
      /\ OneAtATime => \A b \in Calls : b < c => \A d \in Deployments : pc[d][b] = "done"
  BY DEF Arrive
<1>3. PICK r : r = [NoResult EXCEPT !.score = IF i.kind = "tool" THEN 0 ELSE i.lexical]
  OBVIOUS
<1>4. \A d \in Deployments : got[d][c] = NoResult
  BY <1>2 DEF CallsInv
<1>5. got' = [d \in Deployments |-> [got[d] EXCEPT ![c] = r]]
  <2>1. \A d \in Deployments :
            [got[d] EXCEPT ![c].score = IF i.kind = "tool" THEN 0 ELSE i.lexical]
                = [got[d] EXCEPT ![c] = r]
    BY <1>3, <1>4
  <2> QED BY <1>1, <2>1
<1>6. PICK first : first = Steps[i.kind][1]
  OBVIOUS
<1>7. pc' = [d \in Deployments |-> [pc[d] EXCEPT ![c] = first]]
  BY <1>1, <1>6
<1>8. /\ input'[c] = i
      /\ \A d \in Deployments : pc'[d][c] = first /\ got'[d][c] = r
      /\ \A b \in Calls : b # c =>
            /\ input'[b] = input[b]
            /\ \A d \in Deployments : pc'[d][b] = pc[d][b] /\ got'[d][b] = got[d][b]
  BY <1>1, <1>5, <1>7 DEF TypeInv
<1> QED BY <1>2, <1>3, <1>6, <1>8

(* Each action keeps what a turn under enforcement is told.                *)
LEMMA StepTurns == PipelineInv /\ TurnsInv /\ [Next]_vars => TurnsInv'
<1> SUFFICES ASSUME PipelineInv, TurnsInv, [Next]_vars,
                    NEW d \in Deployments \cap {"enforce"}, NEW c \in Calls,
                    input'[c] # NoInput, Turn(c)'
             PROVE  TurnInv(pc'[d][c], got'[d][c])
  BY DEF TurnsInv
<1>1. TypeInv /\ CallsInv
  BY DEF PipelineInv
<1>2. ASSUME input[c] # NoInput, input'[c] = input[c] PROVE TurnInv(pc[d][c], got[d][c]) /\ Turn(c)
  BY <1>2 DEF TurnsInv, Turn, Kind
<1>3. ASSUME NEW b \in Calls, Arrive(b) PROVE TurnInv(pc'[d][c], got'[d][c])
  <2>1. CASE b = c
    <3>1. PICK i \in Inputs :
              /\ input'[c] = i /\ pc'[d][c] = Steps[i.kind][1]
              /\ got'[d][c] = [NoResult EXCEPT !.score = IF i.kind = "tool" THEN 0 ELSE i.lexical]
      BY <1>1, <1>3, <2>1, ArriveGets
    <3>2. ~got'[d][c].limited /\ ~got'[d][c].flagged /\ ~got'[d][c].ran
      BY <3>1 DEF NoResult
    <3>3. pc'[d][c] = "request"
      BY <3>1 DEF Turn, Kind, Steps
    <3> QED BY <3>2, <3>3 DEF TurnInv
  <2>2. CASE b # c
    <3>1. input'[c] = input[c] /\ pc'[d][c] = pc[d][c] /\ got'[d][c] = got[d][c]
      BY <1>1, <1>3, <2>2, ArriveGets
    <3> QED BY <1>2, <3>1
  <2> QED BY <2>1, <2>2
<1>4. ASSUME NEW e \in Deployments, NEW b \in Calls, Advance(e, b), UNCHANGED closed
      PROVE  TurnInv(pc'[d][c], got'[d][c])
  <2>1. UNCHANGED input
    BY <1>4, AdvanceIsAt
  <2>2. TurnInv(pc[d][c], got[d][c]) /\ Turn(c)
    BY <1>2, <2>1
  <2>3. CASE e = d /\ b = c
    BY <1>4, <2>2, <2>3, AdvanceKeepsTurn DEF Turn, Kind
  <2>4. CASE ~(e = d /\ b = c)
    <3>1. PICK step, r : Moved(e, b, step, r)
      BY <1>4, AdvanceKeeps DEF Kept
    <3>2. pc'[d][c] = pc[d][c] /\ got'[d][c] = got[d][c]
      BY <1>1, <2>4, <3>1 DEF Moved, TypeInv
    <3> QED BY <2>2, <3>2
  <2> QED BY <2>3, <2>4
<1>5. CASE UNCHANGED vars
  BY <1>2, <1>5 DEF vars
<1> QED BY <1>3, <1>4, <1>5 DEF Next

(* The history, and what turns are told.                                   *)
THEOREM LedgerInvariant == Spec => []LedgerInv
BY InitLedger, StepLedger, PipelineInvariant, PTL DEF Spec

(* A user's turn under enforcement, from its arrival to its verdict.       *)
THEOREM TurnsInvariant == Spec => []TurnsInv
<1>1. Init => TurnsInv
  BY DEF Init, TurnsInv
<1> QED BY <1>1, StepTurns, PipelineInvariant, PTL DEF Spec

(* Multi-turn build-up: no turn is let through once its session, or its    *)
(* actor, has been charged the threshold.                                  *)
THEOREM BuildUpBlocked == Spec => []BuildUpIsBlocked
<1>1. PipelineInv /\ LedgerInv /\ TurnsInv => BuildUpIsBlocked
  <2> SUFFICES ASSUME PipelineInv, LedgerInv, TurnsInv, NEW d \in Deployments \cap {"enforce"},
                      NEW i \in DOMAIN charged[d], Turn(charged[d][i].call),
                      charged[d][i].owed >= Plan[charged[d][i].key]
               PROVE  /\ ~got[d][charged[d][i].call].ran
                      /\ Over(d, charged[d][i].call) =>
                            Outcome(d, charged[d][i].call) \in {"blocked", "unavailable"}
    BY DEF BuildUpIsBlocked
  <2> DEFINE c == charged[d][i].call
  <2>1. c \in Calls /\ input[c] # NoInput
    BY LedgerFields DEF LedgerInv
  <2>2. got[d][c].flagged
    <3>1. Reaches(charged[d][i])
      BY DEF Reaches, Limit
    <3> QED BY <3>1 DEF LedgerInv, LedgerOf
  <2>3. TurnInv(pc[d][c], got[d][c])
    BY <2>1 DEF TurnsInv
  <2> QED BY <2>2, <2>3 DEF TurnInv, Suspect, Over, Outcome
<1> QED BY <1>1, PipelineInvariant, LedgerInvariant, TurnsInvariant, PTL

(* A turn that is blocked has its score, or a charge that came to a limit, *)
(* for a cause.                                                            *)
THEOREM BlocksHaveACause == Spec => []BlockedForCause
<1>1. LedgerInv /\ TurnsInv => BlockedForCause
  <2> SUFFICES ASSUME LedgerInv, TurnsInv, NEW d \in Deployments \cap {"enforce"}, NEW c \in Calls,
                      Turn(c), Over(d, c), Outcome(d, c) = "blocked", ~got[d][c].ran,
                      ~(got[d][c].score >= InputThreshold)
               PROVE  \E i, j \in DOMAIN charged[d] :
                          LET e == charged[d][i]
                          IN  /\ i <= j /\ charged[d][j].call = c /\ charged[d][j].key = e.key
                              /\ e.owed >= Limit(e.call, e.key)
    BY DEF BlockedForCause
  <2>1. input[c] # NoInput
    BY DEF Turn, Kind, NoInput
  <2>2. TurnInv("done", got[d][c])
    BY <2>1 DEF TurnsInv, Over
  <2>3. got[d][c].flagged
    BY <2>2 DEF TurnInv, Suspect, Outcome
  <2>4. Cause(d, c)
    BY <2>3 DEF LedgerInv, LedgerOf
  <2> QED BY <2>4 DEF Cause, Reaches
<1> QED BY <1>1, LedgerInvariant, TurnsInvariant, PTL

----------------------------------------------------------------------------
(* What the scans of a call settle on, once the detectors have answered,   *)
(* whether it is charged, and up to which limit; a tool's is not told of.  *)
UserTurn == {"input", "chat"}

Settled(i) ==
    IF i.kind \in {"input", "external", "media", "chat"} THEN Merge(i.lexical, i.semantic)
    ELSE i.lexical

Pays(i) == Settled(i) > 0 \/ i.kind \in UserTurn

Ceiling(i, k) == IF i.kind \in UserTurn THEN Plan[k] ELSE Default[k]

(* The steps before the first charge.                                      *)
Early(i, step) ==
    \/ step \in {"request", "detect", "session"}
    \/ step = "audit" /\ i.kind \in {"external", "batch", "retrieve"}

(* By a step, with outcome o, key k has been charged.                      *)
Paid(i, step, o, k) ==
    /\ Pays(i) /\ ~Early(i, step) /\ o # "rate_limited"
    /\ k = i.session \/ (k = Actor /\ step # "actor")

(* What a call with input i, at a step and told r so far, makes of a store *)
(* that was base when it arrived, and of what it is told, if every store   *)
(* has answered: a function of base, but for what enforcement rejects.     *)
Reached(d, base, i, step, r, st) ==
    /\ \A k \in Keys :
          /\ st.risk[k] = base.risk[k] + (IF Paid(i, step, r.outcome, k) THEN Settled(i) ELSE 0)
          /\ st.flag[k] <=> \/ base.flag[k]
                            \/ /\ Paid(i, step, r.outcome, k)
                               /\ base.risk[k] + Settled(i) >= Ceiling(i, k)
    /\ r.flagged <=> \/ Paid(i, step, r.outcome, i.session) /\ st.flag[i.session]
                     \/ Paid(i, step, r.outcome, Actor) /\ st.flag[Actor]
    /\ \A s \in Sessions :
          st.requests[s] = base.requests[s] +
              (IF i.kind \in UserTurn /\ s = i.session /\ step # "request" THEN 1 ELSE 0)
    /\ r.score = IF step \in {"request", "detect"} \/ r.outcome = "rate_limited" THEN i.lexical
                 ELSE Settled(i)
    /\ i.kind \in UserTurn /\ step # "request" =>
          (r.outcome = "rate_limited" <=> OverBudget(base.requests[i.session] + 1, RequestBudget))
    /\ r.outcome = "rate_limited" => Enforced(d) /\ step = "done" /\ i.kind \in UserTurn
    /\ ~r.limited

(* Where a call that is not a tool's goes: to its first charge before its  *)
(* second, and to no scan after them.                                      *)
LEMMA StepsAreLater ==
    ASSUME NEW i \in Inputs, i.kind # "tool", NEW step \in Positions[i.kind],
           step \notin {"done", "denial", "unverified"}
    PROVE  LET next == Follows[i.kind][step]
           IN  /\ step = "request" => i.kind \in UserTurn /\ next = "detect"
               /\ step = "detect" =>
                     /\ i.kind \in {"input", "external", "media", "chat"}
                     /\ Early(i, next) /\ next \notin {"request", "detect", "done"}
               /\ step = "session" => next = "actor"
               /\ step = "actor" => ~Early(i, next) /\ next # "actor"
               /\ step \notin {"request", "detect", "session", "actor"} =>
                     /\ Early(i, next) <=> Early(i, step)
                     /\ next \notin {"request", "detect", "actor"}
               /\ next = "done" => ~Early(i, step)
<1>1. /\ i.kind \in DOMAIN Positions \ {"tool"} /\ step \in Positions[i.kind]
  BY InputFields DEF Positions
<1>2. CASE i.kind \in {"input", "chat"}
  BY <1>1, <1>2 DEF Positions, Follows, Early, UserTurn
<1>3. CASE i.kind \in {"external", "batch", "media"}
  BY <1>1, <1>3 DEF Positions, Follows, Early, UserTurn
<1>4. CASE i.kind \in {"output", "followup", "retrieve"}
  BY <1>1, <1>4 DEF Positions, Follows, Early, UserTurn
<1> QED BY <1>1, <1>2, <1>3, <1>4 DEF Positions

(* A call that arrives has made nothing of the store.                      *)
LEMMA ArrivedReaches ==
    ASSUME NEW i \in Inputs, i.kind # "tool", NEW d, NEW base, NEW st, base \in StoreType,
           \A k \in Keys : st.risk[k] = base.risk[k] /\ (st.flag[k] <=> base.flag[k]),
           \A s \in Sessions : st.requests[s] = base.requests[s],
           NEW r, r = [NoResult EXCEPT !.score = i.lexical]
    PROVE  Reached(d, base, i, Steps[i.kind][1], r, st)
<1> DEFINE step == Steps[i.kind][1]
<1>1. /\ i.kind \in DOMAIN Positions \ {"tool"} /\ i.lexical \in Nat /\ i.semantic \in Nat
      /\ i.session \in Sessions /\ i.session \in Keys /\ Actor \in Keys
  BY InputFields DEF Positions, Keys
<1>2. /\ r.score = i.lexical /\ ~r.flagged /\ ~r.limited /\ r.outcome = "none"
  BY DEF NoResult
<1>3. /\ i.kind \in UserTurn => step = "request"
      /\ i.kind \in {"external", "media"} => step = "detect"
      /\ i.kind \in {"batch", "retrieve"} => step = "audit"
      /\ i.kind \in {"output", "followup"} => step \in {"reply", "model"}
  BY <1>1 DEF Steps, UserTurn, Positions
<1>4. Early(i, step) \/ ~Pays(i)
  <2>1. CASE i.kind \in {"output", "followup"}
    <3>1. i.lexical = 0
      BY <2>1 DEF Inputs
    <3> QED BY <2>1, <3>1 DEF Pays, Settled, UserTurn
  <2> QED BY <1>1, <1>3, <2>1 DEF Early, UserTurn, Positions
<1>5. \A k : ~Paid(i, step, r.outcome, k)
  BY <1>4 DEF Paid
<1>6. step \notin {"request", "detect"} => Settled(i) = i.lexical
  BY <1>1, <1>3 DEF Settled, UserTurn, Positions
<1>7. i.kind \in UserTurn => step = "request"
  BY <1>3
<1> HIDE DEF step
<1>8. \A k \in Keys : base.risk[k] \in Nat
  BY DEF StoreType
<1>9. \A s \in Sessions : base.requests[s] \in Nat
  BY DEF StoreType
<1>10. Reached(d, base, i, step, r, st)
  BY <1>2, <1>5, <1>6, <1>7, <1>8, <1>9 DEF Reached
<1> QED BY <1>10 DEF step

(* What the two deployments make of a call is the same in the end.         *)
LEMMA ReachedAlike ==
    ASSUME NEW i \in Inputs, NEW base, NEW q, NEW r, NEW st, NEW su,
           Reached("enforce", base, i, "done", q, st), Reached("shadow", base, i, "done", r, su)
    PROVE  /\ \A k \in Keys : st.risk[k] = su.risk[k] /\ (st.flag[k] <=> su.flag[k])
           /\ \A s \in Sessions : st.requests[s] = su.requests[s]
           /\ q.score = r.score /\ (q.flagged <=> r.flagged) /\ q.outcome # "rate_limited"
<1>1. r.outcome # "rate_limited"
  BY DEF Reached, Enforced
<1>2. q.outcome # "rate_limited"
  BY <1>1 DEF Reached
<1>3. \A k : Paid(i, "done", q.outcome, k) <=> Paid(i, "done", r.outcome, k)
  BY <1>1, <1>2 DEF Paid
<1>4. i.session \in Keys /\ Actor \in Keys
  BY InputFields DEF Keys
<1>5. \A k \in Keys : st.risk[k] = su.risk[k] /\ (st.flag[k] <=> su.flag[k])
  BY <1>3 DEF Reached
<1>6. \A s \in Sessions : st.requests[s] = su.requests[s]
  BY DEF Reached
<1>7. q.flagged <=> r.flagged
  BY <1>3, <1>4, <1>5 DEF Reached
<1>8. q.score = r.score
  BY <1>1, <1>2 DEF Reached
<1> QED BY <1>2, <1>5, <1>6, <1>7, <1>8

----------------------------------------------------------------------------
(* Of a call that every store has answered; shadow mode has no remark of   *)
(* its budget.                                                             *)
Calm(d, r) == r.skipped = {} /\ r.outcome # "unavailable" /\ (d = "shadow" => ~r.limited)

(* A store that did not answer shows.                                      *)
LEMMA FailureShows ==
    ASSUME NEW d, NEW c, NEW step, At(d, c, step), step \notin {"done", "denial", "unverified"},
           input[c].kind # "tool"
    PROVE  /\ \A operation \in Operations :
                 Unanswered(d, c, operation) => ~Calm(d, got'[d][c])
           /\ Unrecorded(d, c) => ~Calm(d, got'[d][c])
<1>1. ASSUME NEW operation \in Operations, Unanswered(d, c, operation)
      PROVE  ~Calm(d, got'[d][c])
  <2>1. CASE Gets(d, c, "done", got[d][c], "unavailable")
    BY <2>1 DEF Gets, Calm
  <2>2. ASSUME NEW r, NEW s, NEW o, operation \in r.skipped, Gets(d, c, s, r, o)
        PROVE  ~Calm(d, got'[d][c])
    BY <2>2 DEF Gets, Calm
  <2> QED BY <1>1, <2>1, <2>2, UnansweredGets
<1>2. ASSUME Unrecorded(d, c) PROVE ~Calm(d, got'[d][c])
  <2>1. Gets(d, c, "done", got[d][c], "unavailable")
    BY <1>2, RaiseGets DEF Unrecorded
  <2> QED BY <2>1 DEF Gets, Calm
<1> QED BY <1>1, <1>2

(* The first round trip of a user's turn: it is counted.                   *)
LEMMA RequestReaches ==
    ASSUME NEW d, NEW c, At(d, c, "request"), CheckRequest(d, c), input[c].kind # "tool",
           d \in {"enforce", "shadow"}, NEW base \in StoreType,
           Reached(d, base, input[c], pc[d][c], got[d][c], store[d]), Calm(d, got'[d][c])
    PROVE  Reached(d, base, input[c], pc'[d][c], got'[d][c], store'[d])
<1> DEFINE i == input[c]
           q == got[d][c]
           s == i.session
           n == store[d].requests[s] + 1
<1>1. /\ TypeInv /\ d \in Deployments /\ c \in Calls /\ q \in ResultType /\ pc[d][c] = "request"
      /\ i \in Inputs /\ s \in Sessions /\ store[d] \in StoreType /\ q.outcome = "none"
      /\ "request" \in Positions[i.kind]
  BY InputFields DEF At, CallOK, TypeInv, OutcomeInv
<1>2. i.kind \in UserTurn /\ Follows[i.kind]["request"] = "detect"
  BY <1>1, StepsAreLater
<1>3. \A o, k : ~Paid(i, "request", o, k) /\ ~Paid(i, "detect", o, k)
  BY DEF Paid, Early
<1>4. /\ \A k \in Keys : store[d].risk[k] = base.risk[k] /\ (store[d].flag[k] <=> base.flag[k])
      /\ \A t \in Sessions : store[d].requests[t] = base.requests[t]
      /\ ~q.flagged /\ ~q.limited /\ q.score = i.lexical
  BY <1>1, <1>3 DEF Reached, StoreType
<1>5. /\ \A k \in Keys : base.risk[k] \in Nat
      /\ \A t \in Sessions : base.requests[t] \in Nat
      /\ n \in Nat /\ n = base.requests[s] + 1
  BY <1>1, <1>4 DEF StoreType
<1>6. ~Unanswered(d, c, "rate_limit")
  BY <1>1, FailureShows DEF Operations
<1>7. store' = [store EXCEPT ![d].requests[s] = n]
  BY <1>6 DEF CheckRequest
<1>8. Requested(d, s, n)
  BY <1>1, <1>5, <1>7, RequestIsCounted
<1>9. /\ \A k \in Keys : /\ store'[d].risk[k] = base.risk[k]
                         /\ store'[d].flag[k] <=> base.flag[k]
      /\ \A t \in Sessions :
            store'[d].requests[t] = base.requests[t] + (IF t = s THEN 1 ELSE 0)
  BY <1>1, <1>4, <1>5, <1>8 DEF Requested
<1>10. CASE OverBudget(n, RequestBudget) /\ Enforced(d) /\ End(d, c, q, "rate_limited")
  <2>1. "rate_limited" \in Outcomes
    BY DEF Outcomes
  <2>2. Gets(d, c, "done", q, "rate_limited")
    BY <1>1, <1>10, <2>1, EndGets
  <2>3. /\ pc'[d][c] = "done" /\ got'[d][c].outcome = "rate_limited"
        /\ got'[d][c].score = i.lexical /\ ~got'[d][c].flagged /\ ~got'[d][c].limited
    BY <1>4, <2>2 DEF Gets
  <2>4. \A k : ~Paid(i, "done", "rate_limited", k)
    BY DEF Paid
  <2> QED BY <1>2, <1>5, <1>9, <1>10, <2>3, <2>4 DEF Reached
<1>11. CASE /\ ~OverBudget(n, RequestBudget) \/ ~Enforced(d)
            /\ Proceed(d, c, [q EXCEPT !.limited = OverBudget(n, RequestBudget)])
  <2>1. PICK b \in BOOLEAN : b = OverBudget(n, RequestBudget)
    <3>1. OverBudget(n, RequestBudget) \in BOOLEAN
      BY <1>5, PipelineAssumption, SMT DEF OverBudget
    <3> QED BY <3>1
  <2>2. PICK r : r = [q EXCEPT !.limited = b]
    OBVIOUS
  <2>3. /\ r \in ResultType /\ r.limited = b /\ r.flagged = q.flagged /\ r.score = q.score
        /\ r.outcome = "none"
    BY <1>1, <2>2 DEF ResultType
  <2>4. Proceed(d, c, r)
    BY <1>11, <2>1, <2>2
  <2>5. Gets(d, c, "detect", r, "none")
    BY <1>1, <1>2, <2>3, <2>4, ProceedGets
  <2>6. /\ pc'[d][c] = "detect" /\ got'[d][c].outcome = "none" /\ got'[d][c].limited = b
        /\ got'[d][c].score = i.lexical /\ ~got'[d][c].flagged
    BY <1>4, <2>3, <2>5 DEF Gets
  <2>7. ~b
    BY <1>11, <2>1, <2>6 DEF Calm, Enforced
  <2>8. ~OverBudget(base.requests[s] + 1, RequestBudget) /\ ~got'[d][c].limited
    BY <1>5, <2>1, <2>6, <2>7
  <2> QED BY <1>2, <1>3, <1>5, <1>9, <2>6, <2>8 DEF Reached
<1> QED BY <1>6, <1>10, <1>11 DEF CheckRequest

(* The detectors settle the score.                                         *)
LEMMA DetectReaches ==
    ASSUME NEW d, NEW c, At(d, c, "detect"), Detect(d, c), input[c].kind # "tool",
           NEW base \in StoreType,
           Reached(d, base, input[c], pc[d][c], got[d][c], store[d]), Calm(d, got'[d][c])
    PROVE  Reached(d, base, input[c], pc'[d][c], got'[d][c], store'[d])
<1> DEFINE i    == input[c]
           q    == got[d][c]
           next == Follows[i.kind]["detect"]
<1>1. /\ TypeInv /\ d \in Deployments /\ c \in Calls /\ q \in ResultType /\ pc[d][c] = "detect"
      /\ i \in Inputs /\ i.lexical \in Nat /\ i.semantic \in Nat /\ q.outcome = "none"
      /\ "detect" \in Positions[i.kind]
  BY InputFields DEF At, CallOK, TypeInv, OutcomeInv
<1>2. /\ i.kind \in {"input", "external", "media", "chat"}
      /\ Early(i, next) /\ next \notin {"request", "detect", "done"}
  BY <1>1, StepsAreLater
<1>3. \A o, k : ~Paid(i, "detect", o, k) /\ ~Paid(i, next, o, k)
  BY <1>2 DEF Paid, Early
<1>4. q.score = i.lexical /\ ~q.flagged /\ ~q.limited
  BY <1>1, <1>3 DEF Reached
<1>5. ~Unanswered(d, c, "detector")
  BY <1>1, FailureShows DEF Operations
<1>6. Proceed(d, c, [q EXCEPT !.score = Merge(@, i.semantic)]) /\ store' = store
  BY <1>5 DEF Detect
<1>7. PICK n \in Nat : n = Settled(i)
  BY <1>1 DEF Settled, Merge
<1>8. Merge(q.score, i.semantic) = n
  BY <1>2, <1>4, <1>7 DEF Settled
<1>9. PICK r : r = [q EXCEPT !.score = n]
  OBVIOUS
<1>10. /\ r \in ResultType /\ r.limited = q.limited /\ r.flagged = q.flagged /\ r.score = n
       /\ r.outcome = "none"
  BY <1>1, <1>9 DEF ResultType
<1>11. Proceed(d, c, r)
  BY <1>6, <1>8, <1>9
<1>12. Gets(d, c, next, r, "none")
  BY <1>1, <1>2, <1>10, <1>11, ProceedGets
<1>13. /\ pc'[d][c] = next /\ got'[d][c].outcome = "none" /\ ~got'[d][c].limited
       /\ got'[d][c].score = Settled(i) /\ ~got'[d][c].flagged
  BY <1>4, <1>7, <1>10, <1>12 DEF Gets
<1> HIDE DEF next
<1> QED BY <1>1, <1>2, <1>3, <1>6, <1>13 DEF Reached

(* A charge: of one key, or of none of an operation that did not answer.   *)
LEMMA ChargeBills ==
    ASSUME NEW d, NEW c, NEW step \in {"session", "actor"}, At(d, c, step), NEW k \in Keys,
           Charge(d, c, k), input[c].kind # "tool", Calm(d, got'[d][c])
    PROVE  /\ Billed(d, k, Cumulative(d, c, k), Flags(d, c, k))
           /\ pc'[d][c] = Follows[input[c].kind][step]
           /\ got'[d][c].score = got[d][c].score /\ got'[d][c].limited = got[d][c].limited
           /\ got'[d][c].flagged <=> (got[d][c].flagged \/ Flags(d, c, k))
           /\ got'[d][c].outcome # "rate_limited"
<1> DEFINE q == got[d][c]
<1>1. /\ TypeInv /\ d \in Deployments /\ c \in Calls /\ q \in ResultType /\ pc[d][c] = step
      /\ q.outcome = "none"
  BY DEF At, CallOK, OutcomeInv
<1>2. ~Unanswered(d, c, "session_risk")
  BY FailureShows DEF Operations
<1>3. /\ store' = [store EXCEPT ![d].risk[k] = Cumulative(d, c, k), ![d].flag[k] = Flags(d, c, k)]
      /\ Proceed(d, c, [q EXCEPT !.flagged = @ \/ Flags(d, c, k)])
  BY <1>2 DEF Charge
<1>4. PICK n \in Nat : n = Cumulative(d, c, k)
  BY <1>1 DEF Cumulative, TypeInv, StoreType, ResultType
<1>5. PICK b \in BOOLEAN : b = Flags(d, c, k)
  BY DEF Flags
<1>6. PICK f \in BOOLEAN : f = (q.flagged \/ Flags(d, c, k))
  OBVIOUS
<1>7. Billed(d, k, n, b)
  BY <1>1, <1>3, <1>4, <1>5, ChargeIsBilled
<1>8. PICK r : r = [q EXCEPT !.flagged = f]
  OBVIOUS
<1>9. r \in ResultType /\ r.flagged = f /\ r.score = q.score /\ r.limited = q.limited
      /\ r.outcome = "none"
  BY <1>1, <1>8 DEF ResultType
<1>10. Proceed(d, c, r)
  BY <1>3, <1>6, <1>8
<1>11. PICK o : Gets(d, c, Follows[input[c].kind][step], r, o) /\ o # "rate_limited"
  BY <1>9, <1>10, ProceedGets DEF Judged
<1>12. /\ pc'[d][c] = Follows[input[c].kind][step] /\ got'[d][c].score = q.score
       /\ got'[d][c].limited = q.limited /\ got'[d][c].flagged = f
       /\ got'[d][c].outcome # "rate_limited"
  BY <1>9, <1>11 DEF Gets
<1> QED BY <1>4, <1>5, <1>6, <1>7, <1>12

(* A call that is not charged at a step it might have been.                *)
LEMMA UnchargedGets ==
    ASSUME NEW d, NEW c, NEW step \in {"session", "actor"}, At(d, c, step), Uncharged(d, c),
           input[c].kind # "tool"
    PROVE  /\ UNCHANGED store
           /\ pc'[d][c] = Follows[input[c].kind][step]
           /\ got'[d][c].score = got[d][c].score /\ got'[d][c].limited = got[d][c].limited
           /\ got'[d][c].flagged = got[d][c].flagged
           /\ got'[d][c].outcome # "rate_limited"
<1>1. got[d][c] \in ResultType /\ got[d][c].outcome = "none"
  BY DEF At, CallOK, OutcomeInv
<1>2. PICK o : Gets(d, c, Follows[input[c].kind][step], got[d][c], o) /\ o # "rate_limited"
  BY <1>1, ProceedGets DEF Judged, Uncharged
<1> QED BY <1>2 DEF Gets, Uncharged

(* Who is charged, and up to which limit, is told by the input alone.      *)
LEMMA ChargedIsPaying ==
    ASSUME NEW d, NEW c, input[c] \in Inputs, got[d][c].score = Settled(input[c])
    PROVE  /\ Charged(d, c) <=> Pays(input[c])
           /\ \A k : Limit(c, k) = Ceiling(input[c], k)
BY DEF Charged, Pays, Turn, Kind, UserTurn, Limit, Ceiling

(* The first charge.                                                       *)
LEMMA SessionReaches ==
    ASSUME NEW d, NEW c, At(d, c, "session"), ChargeSession(d, c), input[c].kind # "tool",
           NEW base \in StoreType,
           Reached(d, base, input[c], pc[d][c], got[d][c], store[d]), Calm(d, got'[d][c])
    PROVE  Reached(d, base, input[c], pc'[d][c], got'[d][c], store'[d])
<1> DEFINE i == input[c]
           q == got[d][c]
           s == i.session
<1>1. /\ TypeInv /\ d \in Deployments /\ c \in Calls /\ q \in ResultType /\ pc[d][c] = "session"
      /\ i \in Inputs /\ i.lexical \in Nat /\ i.semantic \in Nat /\ q.outcome = "none"
      /\ "session" \in Positions[i.kind] /\ s \in Sessions /\ s \in Keys /\ Actor \in Keys
      /\ s # Actor
  BY InputFields, PipelineAssumption DEF At, CallOK, TypeInv, OutcomeInv, Keys
<1>2. Follows[i.kind]["session"] = "actor"
  BY <1>1, StepsAreLater
<1>3. \A o, k : ~Paid(i, "session", o, k)
  BY DEF Paid, Early
<1>4. /\ \A k \in Keys : store[d].risk[k] = base.risk[k] /\ (store[d].flag[k] <=> base.flag[k])
      /\ q.score = Settled(i) /\ ~q.flagged /\ ~q.limited
      /\ \A t \in Sessions : store[d].requests[t] = base.requests[t] +
              (IF i.kind \in UserTurn /\ t = s THEN 1 ELSE 0)
      /\ i.kind \in UserTurn => ~OverBudget(base.requests[s] + 1, RequestBudget)
  BY <1>1, <1>3 DEF Reached, StoreType
<1>5. \A k \in Keys : base.risk[k] \in Nat
  BY DEF StoreType
<1>6. \A o, k : Paid(i, "actor", o, k) <=> Pays(i) /\ o # "rate_limited" /\ k = s
  BY DEF Paid, Early
<1>7. CASE Charged(d, c) /\ Charge(d, c, s)
  <2>1. /\ Pays(i) /\ Limit(c, s) = Ceiling(i, s)
    BY <1>1, <1>4, <1>7, ChargedIsPaying
  <2>2. /\ Billed(d, s, Cumulative(d, c, s), Flags(d, c, s)) /\ pc'[d][c] = "actor"
        /\ got'[d][c].score = q.score /\ got'[d][c].limited = q.limited
        /\ got'[d][c].flagged <=> (q.flagged \/ Flags(d, c, s))
        /\ got'[d][c].outcome # "rate_limited"
    BY <1>1, <1>2, <1>7, ChargeBills
  <2>3. Cumulative(d, c, s) = base.risk[s] + Settled(i)
    BY <1>1, <1>4 DEF Cumulative
  <2>4. Flags(d, c, s) <=> base.flag[s] \/ base.risk[s] + Settled(i) >= Ceiling(i, s)
    BY <1>1, <1>4, <2>1, <2>3 DEF Flags
  <2>5. /\ \A k \in Keys :
              /\ store'[d].risk[k] = base.risk[k] + (IF k = s THEN Settled(i) ELSE 0)
              /\ store'[d].flag[k] <=>
                    base.flag[k] \/ (k = s /\ base.risk[k] + Settled(i) >= Ceiling(i, k))
        /\ store'[d].requests = store[d].requests
        /\ store'[d].flag[s] <=> Flags(d, c, s)
    BY <1>1, <1>4, <1>5, <2>2, <2>3, <2>4 DEF Billed
  <2>6. \A k : Paid(i, "actor", got'[d][c].outcome, k) <=> k = s
    BY <1>6, <2>1, <2>2
  <2> QED BY <1>1, <1>4, <2>2, <2>5, <2>6 DEF Reached
<1>8. CASE ~Charged(d, c) /\ Uncharged(d, c)
  <2>1. ~Pays(i)
    BY <1>1, <1>4, <1>8, ChargedIsPaying
  <2>2. /\ UNCHANGED store /\ pc'[d][c] = "actor"
        /\ got'[d][c].score = q.score /\ got'[d][c].limited = q.limited
        /\ got'[d][c].flagged = q.flagged /\ got'[d][c].outcome # "rate_limited"
    BY <1>1, <1>2, <1>8, UnchargedGets
  <2>3. \A k : ~Paid(i, "actor", got'[d][c].outcome, k)
    BY <1>6, <2>1
  <2> QED BY <1>1, <1>4, <1>5, <2>2, <2>3 DEF Reached
<1> QED BY <1>7, <1>8 DEF ChargeSession

(* The second.                                                             *)
LEMMA ActorReaches ==
    ASSUME NEW d, NEW c, At(d, c, "actor"), ChargeActor(d, c), input[c].kind # "tool",
           NEW base \in StoreType,
           Reached(d, base, input[c], pc[d][c], got[d][c], store[d]), Calm(d, got'[d][c])
    PROVE  Reached(d, base, input[c], pc'[d][c], got'[d][c], store'[d])
<1> DEFINE i    == input[c]
           q    == got[d][c]
           s    == i.session
           next == Follows[i.kind]["actor"]
<1>1. /\ TypeInv /\ d \in Deployments /\ c \in Calls /\ q \in ResultType /\ pc[d][c] = "actor"
      /\ i \in Inputs /\ i.lexical \in Nat /\ i.semantic \in Nat /\ q.outcome = "none"
      /\ "actor" \in Positions[i.kind] /\ s \in Sessions /\ s \in Keys /\ Actor \in Keys
      /\ s # Actor
  BY InputFields, PipelineAssumption DEF At, CallOK, TypeInv, OutcomeInv, Keys
<1>2. ~Early(i, next) /\ next # "actor" /\ next \notin {"request", "detect"}
  BY <1>1, StepsAreLater DEF Early
<1>3. \A o, k : Paid(i, "actor", o, k) <=> Pays(i) /\ o # "rate_limited" /\ k = s
  BY DEF Paid, Early
<1>4. \A o, k : Paid(i, next, o, k) <=> Pays(i) /\ o # "rate_limited" /\ (k = s \/ k = Actor)
  BY <1>2 DEF Paid
<1>5. /\ \A k \in Keys :
            /\ store[d].risk[k] = base.risk[k] + (IF Pays(i) /\ k = s THEN Settled(i) ELSE 0)
            /\ store[d].flag[k] <=> \/ base.flag[k]
                                    \/ Pays(i) /\ k = s /\ base.risk[k] + Settled(i) >= Ceiling(i, k)
      /\ q.score = Settled(i) /\ ~q.limited /\ (q.flagged <=> Pays(i) /\ store[d].flag[s])
      /\ \A t \in Sessions : store[d].requests[t] = base.requests[t] +
              (IF i.kind \in UserTurn /\ t = s THEN 1 ELSE 0)
      /\ i.kind \in UserTurn => ~OverBudget(base.requests[s] + 1, RequestBudget)
  BY <1>1, <1>3 DEF Reached
<1>6. \A k \in Keys : base.risk[k] \in Nat
  BY DEF StoreType
<1>7. CASE Charged(d, c) /\ Charge(d, c, Actor)
  <2>1. /\ Pays(i) /\ Limit(c, Actor) = Ceiling(i, Actor)
    BY <1>1, <1>5, <1>7, ChargedIsPaying
  <2>2. /\ Billed(d, Actor, Cumulative(d, c, Actor), Flags(d, c, Actor)) /\ pc'[d][c] = next
        /\ got'[d][c].score = q.score /\ got'[d][c].limited = q.limited
        /\ got'[d][c].flagged <=> (q.flagged \/ Flags(d, c, Actor))
        /\ got'[d][c].outcome # "rate_limited"
    BY <1>1, <1>7, ChargeBills
  <2>3. Cumulative(d, c, Actor) = base.risk[Actor] + Settled(i)
    BY <1>1, <1>5, <1>6 DEF Cumulative
  <2>4. Flags(d, c, Actor) <=>
            base.flag[Actor] \/ base.risk[Actor] + Settled(i) >= Ceiling(i, Actor)
    BY <1>1, <1>5, <2>1, <2>3 DEF Flags
  <2>5. /\ \A k \in Keys :
              /\ store'[d].risk[k] = base.risk[k] + (IF k = s \/ k = Actor THEN Settled(i) ELSE 0)
              /\ store'[d].flag[k] <=>
                    \/ base.flag[k]
                    \/ (k = s \/ k = Actor) /\ base.risk[k] + Settled(i) >= Ceiling(i, k)
        /\ store'[d].requests = store[d].requests
        /\ store'[d].flag[s] <=> store[d].flag[s]
        /\ store'[d].flag[Actor] <=> Flags(d, c, Actor)
    BY <1>1, <1>5, <1>6, <2>1, <2>2, <2>3, <2>4 DEF Billed
  <2>6. \A k : Paid(i, next, got'[d][c].outcome, k) <=> (k = s \/ k = Actor)
    BY <1>4, <2>1, <2>2
  <2> HIDE DEF next
  <2> QED BY <1>1, <1>2, <1>5, <2>1, <2>2, <2>5, <2>6 DEF Reached
<1>8. CASE ~Charged(d, c) /\ Uncharged(d, c)
  <2>1. ~Pays(i)
    BY <1>1, <1>5, <1>8, ChargedIsPaying
  <2>2. /\ UNCHANGED store /\ pc'[d][c] = next
        /\ got'[d][c].score = q.score /\ got'[d][c].limited = q.limited
        /\ got'[d][c].flagged = q.flagged /\ got'[d][c].outcome # "rate_limited"
    BY <1>1, <1>8, UnchargedGets
  <2>3. \A k : ~Paid(i, next, got'[d][c].outcome, k)
    BY <1>4, <2>1
  <2> HIDE DEF next
  <2> QED BY <1>1, <1>2, <1>5, <1>6, <2>1, <2>2, <2>3 DEF Reached
<1> QED BY <1>7, <1>8 DEF ChargeActor


(* A step that charges nobody and scores nothing.                          *)
LEMMA PlainReaches ==
    ASSUME NEW i, NEW d, NEW base, NEW step, NEW next, NEW q, NEW r, NEW st,
           Reached(d, base, i, step, q, st), q.outcome # "rate_limited",
           Early(i, next) <=> Early(i, step),
           step \notin {"request", "detect", "actor"}, next \notin {"request", "detect", "actor"},
           r.score = q.score, r.flagged = q.flagged, r.limited = q.limited,
           r.outcome # "rate_limited"
    PROVE  Reached(d, base, i, next, r, st)
<1>1. \A k : Paid(i, next, r.outcome, k) <=> Paid(i, step, q.outcome, k)
  BY DEF Paid
<1> QED BY <1>1 DEF Reached

(* ... of a call that goes on, or ends.                                    *)
LEMMA GetsReaches ==
    ASSUME NEW d, NEW c, NEW step, At(d, c, step), NEW base,
           Reached(d, base, input[c], step, got[d][c], store[d]),
           NEW next, NEW r, NEW o, Gets(d, c, next, r, o), Only(got[d][c], r),
           o # "rate_limited", UNCHANGED store, step \notin {"done", "denial"},
           Early(input[c], next) <=> Early(input[c], step),
           step \notin {"request", "detect", "actor"}, next \notin {"request", "detect", "actor"}
    PROVE  Reached(d, base, input[c], pc'[d][c], got'[d][c], store'[d])
<1>1. got[d][c].outcome # "rate_limited"
  BY DEF At, CallOK, OutcomeInv
<1>2. /\ got'[d][c].score = got[d][c].score /\ got'[d][c].flagged = got[d][c].flagged
      /\ got'[d][c].limited = got[d][c].limited /\ got'[d][c].outcome # "rate_limited"
      /\ pc'[d][c] = next /\ store'[d] = store[d]
  BY DEF Gets, Only
<1>3. Reached(d, base, input[c], next, got'[d][c], store[d])
  BY <1>1, <1>2, PlainReaches
<1> QED BY <1>2, <1>3

(* Each round trip of a call that every store has answered.                *)
LEMMA AdvanceReaches ==
    ASSUME PipelineInv, NEW d \in Deployments, d \in {"enforce", "shadow"}, NEW c \in Calls,
           Advance(d, c), input[c].kind # "tool", NEW base \in StoreType,
           Reached(d, base, input[c], pc[d][c], got[d][c], store[d]), Calm(d, got'[d][c])
    PROVE  Reached(d, base, input[c], pc'[d][c], got'[d][c], store'[d])
<1> DEFINE i    == input[c]
           q    == got[d][c]
           p    == pc[d][c]
           next == Follows[i.kind][p]
<1>1. /\ At(d, c, p) /\ TypeInv /\ i \in Inputs /\ q \in ResultType /\ p \in Positions[i.kind]
      /\ p \in Stages \ {"idle", "done"} /\ (q.outcome = "none" \/ p = "denial")
  BY AdvanceIsAt DEF At, CallOK, OutcomeInv
<1>2. CheckRequest(d, c) \/ Scan(d, c) \/ Chain(d, c)
  BY NoToolActions
<1>3. p \notin {"done", "denial", "unverified", "request", "detect", "session", "actor"} =>
          (Early(i, next) <=> Early(i, p)) /\ next \notin {"request", "detect", "actor"}
  BY <1>1, StepsAreLater
<1>4. Early(i, "done") <=> FALSE
  BY DEF Early
<1>5. /\ {"none", "allowed", "blocked", "rate_limited", "denied", "failed", "unavailable"} = Outcomes
      /\ {"rate_limit", "session_risk", "token_replay", "detector", "audit", "provenance"} = Operations
  BY DEF Outcomes, Operations
<1>6. ASSUME NEW r \in Results(d, c), Proceed(d, c, r), UNCHANGED store,
             p \in {"audit", "verify"}
      PROVE  Reached(d, base, i, pc'[d][c], got'[d][c], store'[d])
  <2>1. Only(q, r) /\ r \in ResultType
    BY <1>1, ResultsAreOnly DEF Only
  <2>2. PICK o : Gets(d, c, next, r, o) /\ o # "rate_limited"
    BY <1>1, <1>6, <2>1, ProceedGets DEF Judged, Only
  <2> QED BY <1>1, <1>3, <1>6, <2>1, <2>2, GetsReaches
<1>7. ASSUME NEW r \in ResultType, NEW o \in Outcomes \ {"rate_limited"}, End(d, c, r, o),
             r.score = q.score, r.flagged = q.flagged, r.limited = q.limited,
             UNCHANGED store, p \in {"model", "reply", "unverified"}
      PROVE  Reached(d, base, i, pc'[d][c], got'[d][c], store'[d])
  <2>1. Gets(d, c, "done", r, o)
    BY <1>1, <1>7, EndGets
  <2>2. /\ got'[d][c].score = q.score /\ got'[d][c].flagged = q.flagged
        /\ got'[d][c].limited = q.limited /\ got'[d][c].outcome # "rate_limited"
        /\ pc'[d][c] = "done" /\ store'[d] = store[d]
    BY <1>7, <2>1 DEF Gets
  <2>3. Early(i, "done") <=> Early(i, p)
    BY <1>4, <1>7 DEF Early
  <2>4. Reached(d, base, i, "done", got'[d][c], store[d])
    BY <1>1, <1>7, <2>2, <2>3, PlainReaches
  <2> QED BY <2>2, <2>4
<1>8. CASE CheckRequest(d, c)
  BY <1>1, <1>8, RequestReaches DEF CheckRequest
<1>9. CASE Detect(d, c)
  BY <1>1, <1>9, DetectReaches DEF Detect
<1>10. CASE ChargeSession(d, c)
  BY <1>1, <1>10, SessionReaches DEF ChargeSession
<1>11. CASE ChargeActor(d, c)
  BY <1>1, <1>11, ActorReaches DEF ChargeActor
<1>12. CASE AuditScan(d, c)
  <2>1. p = "audit" /\ ~Unrecorded(d, c)
    BY <1>1, <1>12, FailureShows DEF AuditScan
  <2> QED BY <1>6, <1>12, <2>1 DEF AuditScan
<1>13. CASE CallModel(d, c)
  <2>1. p = "model" /\ UNCHANGED store
    BY <1>13 DEF CallModel
  <2>2. PICK r : r = [q EXCEPT !.ran = TRUE]
    OBVIOUS
  <2>3. /\ r \in ResultType /\ r.score = q.score /\ r.flagged = q.flagged /\ r.limited = q.limited
        /\ r.outcome = q.outcome
    BY <1>1, <2>2 DEF ResultType
  <2>4. CASE Proceed(d, c, r)
    <3>1. PICK o : Gets(d, c, next, r, o) /\ o # "rate_limited"
      BY <1>1, <2>1, <2>3, <2>4, ProceedGets DEF Judged
    <3>2. /\ got'[d][c].score = q.score /\ got'[d][c].flagged = q.flagged
          /\ got'[d][c].limited = q.limited /\ got'[d][c].outcome # "rate_limited"
          /\ pc'[d][c] = next /\ store'[d] = store[d]
      BY <2>1, <2>3, <3>1 DEF Gets
    <3>3. Reached(d, base, i, next, got'[d][c], store[d])
      BY <1>1, <1>3, <2>1, <3>2, PlainReaches
    <3> QED BY <3>2, <3>3
  <2> QED BY <1>1, <1>5, <1>7, <1>13, <2>1, <2>2, <2>3, <2>4 DEF CallModel
<1>14. CASE ScanReply(d, c)
  <2>1. p = "reply" /\ UNCHANGED store /\ ~Unrecorded(d, c)
    BY <1>1, <1>14, FailureShows DEF ScanReply
  <2>2. ASSUME NEW r \in Results(d, c), NEW o \in {"blocked", "allowed"},
               End(d, c, [r EXCEPT !.reply = SafeText(d, c)], o)
        PROVE  Reached(d, base, i, pc'[d][c], got'[d][c], store'[d])
    <3>1. SafeText(d, c) \in Replies \cup {"none", "raw"}
      BY <1>1, InputFields DEF SafeText
    <3>2. PICK t : t = [r EXCEPT !.reply = SafeText(d, c)]
      OBVIOUS
    <3>3. Only(q, r)
      BY <1>1, ResultsAreOnly
    <3>4. /\ t \in ResultType /\ t.flagged = q.flagged
          /\ t.score = q.score /\ t.limited = q.limited
      BY <3>1, <3>2, <3>3 DEF ResultType, Only
    <3>5. End(d, c, t, o)
      BY <2>2, <3>2
    <3> QED BY <1>5, <1>7, <2>1, <2>2, <3>4, <3>5
  <2>3. End(d, c, q, "failed") => Reached(d, base, i, pc'[d][c], got'[d][c], store'[d])
    BY <1>1, <1>5, <1>7, <2>1
  <2> QED BY <1>14, <2>1, <2>2, <2>3 DEF ScanReply
<1>15. CASE Verify(d, c)
  <2>1. p = "verify" /\ ~Unanswered(d, c, "provenance") /\ UNCHANGED store
    BY <1>1, <1>5, <1>15, FailureShows DEF Verify
  <2>2. CASE Proceed(d, c, q)
    BY <1>6, <2>1, <2>2 DEF Results
  <2>3. CASE pc' = [pc EXCEPT ![d][c] = "unverified"] /\ UNCHANGED <<got, store>>
    <3>1. pc'[d][c] = "unverified" /\ got'[d][c] = q /\ store'[d] = store[d]
      BY <1>1, <2>3 DEF TypeInv
    <3>2. Early(i, "unverified") <=> Early(i, "verify")
      BY DEF Early
    <3>3. Reached(d, base, i, "unverified", q, store[d])
      BY <1>1, <2>1, <3>2, PlainReaches
    <3> QED BY <3>1, <3>3
  <2> QED BY <1>15, <2>1, <2>2, <2>3 DEF Verify
<1>16. CASE AuditUnverified(d, c)
  <2>1. p = "unverified" /\ UNCHANGED store
    BY <1>16 DEF AuditUnverified
  <2>2. ASSUME NEW r \in Results(d, c), End(d, c, r, "blocked")
        PROVE  Reached(d, base, i, pc'[d][c], got'[d][c], store'[d])
    <3>1. Only(q, r)
      BY <1>1, ResultsAreOnly
    <3> QED BY <1>5, <1>7, <2>1, <2>2, <3>1 DEF Only
  <2>3. ASSUME Unrecorded(d, c) PROVE FALSE
    <3>1. Gets(d, c, "done", q, "unavailable")
      BY <1>1, <2>3, RaiseGets DEF Unrecorded
    <3> QED BY <3>1 DEF Gets, Calm
  <2> QED BY <1>16, <2>2, <2>3 DEF AuditUnverified
<1> QED BY <1>2, <1>8, <1>9, <1>10, <1>11, <1>12, <1>13, <1>14, <1>15, <1>16 DEF Scan, Chain

----------------------------------------------------------------------------
(* Each deployment has a store of its own.                                 *)
LEMMA AdvanceElsewhere ==
    ASSUME PipelineInv, NEW d \in Deployments, NEW c \in Calls, Advance(d, c)
    PROVE  \A e \in Deployments : e # d => store'[e] = store[e]
<1>1. store \in [Deployments -> StoreType]
  BY DEF PipelineInv, TypeInv
<1>2. UNCHANGED store \/ CheckRequest(d, c) \/ CheckToolCall(d, c)
          \/ \E k : Charge(d, c, k)
  BY DEF Advance, Scan, Tool, Chain, Detect, AuditScan, ChargeSession, ChargeActor, Uncharged,
         ScanArguments, Authorize, Invoke, AuditAllowed, AuditDenied, JudgeResult,
         CallModel, ScanReply, Verify, AuditUnverified, Unanswered
<1>3. ASSUME NEW k, Charge(d, c, k) PROVE \A e \in Deployments : e # d => store'[e] = store[e]
  BY <1>1, <1>3 DEF Charge, Unanswered
<1>4. CheckRequest(d, c) => \A e \in Deployments : e # d => store'[e] = store[e]
  BY <1>1 DEF CheckRequest, Unanswered
<1>5. CheckToolCall(d, c) => \A e \in Deployments : e # d => store'[e] = store[e]
  BY <1>1 DEF CheckToolCall, Unanswered
<1> QED BY <1>2, <1>3, <1>4, <1>5

(* A remark, once made, stays; no call comes back to its first round trip. *)
LEMMA AdvanceTells ==
    ASSUME PipelineInv, NEW d \in Deployments, NEW c \in Calls, Advance(d, c),
           input[c].kind # "tool"
    PROVE  /\ pc'[d][c] # "request"
           /\ pc[d][c] # "request" => got'[d][c].limited = got[d][c].limited
<1> DEFINE i    == input[c]
           q    == got[d][c]
           p    == pc[d][c]
           next == Follows[i.kind][p]
           Told == pc'[d][c] # "request" /\ (p # "request" => got'[d][c].limited = q.limited)
<1>1. /\ At(d, c, p) /\ TypeInv /\ i \in Inputs /\ q \in ResultType /\ p \in Positions[i.kind]
      /\ p \in Stages \ {"idle", "done"}
  BY AdvanceIsAt DEF At, CallOK
<1>2. CheckRequest(d, c) \/ Scan(d, c) \/ Chain(d, c)
  BY NoToolActions
<1>3. p \notin {"done", "denial", "unverified"} => next # "request"
  BY <1>1, StepsAreLater DEF Early
<1>4. /\ {"none", "allowed", "blocked", "rate_limited", "denied", "failed", "unavailable"} = Outcomes
      /\ {"rate_limit", "session_risk", "token_replay", "detector", "audit", "provenance"} = Operations
  BY DEF Outcomes, Operations
<1>5. ASSUME NEW operation \in Operations, Unanswered(d, c, operation),
             p \notin {"done", "denial", "unverified"}
      PROVE  Told
  <2>1. CASE Gets(d, c, "done", q, "unavailable")
    BY <2>1 DEF Gets
  <2>2. ASSUME NEW r, NEW o, Only(q, r), Gets(d, c, next, r, o) PROVE Told
    BY <1>3, <1>5, <2>2 DEF Gets, Only
  <2> QED BY <1>1, <1>5, <2>1, <2>2, UnansweredGets
<1>6. ASSUME Unrecorded(d, c) PROVE Told
  <2>1. Gets(d, c, "done", q, "unavailable")
    BY <1>1, <1>6, RaiseGets DEF Unrecorded
  <2> QED BY <2>1 DEF Gets
<1>7. ASSUME NEW r \in ResultType, Proceed(d, c, r), p # "request" => r.limited = q.limited,
             p \notin {"done", "denial", "unverified"}
      PROVE  Told
  <2>1. PICK o : Gets(d, c, next, r, o)
    BY <1>1, <1>7, ProceedGets
  <2> QED BY <1>3, <1>7, <2>1 DEF Gets
<1>8. ASSUME NEW r \in ResultType, NEW o \in Outcomes, End(d, c, r, o), r.limited = q.limited
      PROVE  Told
  <2>1. Gets(d, c, "done", r, o)
    BY <1>1, <1>8, EndGets
  <2> QED BY <1>8, <2>1 DEF Gets
<1>9. \A r \in Results(d, c) : r \in ResultType /\ r.limited = q.limited
  BY <1>1, ResultsAreOnly DEF Only
<1>10. CASE CheckRequest(d, c)
  <2> DEFINE n == store[d].requests[i.session] + 1
  <2>1. p = "request"
    BY <1>10 DEF CheckRequest
  <2>2. ASSUME Proceed(d, c, [q EXCEPT !.limited = OverBudget(n, RequestBudget)]) PROVE Told
    <3>1. OverBudget(n, RequestBudget) \in BOOLEAN
      <4>1. n \in Nat
        BY <1>1, InputFields DEF TypeInv, StoreType
      <4> QED BY <4>1, PipelineAssumption, SMT DEF OverBudget
    <3>2. PICK r : r = [q EXCEPT !.limited = OverBudget(n, RequestBudget)]
      OBVIOUS
    <3>3. r \in ResultType
      BY <1>1, <3>1, <3>2 DEF ResultType
    <3>4. Proceed(d, c, r)
      BY <2>2, <3>2
    <3> QED BY <1>7, <2>1, <3>3, <3>4
  <2> QED BY <1>1, <1>4, <1>5, <1>8, <1>10, <2>1, <2>2 DEF CheckRequest
<1>11. CASE Detect(d, c)
  <2>1. p = "detect"
    BY <1>11 DEF Detect
  <2>2. ASSUME Proceed(d, c, [q EXCEPT !.score = Merge(@, i.semantic)]) PROVE Told
    <3>1. PICK n \in Nat : n = Merge(q.score, i.semantic)
      BY <1>1, InputFields DEF Merge, ResultType
    <3>2. PICK r : r = [q EXCEPT !.score = n]
      OBVIOUS
    <3>3. r \in ResultType /\ r.limited = q.limited
      BY <1>1, <3>2 DEF ResultType
    <3>4. Proceed(d, c, r)
      BY <2>2, <3>1, <3>2
    <3> QED BY <1>7, <2>1, <3>3, <3>4
  <2> QED BY <1>4, <1>5, <1>11, <2>1, <2>2 DEF Detect
<1>12. CASE ChargeSession(d, c) \/ ChargeActor(d, c)
  <2>1. p \in {"session", "actor"}
    BY <1>12 DEF ChargeSession, ChargeActor
  <2>2. ASSUME NEW k, Proceed(d, c, [q EXCEPT !.flagged = @ \/ Flags(d, c, k)]) PROVE Told
    <3>1. PICK f \in BOOLEAN : f = (q.flagged \/ Flags(d, c, k))
      OBVIOUS
    <3>2. PICK r : r = [q EXCEPT !.flagged = f]
      OBVIOUS
    <3>3. r \in ResultType /\ r.limited = q.limited
      BY <1>1, <3>2 DEF ResultType
    <3>4. Proceed(d, c, r)
      BY <2>2, <3>1, <3>2
    <3> QED BY <1>7, <2>1, <3>3, <3>4
  <2>3. Uncharged(d, c) => Told
    BY <1>1, <1>7, <2>1 DEF Uncharged
  <2>4. Unanswered(d, c, "session_risk") => Told
    BY <1>4, <1>5, <2>1
  <2> QED BY <1>12, <2>2, <2>3, <2>4 DEF ChargeSession, ChargeActor, Charge
<1>13. CASE AuditScan(d, c)
  <2>1. p = "audit"
    BY <1>13 DEF AuditScan
  <2> QED BY <1>6, <1>7, <1>9, <1>13, <2>1 DEF AuditScan
<1>14. CASE CallModel(d, c)
  <2>1. p = "model"
    BY <1>14 DEF CallModel
  <2>2. PICK r : r = [q EXCEPT !.ran = TRUE]
    OBVIOUS
  <2>3. r \in ResultType /\ r.limited = q.limited
    BY <1>1, <2>2 DEF ResultType
  <2> QED BY <1>1, <1>4, <1>7, <1>8, <1>14, <2>1, <2>2, <2>3 DEF CallModel
<1>15. CASE ScanReply(d, c)
  <2>1. ASSUME NEW r \in Results(d, c), NEW o \in {"blocked", "allowed"},
               End(d, c, [r EXCEPT !.reply = SafeText(d, c)], o)
        PROVE  Told
    <3>1. SafeText(d, c) \in Replies \cup {"none", "raw"}
      BY <1>1, InputFields DEF SafeText
    <3>2. PICK t : t = [r EXCEPT !.reply = SafeText(d, c)]
      OBVIOUS
    <3>3. t \in ResultType /\ t.limited = q.limited
      BY <1>9, <3>1, <3>2 DEF ResultType
    <3>4. End(d, c, t, o)
      BY <2>1, <3>2
    <3> QED BY <1>4, <1>8, <2>1, <3>3, <3>4
  <2> QED BY <1>1, <1>4, <1>6, <1>8, <1>15, <2>1 DEF ScanReply
<1>16. CASE Verify(d, c)
  <2>1. p = "verify"
    BY <1>16 DEF Verify
  <2>2. CASE pc' = [pc EXCEPT ![d][c] = "unverified"] /\ UNCHANGED <<got, store>>
    BY <1>1, <2>2 DEF TypeInv
  <2> QED BY <1>1, <1>4, <1>5, <1>7, <1>16, <2>1, <2>2 DEF Verify
<1>17. CASE AuditUnverified(d, c)
  BY <1>4, <1>6, <1>8, <1>9, <1>17 DEF AuditUnverified
<1> QED BY <1>2, <1>10, <1>11, <1>12, <1>13, <1>14, <1>15, <1>16, <1>17 DEF Scan, Chain

(* ... nor is another call touched, or anything unlearned.                 *)
LEMMA AdvanceAlone ==
    ASSUME PipelineInv, NEW d \in Deployments, NEW c \in Calls, Advance(d, c)
    PROVE  /\ got[d][c].skipped \subseteq got'[d][c].skipped
           /\ \A e \in Deployments, b \in Calls : e # d \/ b # c =>
                 pc'[e][b] = pc[e][b] /\ got'[e][b] = got[e][b]
BY AdvanceKeeps DEF Kept, Moved, PipelineInv, TypeInv

----------------------------------------------------------------------------
(* Both deployments, and the two in the same state: no call is under way,  *)
(* and their stores agree.                                                 *)
Both == OneAtATime /\ Deployments = {"enforce", "shadow"}

Done(c) == \A d \in Deployments : pc[d][c] = "done"

Agree ==
    /\ \A k \in Keys : /\ store["enforce"].risk[k] = store["shadow"].risk[k]
                       /\ store["enforce"].flag[k] <=> store["shadow"].flag[k]
    /\ \A s \in Sessions : store["enforce"].requests[s] = store["shadow"].requests[s]

Quiet == Agree /\ \A c \in Calls : input[c] # NoInput => Done(c)

(* Or one call is under way, and each is somewhere on its way from the     *)
(* store that both had.                                                    *)
Underway(c) ==
    /\ input[c] # NoInput /\ ~Done(c)
    /\ \A b \in Calls : b # c /\ input[b] # NoInput => Done(b)
    /\ \E base \in StoreType : \A d \in Deployments :
          Reached(d, base, input[c], pc[d][c], got[d][c], store[d])

(* The two have told the same of a call.                                   *)
Alike(c) ==
    /\ got["enforce"][c].score = got["shadow"][c].score
    /\ got["enforce"][c].flagged <=> got["shadow"][c].flagged
    /\ got["enforce"][c].outcome # "rate_limited"

InOrder == \A b, c \in Calls : b < c /\ input[c] # NoInput => input[b] # NoInput

Fresh == \A d \in Deployments, c \in Calls : pc[d][c] = "request" => ~got[d][c].limited

Mirrored ==
    /\ \A c \in Calls : input[c] # NoInput /\ Done(c) => Alike(c)
    /\ Quiet \/ \E c \in Calls : Underway(c)

MirrorInv == InOrder /\ Fresh /\ (Undisturbed => Mirrored)

(* A call arrives where none is under way.                                 *)
LEMMA ArriveMirrors ==
    ASSUME Both, PipelineInv, MirrorInv, NEW c \in Calls, Arrive(c)
    PROVE  MirrorInv'
<1>1. TypeInv /\ CallsInv /\ Calls \subseteq Int
  <2>1. PICK n \in Nat : n = Cardinality(Calls)
    BY PipelineAssumption, FS_CardinalityType
  <2>2. Calls = 1..n
    BY <2>1, PipelineAssumption
  <2> QED BY <2>2 DEF PipelineInv
<1>2. /\ input[c] = NoInput /\ UNCHANGED store
      /\ \A b \in Calls : b < c => input[b] # NoInput /\ Done(b)
      /\ \A b \in Calls : b # c =>
            /\ input'[b] = input[b]
            /\ \A d \in Deployments : pc'[d][b] = pc[d][b] /\ got'[d][b] = got[d][b]
  BY <1>1, ArriveGets DEF Both, Done
<1>3. PICK i \in Inputs :
          /\ input'[c] = i
          /\ \A d \in Deployments :
                /\ pc'[d][c] = Steps[i.kind][1]
                /\ got'[d][c] = [NoResult EXCEPT !.score = IF i.kind = "tool" THEN 0 ELSE i.lexical]
  BY <1>1, ArriveGets
<1>4. i # NoInput /\ Steps[i.kind][1] # "done"
  BY InputFields DEF Steps, Positions
<1>5. InOrder'
  BY <1>1, <1>2, <1>3, <1>4 DEF InOrder, MirrorInv
<1>6. \A d \in Deployments : ~got'[d][c].limited
  BY <1>3 DEF NoResult
<1>7. Fresh'
  BY <1>2, <1>6 DEF Fresh, MirrorInv
<1>8. ASSUME Undisturbed' PROVE Mirrored'
  <2>1. i.kind # "tool"
    BY <1>3, <1>8 DEF Undisturbed, Kind
  <2>2. Undisturbed
    <3>1. ASSUME NEW b \in Calls
          PROVE  /\ Kind(b) # "tool" /\ ~got["shadow"][b].limited
                 /\ \A d \in Deployments : got[d][b].skipped = {} /\ Outcome(d, b) # "unavailable"
      <4>1. CASE b = c
        <5>1. \A d \in Deployments : got[d][b] = NoResult
          BY <1>1, <1>2, <4>1 DEF CallsInv
        <5> QED BY <1>2, <4>1, <5>1 DEF Kind, NoInput, NoResult, Outcome, Both
      <4>2. CASE b # c
        BY <1>2, <1>8, <4>2 DEF Undisturbed, Kind, Outcome, Both
      <4> QED BY <4>1, <4>2
    <3> QED BY <3>1 DEF Undisturbed
  <2>3. \A b \in Calls : b # c /\ input[b] # NoInput => Done(b)
    BY <1>1, <1>2 DEF InOrder, MirrorInv
  <2>4. Quiet /\ \A b \in Calls : input[b] # NoInput /\ Done(b) => Alike(b)
    BY <1>2, <2>2, <2>3 DEF MirrorInv, Mirrored, Underway
  <2>5. \A b \in Calls : b # c => (Done(b)' <=> Done(b)) /\ (Alike(b)' <=> Alike(b))
    BY <1>2 DEF Done, Alike, Both
  <2>6. ~Done(c)'
    BY <1>3, <1>4 DEF Done, Both
  <2>7. store["enforce"] \in StoreType
    BY <1>1 DEF TypeInv, Both
  <2>8. ASSUME NEW d \in Deployments
        PROVE  Reached(d, store["enforce"], input'[c], pc'[d][c], got'[d][c], store'[d])
    <3>1. /\ \A k \in Keys : /\ store[d].risk[k] = store["enforce"].risk[k]
                             /\ store[d].flag[k] <=> store["enforce"].flag[k]
          /\ \A s \in Sessions : store[d].requests[s] = store["enforce"].requests[s]
      BY <2>4 DEF Quiet, Agree, Both
    <3>2. got'[d][c] = [NoResult EXCEPT !.score = i.lexical]
      BY <1>3, <2>1
    <3> QED BY <1>2, <1>3, <2>1, <2>7, <3>1, <3>2, ArrivedReaches
  <2>9. Underway(c)'
    BY <1>2, <1>3, <1>4, <2>3, <2>5, <2>6, <2>7, <2>8 DEF Underway
  <2> QED BY <1>2, <2>4, <2>5, <2>6, <2>9 DEF Mirrored
<1> QED BY <1>5, <1>7, <1>8 DEF MirrorInv

(* What has disturbed a call is not undone.                                *)
LEMMA DisturbedBefore ==
    ASSUME Both, PipelineInv, MirrorInv, NEW d \in Deployments, NEW c \in Calls, Advance(d, c),
           Undisturbed'
    PROVE  Undisturbed /\ input[c].kind # "tool"
<1>1. UNCHANGED input /\ At(d, c, pc[d][c]) /\ pc[d][c] # "done"
  BY AdvanceIsAt
<1>2. input[c].kind # "tool"
  BY <1>1 DEF Undisturbed, Kind
<1>3. got[d][c].outcome # "unavailable"
  <2>1. pc[d][c] # "denial"
    BY <1>1, <1>2, InputFields DEF At, CallOK, Positions
  <2> QED BY <1>1, <2>1 DEF At, CallOK, OutcomeInv
<1>4. /\ got[d][c].skipped = {}
      /\ \A e \in Deployments, b \in Calls : e # d \/ b # c => got'[e][b] = got[e][b]
  BY AdvanceAlone DEF Undisturbed
<1>5. d = "shadow" => ~got[d][c].limited
  BY <1>2, AdvanceTells DEF Undisturbed, MirrorInv, Fresh
<1>6. ASSUME NEW b \in Calls
      PROVE  /\ Kind(b) # "tool" /\ ~got["shadow"][b].limited
             /\ \A e \in Deployments : got[e][b].skipped = {} /\ Outcome(e, b) # "unavailable"
  <2>1. Kind(b) # "tool"
    BY <1>1 DEF Undisturbed, Kind
  <2>2. ~got["shadow"][b].limited
    BY <1>4, <1>5 DEF Undisturbed, Both
  <2>3. ASSUME NEW e \in Deployments
        PROVE  got[e][b].skipped = {} /\ Outcome(e, b) # "unavailable"
    BY <1>3, <1>4 DEF Undisturbed, Outcome
  <2> QED BY <2>1, <2>2, <2>3
<1> QED BY <1>2, <1>6 DEF Undisturbed

(* The call that is under way goes on, in one of the deployments.          *)
LEMMA AdvanceMirrors ==
    ASSUME Both, PipelineInv, MirrorInv, NEW d \in Deployments, NEW c \in Calls, Advance(d, c)
    PROVE  MirrorInv'
<1>1. /\ UNCHANGED input /\ At(d, c, pc[d][c]) /\ pc[d][c] # "done"
      /\ input[c] \in Inputs /\ input[c] # NoInput
  BY AdvanceIsAt, InputFields
<1>2. \A e \in Deployments, b \in Calls : e # d \/ b # c =>
          pc'[e][b] = pc[e][b] /\ got'[e][b] = got[e][b]
  BY AdvanceAlone
<1>3. InOrder'
  BY <1>1 DEF MirrorInv, InOrder
<1>4. Fresh'
  <2>1. pc'[d][c] # "request"
    <3>1. CASE input[c].kind = "tool"
      <4>1. PICK step, r : Moved(d, c, step, r) /\ CallOK(Strict, d, c, input[c], step, r, log'[d])
        BY AdvanceKeeps DEF Kept
      <4>2. pc'[d][c] = step
        BY <4>1 DEF Moved, PipelineInv, TypeInv
      <4> QED BY <3>1, <4>1, <4>2 DEF CallOK, Positions
    <3> QED BY <3>1, AdvanceTells
  <2> QED BY <1>2, <2>1 DEF MirrorInv, Fresh
<1>5. ASSUME Undisturbed' PROVE Mirrored'
  <2>1. Undisturbed /\ input[c].kind # "tool"
    BY <1>5, DisturbedBefore
  <2>2. Underway(c) /\ \A b \in Calls : input[b] # NoInput /\ Done(b) => Alike(b)
    <3>1. ~Done(c)
      BY <1>1 DEF Done
    <3> QED BY <1>1, <2>1, <3>1 DEF MirrorInv, Mirrored, Quiet, Underway
  <2>3. PICK base \in StoreType : \A e \in Deployments :
            Reached(e, base, input[c], pc[e][c], got[e][c], store[e])
    BY <2>2 DEF Underway
  <2>4. Calm(d, got'[d][c])
    BY <1>5 DEF Undisturbed, Calm, Outcome
  <2>5. ASSUME NEW e \in Deployments
        PROVE  Reached(e, base, input[c], pc'[e][c], got'[e][c], store'[e])
    <3>1. CASE e = d
      BY <2>1, <2>3, <2>4, <3>1, AdvanceReaches DEF Both
    <3>2. CASE e # d
      BY <1>2, <2>3, <3>2, AdvanceElsewhere
    <3> QED BY <3>1, <3>2
  <2>6. \A b \in Calls : b # c => (Done(b)' <=> Done(b)) /\ (Alike(b)' <=> Alike(b))
    BY <1>2 DEF Done, Alike, Both
  <2>7. CASE Done(c)'
    <3>1. /\ Reached("enforce", base, input[c], "done", got'["enforce"][c], store'["enforce"])
          /\ Reached("shadow", base, input[c], "done", got'["shadow"][c], store'["shadow"])
      BY <2>5, <2>7 DEF Done, Both
    <3>2. Agree' /\ Alike(c)'
      BY <1>1, <3>1, ReachedAlike DEF Agree, Alike
    <3>3. Quiet'
      BY <1>1, <2>2, <2>6, <2>7, <3>2 DEF Quiet, Underway
    <3> QED BY <1>1, <2>2, <2>6, <3>2, <3>3 DEF Mirrored
  <2>8. CASE ~Done(c)'
    <3>1. Underway(c)'
      BY <1>1, <2>2, <2>5, <2>6, <2>8 DEF Underway
    <3> QED BY <1>1, <2>2, <2>6, <2>8, <3>1 DEF Mirrored
  <2> QED BY <2>7, <2>8
<1> QED BY <1>3, <1>4, <1>5 DEF MirrorInv

(* Both deployments are on the way from one store to one store.            *)
THEOREM MirrorInvariant == Both => (Spec => []MirrorInv)
<1> SUFFICES ASSUME Both PROVE Spec => []MirrorInv
  OBVIOUS
<1>1. Init => MirrorInv
  <2> SUFFICES ASSUME Init PROVE MirrorInv
    OBVIOUS
  <2>1. InOrder /\ Fresh
    BY DEF Init, InOrder, Fresh
  <2>2. Agree
    BY DEF Init, Agree, Both
  <2>3. Mirrored
    BY <2>2 DEF Init, Mirrored, Quiet
  <2> QED BY <2>1, <2>3 DEF MirrorInv
<1>2. PipelineInv /\ MirrorInv /\ [Next]_vars => MirrorInv'
  <2> SUFFICES ASSUME PipelineInv, MirrorInv, [Next]_vars PROVE MirrorInv'
    OBVIOUS
  <2>1. CASE UNCHANGED vars
    BY <2>1 DEF vars, MirrorInv, InOrder, Fresh, Undisturbed, Mirrored, Kind, Outcome, Quiet, Agree,
                Underway, Alike, Done
  <2> QED BY <2>1, ArriveMirrors, AdvanceMirrors DEF Next
<1> QED BY <1>1, <1>2, PipelineInvariant, PTL DEF Spec

(* The same traffic through both, a call at a time: would_block of a turn  *)
(* in shadow mode is what enforcement does of it, after whatever came      *)
(* before, if every store answered and nobody was over budget.             *)
THEOREM ShadowIsPrediction == OneAtATime => (Spec => []ShadowPredicts)
<1> SUFFICES ASSUME OneAtATime PROVE Spec => []ShadowPredicts
  OBVIOUS
<1>1. CASE ~({"enforce", "shadow"} \subseteq Deployments)
  <2>1. ShadowPredicts
    BY <1>1 DEF ShadowPredicts
  <2> QED BY <2>1, PTL
<1>2. CASE {"enforce", "shadow"} \subseteq Deployments
  <2>1. Both
    BY <1>2, PipelineAssumption DEF Both
  <2>2. PipelineInv /\ TurnsInv /\ MirrorInv => ShadowPredicts
    <3> SUFFICES ASSUME PipelineInv, TurnsInv, MirrorInv, Undisturbed, NEW c \in Calls,
                        Turn(c), Over("enforce", c), Over("shadow", c)
                 PROVE  Would(c, got["shadow"][c]) <=>
                            Outcome("enforce", c) = "blocked" /\ ~got["enforce"][c].ran
      BY DEF ShadowPredicts
    <3>1. input[c] # NoInput
      BY DEF Turn, Kind, NoInput
    <3>2. Alike(c)
      BY <2>1, <3>1 DEF MirrorInv, Mirrored, Done, Over, Both
    <3>3. TurnInv("done", got["enforce"][c])
      BY <2>1, <3>1 DEF TurnsInv, Over, Both
    <3>4. ~got["shadow"][c].limited /\ Outcome("enforce", c) # "unavailable"
      BY <2>1 DEF Undisturbed, Both
    <3>5. Would(c, got["shadow"][c]) <=> Suspect(got["enforce"][c])
      BY <3>2, <3>4 DEF Would, Suspect, Alike
    <3> QED BY <3>2, <3>3, <3>4, <3>5 DEF TurnInv, Alike, Outcome
  <2>3. Spec => []MirrorInv
    BY <2>1, MirrorInvariant
  <2> QED BY <2>2, <2>3, PipelineInvariant, TurnsInvariant, PTL
<1> QED BY <1>1, <1>2

=============================================================================
