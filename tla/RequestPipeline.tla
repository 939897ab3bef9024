--------------------------- MODULE RequestPipeline ---------------------------
(***************************************************************************)
(* SecurityPipeline of pipeline.py: a user's turn (pre_process), content   *)
(* from elsewhere (pre_process_external, pre_process_media), a tool call   *)
(* (authorized_tool_call) and a model's reply (post_process), and what     *)
(* contrib/langchain.py makes of them: GuardedChatModel and                *)
(* guard_retriever.  Each goes through its round trips, interleaved with   *)
(* the others.                                                             *)
(*                                                                         *)
(* The same traffic may reach two deployments, one that enforces and one   *)
(* in shadow mode, each with stores of its own.  A score, lexical or of    *)
(* the detectors, is an integer; all happens within one window and without *)
(* decay (SlidingWindow and SessionRisk have both); a token authorizes or  *)
(* does not (CapabilityTokens has why).  A store that fails has done       *)
(* nothing; every call names a session and the one principal, whose risk   *)
(* is the actor's.                                                         *)
(***************************************************************************)
EXTENDS Integers, FiniteSets, Sequences

CONSTANTS
    Deployments,      \* enforcement of each: "enforce", "shadow"
    OneAtATime,       \* a call is over everywhere before the next arrives
    Calls,            \* 1..n, in the order they arrive
    Kinds,            \* of calls: see Steps
    Sessions,
    Actor,            \* actor_key of the principal
    Scores,           \* risk_score of a scan
    DetectorScores,   \* enforcing_score of the detectors
    Replies,          \* what the output scans find in a model's reply
    InputThreshold,   \* input_risk_threshold, and the media scanner's
    Default,          \* thresholds of SessionLimits: of a session, of the actor
    Plan,             \* the same, of the principal: limits_for
    RequestBudget, ToolBudget,
    Failing,          \* operations whose backend may fail
    Closings,         \* possible sets of operations whose failure policy is closed
    CallbacksRaise    \* tools, the model and foreign_identifiers may raise

Operations == {"rate_limit", "session_risk", "token_replay", "detector", "audit", "provenance"}

Keys == Sessions \cup {Actor}

ASSUME PipelineAssumption ==
    /\ Deployments \subseteq {"enforce", "shadow"}
    /\ OneAtATime \in BOOLEAN /\ CallbacksRaise \in BOOLEAN
    /\ IsFiniteSet(Calls) /\ Calls = 1..Cardinality(Calls)
    /\ Kinds \subseteq {"input", "external", "batch", "media", "tool", "output", "chat",
                       "followup", "retrieve"}
    /\ Replies \subseteq {"clean", "rewritten", "blocking"}
    /\ Actor \notin Sessions
    /\ Scores \subseteq Nat /\ DetectorScores \subseteq Nat
    /\ InputThreshold \in Nat \ {0}
    /\ Default \in [Keys -> Nat \ {0}] /\ Plan \in [Keys -> Nat \ {0}]
    /\ RequestBudget \in Nat /\ ToolBudget \in Nat
    /\ Failing \subseteq Operations /\ Closings \subseteq SUBSET Operations

VARIABLES
    closed,    \* the operations whose failure policy is closed: fixed
    input,     \* what each call brings, once it has arrived
    pc,        \* its next round trip, per deployment
    got,       \* what it has been told so far, per deployment
    store,     \* counters, risk and flags, per deployment
    log,       \* audit records, per deployment
    charged,   \* history: the charges made, in order, per deployment
    owed       \* history: what has been charged to each key, per deployment

vars == <<closed, input, pc, got, store, log, charged, owed>>

Replying == {"output", "chat", "followup"}   \* kinds of calls a model's reply is part of

(* exfil: a URL that would exfiltrate in the arguments of a tool; allowed: *)
(* its token authorizes it, or a retrieved document verifies.              *)
Inputs ==
    {i \in [kind : Kinds, session : Sessions, lexical : Scores, semantic : DetectorScores,
            exfil : BOOLEAN, allowed : BOOLEAN, reply : Replies \cup {"none"}] :
        /\ i.kind # "tool" => ~i.exfil
        /\ i.kind \notin {"tool", "retrieve"} => i.allowed
        /\ i.kind \in Replying <=> i.reply # "none"
        /\ i.kind \in {"output", "followup"} => i.lexical = 0 /\ i.semantic = 0}

NoInput == [kind |-> "none"]

(* ran: the tool or the model; skipped: operations whose backend did not   *)
(* answer; reply: what the caller has of the model's; outcome: "none",     *)
(* "allowed", "blocked", "rate_limited", "denied", "failed", "unavailable" *)
NoResult == [limited |-> FALSE, score |-> 0, flagged |-> FALSE, ran |-> FALSE,
             skipped |-> {}, reply |-> "none", outcome |-> "none"]

Init ==
    /\ closed \in Closings
    /\ input = [c \in Calls |-> NoInput]
    /\ pc = [d \in Deployments |-> [c \in Calls |-> "idle"]]
    /\ got = [d \in Deployments |-> [c \in Calls |-> NoResult]]
    /\ store = [d \in Deployments |->
                   [requests |-> [s \in Sessions |-> 0], tools |-> [s \in Sessions |-> 0],
                    risk |-> [k \in Keys |-> 0], flag |-> [k \in Keys |-> FALSE]]]
    /\ log = [d \in Deployments |-> {}]
    /\ charged = [d \in Deployments |-> <<>>]
    /\ owed = [d \in Deployments |-> [k \in Keys |-> 0]]

----------------------------------------------------------------------------
(* The round trips of each kind of call, in the order they are awaited.    *)
Steps == [input    |-> <<"request", "detect", "session", "actor", "audit">>,
          external |-> <<"detect", "audit", "session", "actor">>,
          batch    |-> <<"audit", "session", "actor">>,
          media    |-> <<"detect", "session", "actor", "audit">>,
          tool     |-> <<"budget", "arguments", "authorize", "invoke", "allow",
                         "detect", "audit", "session", "actor", "result">>,
          output   |-> <<"reply">>,
          chat     |-> <<"request", "detect", "session", "actor", "audit", "model", "reply">>,
          followup |-> <<"model", "reply">>,   \* no message of the user's to scan
          retrieve |-> <<"audit", "session", "actor", "verify">>]

Kind(c) == input[c].kind

Turn(c) == Kind(c) \in {"input", "chat"}

After(c, step) ==
    LET steps == Steps[Kind(c)]
        i     == CHOOSE j \in DOMAIN steps : steps[j] = step
    IN  IF i = Len(steps) THEN "done" ELSE steps[i + 1]

Enforced(d) == d = "enforce"

(* would_block of a turn; blocked of a scan.                               *)
Would(c, r) == r.score >= InputThreshold \/ (Turn(c) /\ (r.flagged \/ r.limited))

(* blocked, of what is returned: shadow mode lets a user's turn through.   *)
(* A retrieved document whose scan is blocked is dropped, whatever the     *)
(* enforcement.                                                            *)
Judged(d, c, r) ==
    IF Would(c, r) /\ (Turn(c) => Enforced(d)) THEN "blocked" ELSE "allowed"

(* On to the next round trip, or to the verdict after the last one.        *)
Proceed(d, c, r) ==
    LET next == After(c, pc[d][c])
    IN  /\ pc' = [pc EXCEPT ![d][c] = next]
        /\ got' = [got EXCEPT ![d][c] = IF next = "done" /\ Kind(c) # "tool"
                                        THEN [r EXCEPT !.outcome = Judged(d, c, r)] ELSE r]

End(d, c, r, outcome) ==
    /\ pc' = [pc EXCEPT ![d][c] = "done"]
    /\ got' = [got EXCEPT ![d][c] = [r EXCEPT !.outcome = outcome]]

(* An exception inside the try of _authorized_tool_call: it is recorded as *)
(* a denial, then raised.                                                  *)
Refuse(d, c, r, outcome) ==
    /\ pc' = [pc EXCEPT ![d][c] = "denial"]
    /\ got' = [got EXCEPT ![d][c] = [r EXCEPT !.outcome = outcome]]

Raise(d, c, r, outcome) ==
    IF pc[d][c] \in {"authorize", "invoke", "allow"} THEN Refuse(d, c, r, outcome)
    ELSE End(d, c, r, outcome)

Skip(d, c, operation) == [got[d][c] EXCEPT !.skipped = @ \cup {operation}]

(* ResilientBackend.run on a backend that does not answer: a closed policy *)
(* raises, and so does the record of the degradation, which may fail too.  *)
Unanswered(d, c, operation) ==
    /\ operation \in Failing
    /\ \/ /\ operation \in closed \/ "audit" \in Failing \cap closed
          /\ Raise(d, c, got[d][c], "unavailable")
       \/ /\ operation \notin closed
          /\ Proceed(d, c, Skip(d, c, operation))
    /\ UNCHANGED store

(* _audit: written, or lost under the open policy.                         *)
Recorded(d, c, event, r) ==
    \/ /\ r = got[d][c]
       /\ log' = [log EXCEPT ![d] = @ \cup {[call |-> c, event |-> event]}]
    \/ /\ "audit" \in Failing \ closed
       /\ r = Skip(d, c, "audit")
       /\ UNCHANGED log

Results(d, c) == {got[d][c], Skip(d, c, "audit")}

(* _audit, failed, under the closed one.                                   *)
Unrecorded(d, c) ==
    /\ "audit" \in Failing \cap closed
    /\ Raise(d, c, got[d][c], "unavailable")
    /\ UNCHANGED log

(* A call arrives, the next in order; what it carries is scanned.          *)
Arrive(c) ==
    /\ input[c] = NoInput
    /\ \A b \in Calls : b < c =>
           /\ input[b] # NoInput
           /\ OneAtATime => \A d \in Deployments : pc[d][b] = "done"
    /\ \E i \in Inputs :
        /\ input' = [input EXCEPT ![c] = i]
        /\ pc' = [d \in Deployments |-> [pc[d] EXCEPT ![c] = Steps[i.kind][1]]]
        /\ got' = [d \in Deployments |->
                      [got[d] EXCEPT ![c].score = IF i.kind = "tool" THEN 0 ELSE i.lexical]]
    /\ UNCHANGED <<store, log, charged, owed>>

(* Mutant: compared before the call itself is counted.                     *)
OverBudget_Late(count, budget) == count - 1 > budget

OverBudget(count, budget) == count > budget

(* check_request.  Over budget is an exception, or under shadow a remark.  *)
CheckRequest(d, c) ==
    LET s == input[c].session
        n == store[d].requests[s] + 1
    IN  /\ pc[d][c] = "request"
        /\ \/ /\ store' = [store EXCEPT ![d].requests[s] = n]
              /\ \/ /\ OverBudget(n, RequestBudget) /\ Enforced(d)
                    /\ End(d, c, got[d][c], "rate_limited")
                 \/ /\ ~OverBudget(n, RequestBudget) \/ ~Enforced(d)
                    /\ Proceed(d, c, [got[d][c] EXCEPT !.limited = OverBudget(n, RequestBudget)])
           \/ Unanswered(d, c, "rate_limit")
        /\ UNCHANGED <<input, log, charged, owed>>

(* check_tool_call_budget, whatever the enforcement.                       *)
CheckToolCall(d, c) ==
    LET s == input[c].session
        n == store[d].tools[s] + 1
    IN  /\ pc[d][c] = "budget"
        /\ \/ /\ store' = [store EXCEPT ![d].tools[s] = n]
              /\ \/ /\ OverBudget(n, ToolBudget)
                    /\ End(d, c, got[d][c], "rate_limited")
                 \/ /\ ~OverBudget(n, ToolBudget)
                    /\ Proceed(d, c, got[d][c])
           \/ Unanswered(d, c, "rate_limit")
        /\ UNCHANGED <<input, log, charged, owed>>

(* Mutant: the detectors replace the score of the scan.                    *)
Merge_Replaced(lexical, semantic) == semantic

(* combine_max.                                                            *)
Merge(lexical, semantic) == IF semantic > lexical THEN semantic ELSE lexical

(* The detectors; one that fails contributes nothing.                      *)
Detect(d, c) ==
    /\ pc[d][c] = "detect"
    /\ \/ /\ Proceed(d, c, [got[d][c] EXCEPT !.score = Merge(@, input[c].semantic)])
          /\ UNCHANGED store
       \/ Unanswered(d, c, "detector")
    /\ UNCHANGED <<input, log, charged, owed>>

(* The limits a charge is made under: only a turn's are the principal's.   *)
Limit(c, key) == IF Turn(c) THEN Plan[key] ELSE Default[key]

Cumulative(d, c, key) == store[d].risk[key] + got[d][c].score

(* Mutant: the flag looks at this call alone.                              *)
Flags_Alone(d, c, key) == store[d].flag[key] \/ got[d][c].score >= Limit(c, key)

(* Mutant: the threshold of a session, for its actor too.                  *)
Flags_OneLimit(d, c, key) ==
    store[d].flag[key] \/ Cumulative(d, c, key) >= Limit(c, input[c].session)

Flags(d, c, key) == store[d].flag[key] \/ Cumulative(d, c, key) >= Limit(c, key)

(* One of the two add_risk of record_turn_risk_and_check.                  *)
Charge(d, c, key) ==
    LET r   == got[d][c]
        sum == owed[d][key] + r.score
    IN  \/ /\ store' = [store EXCEPT ![d].risk[key] = Cumulative(d, c, key),
                                     ![d].flag[key] = Flags(d, c, key)]
           /\ charged' = [charged EXCEPT ![d] = Append(@, [call |-> c, key |-> key, owed |-> sum])]
           /\ owed' = [owed EXCEPT ![d][key] = sum]
           /\ Proceed(d, c, [r EXCEPT !.flagged = @ \/ Flags(d, c, key)])
        \/ /\ Unanswered(d, c, "session_risk")
           /\ UNCHANGED <<charged, owed>>

(* Content without risk is not charged.                                    *)
Charged(d, c) == got[d][c].score > 0 \/ Turn(c)

Uncharged(d, c) == Proceed(d, c, got[d][c]) /\ UNCHANGED <<store, charged, owed>>

(* Mutant: shadow mode charges nobody.                                     *)
ChargeSession_Enforced(d, c) ==
    /\ pc[d][c] = "session"
    /\ \/ Charged(d, c) /\ Enforced(d) /\ Charge(d, c, input[c].session)
       \/ ~(Charged(d, c) /\ Enforced(d)) /\ Uncharged(d, c)
    /\ UNCHANGED <<input, log>>

ChargeSession(d, c) ==
    /\ pc[d][c] = "session"
    /\ \/ Charged(d, c) /\ Charge(d, c, input[c].session)
       \/ ~Charged(d, c) /\ Uncharged(d, c)
    /\ UNCHANGED <<input, log>>

ChargeActor(d, c) ==
    /\ pc[d][c] = "actor"
    /\ \/ Charged(d, c) /\ Charge(d, c, Actor)
       \/ ~Charged(d, c) /\ Uncharged(d, c)
    /\ UNCHANGED <<input, log>>

ScanEvent == [input |-> "input_scan", external |-> "external_content_scan",
              batch |-> "external_content_scan", media |-> "media_scan",
              tool |-> "external_content_scan", chat |-> "input_scan",
              retrieve |-> "external_content_scan"]

(* Mutant: a record that could not be written is let go.                   *)
AuditScan_Open(d, c) ==
    /\ pc[d][c] = "audit"
    /\ \/ \E r \in Results(d, c) : Recorded(d, c, ScanEvent[Kind(c)], r) /\ Proceed(d, c, r)
       \/ "audit" \in Failing /\ Proceed(d, c, got[d][c]) /\ UNCHANGED log
    /\ UNCHANGED <<input, store, charged, owed>>

AuditScan(d, c) ==
    /\ pc[d][c] = "audit"
    /\ \/ \E r \in Results(d, c) : Recorded(d, c, ScanEvent[Kind(c)], r) /\ Proceed(d, c, r)
       \/ Unrecorded(d, c)
    /\ UNCHANGED <<input, store, charged, owed>>

(* The arguments of a tool call, before the scope of its token.            *)
ScanArguments(d, c) ==
    /\ pc[d][c] = "arguments"
    /\ \/ /\ ~input[c].exfil
          /\ Proceed(d, c, got[d][c])
          /\ UNCHANGED log
       \/ /\ input[c].exfil
          /\ \/ \E r \in Results(d, c) :
                  \/ Enforced(d) /\ Recorded(d, c, "denied", r) /\ End(d, c, r, "denied")
                  \/ ~Enforced(d) /\ Recorded(d, c, "would_deny", r) /\ Proceed(d, c, r)
             \/ Unrecorded(d, c)
    /\ UNCHANGED <<input, store, charged, owed>>

(* guarded_call: authorize, then the tool.                                 *)
Authorize(d, c) ==
    /\ pc[d][c] = "authorize"
    /\ \/ input[c].allowed /\ Proceed(d, c, got[d][c]) /\ UNCHANGED store
       \/ ~input[c].allowed /\ Refuse(d, c, got[d][c], "denied") /\ UNCHANGED store
       \/ Unanswered(d, c, "token_replay")
    /\ UNCHANGED <<input, log, charged, owed>>

Invoke(d, c) ==
    LET r == [got[d][c] EXCEPT !.ran = TRUE]
    IN  /\ pc[d][c] = "invoke"
        /\ \/ Proceed(d, c, [r EXCEPT !.score = input[c].lexical])
           \/ CallbacksRaise /\ Refuse(d, c, r, "failed")
        /\ UNCHANGED <<input, store, log, charged, owed>>

(* The record of a call that ran.  A result without text is not scanned.   *)
AuditAllowed(d, c) ==
    /\ pc[d][c] = "allow"
    /\ \/ \E r \in Results(d, c) :
            /\ Recorded(d, c, "allowed", r)
            /\ \/ Proceed(d, c, r)
               \/ r.score = 0 /\ input[c].semantic = 0 /\ End(d, c, r, "allowed")
       \/ Unrecorded(d, c)
    /\ UNCHANGED <<input, store, charged, owed>>

AuditDenied(d, c) ==
    /\ pc[d][c] = "denial"
    /\ \/ \E r \in Results(d, c) :
            Recorded(d, c, "denied", r) /\ End(d, c, r, got[d][c].outcome)
       \/ Unrecorded(d, c)
    /\ UNCHANGED <<input, store, charged, owed>>

(* The end of _scan_tool_result: ToolResultBlocked, or the result.         *)
JudgeResult(d, c) ==
    LET poisoned == got[d][c].score >= InputThreshold
    IN  /\ pc[d][c] = "result"
        /\ \/ ~poisoned /\ End(d, c, got[d][c], "allowed") /\ UNCHANGED log
           \/ /\ poisoned
              /\ \/ \E r \in Results(d, c) :
                      /\ Recorded(d, c, "tool_result", r)
                      /\ End(d, c, r, IF Enforced(d) THEN "blocked" ELSE "allowed")
                 \/ Unrecorded(d, c)
        /\ UNCHANGED <<input, store, charged, owed>>

(* The model is called unless the turn is blocked: then the reply is the   *)
(* refusal.                                                                *)
CallModel(d, c) ==
    LET r       == got[d][c]
        refused == Would(c, r) /\ Enforced(d)
        called  == [r EXCEPT !.ran = TRUE]
    IN  /\ pc[d][c] = "model"
        /\ \/ refused /\ End(d, c, r, "blocked")
           \/ ~refused /\ Proceed(d, c, called)
           \/ ~refused /\ CallbacksRaise /\ End(d, c, called, "failed")
        /\ UNCHANGED <<input, store, log, charged, owed>>

(* safe_text of a reply, and blocked.                                      *)
SafeText(d, c) == IF Enforced(d) THEN input[c].reply ELSE "raw"

ReplyBlocked(d, c) == Enforced(d) /\ input[c].reply = "blocking"

(* post_process: identifiers of other tenants are asked for, the reply is  *)
(* scanned, and the scan recorded before anything is returned.             *)
ScanReply(d, c) ==
    /\ pc[d][c] = "reply"
    /\ \/ \E r \in Results(d, c) :
            /\ Recorded(d, c, "output_scan", r)
            /\ End(d, c, [r EXCEPT !.reply = SafeText(d, c)],
                   IF ReplyBlocked(d, c) THEN "blocked" ELSE "allowed")
       \/ Unrecorded(d, c)
       \/ CallbacksRaise /\ End(d, c, got[d][c], "failed") /\ UNCHANGED log
    /\ UNCHANGED <<input, store, charged, owed>>

(* A retrieved document that was not blocked is verified, and dropped if   *)
(* it does not verify; under an open policy an unanswered question is yes. *)
Verify(d, c) ==
    LET dropped == Would(c, got[d][c])
    IN  /\ pc[d][c] = "verify"
        /\ \/ /\ dropped \/ input[c].allowed
              /\ Proceed(d, c, got[d][c]) /\ UNCHANGED store
           \/ /\ ~dropped /\ ~input[c].allowed
              /\ pc' = [pc EXCEPT ![d][c] = "unverified"] /\ UNCHANGED <<got, store>>
           \/ ~dropped /\ Unanswered(d, c, "provenance")
        /\ UNCHANGED <<input, log, charged, owed>>

AuditUnverified(d, c) ==
    /\ pc[d][c] = "unverified"
    /\ \/ \E r \in Results(d, c) :
            Recorded(d, c, "retrieval_provenance", r) /\ End(d, c, r, "blocked")
       \/ Unrecorded(d, c)
    /\ UNCHANGED <<input, store, charged, owed>>

Scan(d, c) == Detect(d, c) \/ AuditScan(d, c) \/ ChargeSession(d, c) \/ ChargeActor(d, c)

Tool(d, c) ==
    \/ CheckToolCall(d, c) \/ ScanArguments(d, c) \/ Authorize(d, c) \/ Invoke(d, c)
    \/ AuditAllowed(d, c) \/ AuditDenied(d, c) \/ JudgeResult(d, c)

Chain(d, c) == CallModel(d, c) \/ ScanReply(d, c) \/ Verify(d, c) \/ AuditUnverified(d, c)

Advance(d, c) == CheckRequest(d, c) \/ Scan(d, c) \/ Tool(d, c) \/ Chain(d, c)

Next ==
    /\ \/ \E c \in Calls : Arrive(c)
       \/ \E d \in Deployments, c \in Calls : Advance(d, c)
    /\ UNCHANGED closed

Spec == Init /\ [][Next]_vars

----------------------------------------------------------------------------
Outcome(d, c) == got[d][c].outcome

Over(d, c) == pc[d][c] = "done"

(* Multi-turn build-up: a user's turn is not let through, nor the model    *)
(* called for it, once its session, or its actor over all sessions, has    *)
(* been charged the threshold, by whatever kinds of call and however they  *)
(* interleave.                                                             *)
BuildUpIsBlocked ==
    \A d \in Deployments \cap {"enforce"} : \A i \in DOMAIN charged[d] :
        LET e == charged[d][i]
        IN  Turn(e.call) /\ e.owed >= Plan[e.key] =>
                /\ ~got[d][e.call].ran
                /\ Over(d, e.call) => Outcome(d, e.call) \in {"blocked", "unavailable"}

(* ... and for no other cause: a turn that is blocked has the score itself *)
(* or its session, or its actor, had by its own charge been charged the    *)
(* limit that some call charged it under, which for calls that are not     *)
(* turns is not the plan's.                                                *)
BlockedForCause ==
    \A d \in Deployments \cap {"enforce"}, c \in Calls :
        Turn(c) /\ Over(d, c) /\ Outcome(d, c) = "blocked" /\ ~got[d][c].ran =>
            \/ got[d][c].score >= InputThreshold
            \/ \E i, j \in DOMAIN charged[d] :
                  LET e == charged[d][i]
                  IN  /\ i <= j /\ charged[d][j].call = c /\ charged[d][j].key = e.key
                      /\ e.owed >= Limit(e.call, e.key)

(* However tool calls interleave, no more of a session's run than its      *)
(* budget, unless the counter was unavailable and the policy is open.      *)
ToolsStayInBudget ==
    \A d \in Deployments, s \in Sessions :
        Cardinality({c \in Calls : /\ input[c] # NoInput
                                   /\ Kind(c) = "tool" /\ input[c].session = s
                                   /\ got[d][c].ran /\ "rate_limit" \notin got[d][c].skipped})
            <= ToolBudget

(* What the scan, the detectors or the record of its ingest would refuse   *)
(* is not handed to the model: a tool's result under enforcement, and a    *)
(* retrieved document, whatever became of the records.                     *)
PoisonedResultIsWithheld ==
    \A d \in Deployments, c \in Calls :
        Over(d, c) /\ Outcome(d, c) = "allowed" =>
            /\ Kind(c) = "tool" /\ Enforced(d) =>
                  /\ input[c].lexical < InputThreshold
                  /\ input[c].semantic < InputThreshold \/ "detector" \in got[d][c].skipped
            /\ Kind(c) = "retrieve" =>
                  /\ input[c].lexical < InputThreshold
                  /\ input[c].allowed \/ "provenance" \in got[d][c].skipped

(* The records a call that was let through, or refused by a scan, owes.    *)
Owes(d, c) ==
    {event \in {"allowed", "input_scan", "output_scan", "external_content_scan", "media_scan"} :
        CASE event = "allowed"     -> Kind(c) = "tool"
          [] event = "output_scan" -> Kind(c) = "output" \/ (Kind(c) \in Replying /\ got[d][c].ran)
          [] OTHER -> Kind(c) \in DOMAIN ScanEvent \ {"tool"} /\ event = ScanEvent[Kind(c)]}

(* Under a closed audit policy no verdict is returned that is not on       *)
(* record: the scan of what was scanned, the call of a tool that ran, and  *)
(* both ways of a chat.                                                    *)
ReturnedIsOnRecord ==
    "audit" \in closed =>
        \A d \in Deployments, c \in Calls :
            Over(d, c) /\ Outcome(d, c) \in {"allowed", "blocked"} =>
                \A event \in Owes(d, c) : [call |-> c, event |-> event] \in log[d]

(* Nothing but what is scanned decides: every store answered, nobody is    *)
(* over budget and no tool was called, which shadow mode treats otherwise. *)
Undisturbed ==
    \A c \in Calls :
        /\ Kind(c) # "tool" /\ ~got["shadow"][c].limited
        /\ \A d \in Deployments : got[d][c].skipped = {} /\ Outcome(d, c) # "unavailable"

(* The same traffic through both: would_block of a turn in shadow mode is  *)
(* what enforcement does of it, after whatever came before.                *)
ShadowPredicts ==
    {"enforce", "shadow"} \subseteq Deployments /\ Undisturbed =>
        \A c \in Calls : Turn(c) /\ Over("enforce", c) /\ Over("shadow", c) =>
            (Would(c, got["shadow"][c]) <=>
                Outcome("enforce", c) = "blocked" /\ ~got["enforce"][c].ran)

=============================================================================
