---------------------------- MODULE SlidingWindow ----------------------------
(***************************************************************************)
(* Request and tool-call budgets: check_request and check_tool_call of     *)
(* services/rate_limiter.py over the sliding windows of the session stores *)
(* in sessions/.                                                           *)
(*                                                                         *)
(* A check is one round trip: the store forgets what is older than the     *)
(* window, records this event and answers how many it then holds.  The     *)
(* clock is read before the round trip, by the caller, so a store shared   *)
(* by several processes takes events out of order; in memory the clock is  *)
(* read as the event is recorded.  Time is in ticks, and a window of       *)
(* Window ticks ending at t is t - Window + 1 .. t.                        *)
(*                                                                         *)
(* On Redis the name of a key depends on the topology, which each process  *)
(* asks the server about on first use (HashTagPolicy in redis_keys.py).    *)
(***************************************************************************)
EXTENDS Integers, FiniteSets

CONSTANTS
    Keys,        \* a session and a kind, "requests" or "tool_calls"
    Processes,   \* concurrent callers
    Window,      \* SessionLimits.window_seconds
    Budget,      \* max_requests_per_window, max_tool_calls_per_window
    Timeout,     \* FailurePolicy.timeout_seconds
    Stores,      \* the stores considered: "memory", "redis", "sql"
    Detects,     \* what an INFO may resolve to: "plain", "tagged"
    MaxTime,     \* bound: horizon of the clock
    MaxChecks    \* bound: checks each process makes

ASSUME WindowAssumption ==
    /\ Window \in Nat \ {0} /\ Budget \in Nat
    /\ Timeout \in Nat /\ Timeout < Window
    /\ Stores \subseteq {"memory", "redis", "sql"}
    /\ Detects \subseteq {"plain", "tagged"}
    /\ MaxTime \in Nat /\ MaxChecks \in Nat

VARIABLES
    store,     \* which of Stores: fixed
    layout,    \* HashTagPolicy of each process, "unknown" until detected
    now,       \* time.time()
    events,    \* the store: timestamps of each key, with a unique member
    anchors,   \* SQL: when the anchor row of each key expires
    calls,     \* check_request or check_tool_call, per process
    checks,    \* checks begun, per process
    admitted   \* history: the metered checks of each key let through

vars == <<store, layout, now, events, anchors, calls, checks, admitted>>

Idle == [pc |-> "idle"]

Init ==
    /\ store \in Stores
    /\ layout = [p \in Processes |-> IF store = "redis" THEN "unknown" ELSE "plain"]
    /\ now = 1
    /\ events = [k \in Keys |-> {}]
    /\ anchors = [k \in Keys |-> 0]
    /\ calls = [p \in Processes |-> Idle]
    /\ checks = [p \in Processes |-> 0]
    /\ admitted = [k \in Keys |-> {}]

----------------------------------------------------------------------------
(* _detect, on a single node: plain keys, but an INFO that fails, for good *)
(* or this once, resolves to tagged ones for the life of the process.      *)
Detect(p) ==
    /\ layout[p] = "unknown"
    /\ \E answer \in Detects : layout' = [layout EXCEPT ![p] = answer]
    /\ UNCHANGED <<now, events, anchors, calls, checks, admitted>>

(* A process is replaced, and the new one asks again: one of MaxChecks.    *)
Restart(p) ==
    /\ store = "redis" /\ calls[p] = Idle /\ layout[p] # "unknown"
    /\ checks[p] < MaxChecks
    /\ checks' = [checks EXCEPT ![p] = @ + 1]
    /\ layout' = [layout EXCEPT ![p] = "unknown"]
    /\ UNCHANGED <<now, events, anchors, calls, admitted>>

Begin(p, k) ==
    /\ calls[p] = Idle /\ checks[p] < MaxChecks /\ layout[p] # "unknown"
    /\ calls' = [calls EXCEPT ![p] = [pc |-> "count", key |-> k, at |-> now]]
    /\ checks' = [checks EXCEPT ![p] = @ + 1]
    /\ UNCHANGED <<layout, now, events, anchors, admitted>>

InTime(p) == IF store = "memory" THEN now = calls[p].at ELSE now <= calls[p].at + Timeout

ThisEvent(p) == [layout |-> layout[p], at |-> calls[p].at, by |-> p, seq |-> checks[p]]

(* One key to the code: a layout gives a session keys of its own.          *)
Under(l, E) == {e \in E : e.layout = l}

(* Mutant: a fixed window that is reset.                                   *)
Slid_Fixed(p, k) ==
    {e \in events[k] : e.at \div Window = calls[p].at \div Window} \cup {ThisEvent(p)}

(* The window slides to the clock read of this call.                       *)
Slid(p, k) ==
    {e \in events[k] : e.layout = layout[p] => e.at > calls[p].at - Window} \cup {ThisEvent(p)}

Record_Instant(p) ==
    LET k == calls[p].key IN
    /\ events' = [events EXCEPT ![k] = Slid(p, k)]
    /\ anchors' = [anchors EXCEPT ![k] = IF store = "sql" THEN calls[p].at ELSE @]

Record(p) ==
    LET k == calls[p].key IN
    /\ events' = [events EXCEPT ![k] = Slid(p, k)]
    /\ anchors' = [anchors EXCEPT ![k] = IF store = "sql" THEN calls[p].at + Window ELSE @]

(* The store answers; RateLimitExceeded above the budget.                  *)
Count(p) ==
    LET k == calls[p].key IN
    /\ calls[p] # Idle /\ InTime(p)
    /\ Record(p)
    /\ admitted' = [admitted EXCEPT ![k] =
          IF Cardinality(Under(layout[p], events'[k])) > Budget THEN @ ELSE @ \cup {ThisEvent(p)}]
    /\ calls' = [calls EXCEPT ![p] = Idle]
    /\ UNCHANGED <<layout, now, checks>>

(* The store is unreachable, or its answer is lost.  An open policy lets   *)
(* the check through without a count: it is not metered.                   *)
Unavailable(p) ==
    /\ calls[p] # Idle /\ store # "memory"
    /\ UNCHANGED <<events, anchors>> \/ (InTime(p) /\ Record(p))
    /\ calls' = [calls EXCEPT ![p] = Idle]
    /\ UNCHANGED <<layout, now, checks, admitted>>

(* reset_session, under the layout of the process that resets; SQL may     *)
(* leave its anchor still there.  What was admitted before no longer       *)
(* counts.                                                                 *)
Reset(k, l) ==
    /\ l = "plain" \/ store = "redis"
    /\ events' = [events EXCEPT ![k] = @ \ Under(l, @)]
    /\ \/ UNCHANGED anchors
       \/ store = "sql" /\ anchors' = [anchors EXCEPT ![k] = 0]
    /\ admitted' = [admitted EXCEPT ![k] = @ \ Under(l, @)]
    /\ UNCHANGED <<layout, now, calls, checks>>

(* SQL, before the transaction of a call: everything under an anchor that  *)
(* expired by the clock read of that call.                                 *)
Cleanup(p) ==
    LET expired == {k \in Keys : anchors[k] < calls[p].at} IN
    /\ store = "sql" /\ calls[p] # Idle
    /\ events' = [k \in Keys |-> IF k \in expired /\ anchors[k] > 0 THEN {} ELSE events[k]]
    /\ anchors' = [k \in Keys |-> IF k \in expired THEN 0 ELSE anchors[k]]
    /\ UNCHANGED <<layout, now, calls, checks, admitted>>

(* Redis expires the key a window after its last event, and the in-memory  *)
(* sweep drops a deque whose last event is out of the window.              *)
Evict(k, l) ==
    LET kept == Under(l, events[k]) IN
    /\ store # "sql" /\ kept # {}
    /\ \A e \in kept : e.at <= now - Window
    /\ events' = [events EXCEPT ![k] = @ \ kept]
    /\ UNCHANGED <<layout, now, anchors, calls, checks, admitted>>

Tick ==
    /\ now < MaxTime
    /\ store = "memory" => \A p \in Processes : calls[p] = Idle
    /\ now' = now + 1
    /\ UNCHANGED <<layout, events, anchors, calls, checks, admitted>>

Next ==
    /\ \/ \E p \in Processes :
             \/ Detect(p)
             \/ Restart(p)
             \/ \E k \in Keys : Begin(p, k)
             \/ Count(p)
             \/ Unavailable(p)
             \/ Cleanup(p)
       \/ \E k \in Keys, l \in {"plain", "tagged"} : Reset(k, l) \/ Evict(k, l)
       \/ Tick
    /\ UNCHANGED store

Spec == Init /\ [][Next]_vars

----------------------------------------------------------------------------
AdmittedWithin(k, first, last) == {e \in admitted[k] : e.at \in first..last}

(* A call to a shared store read its clock before its round trip, by up to *)
(* the timeout, and can find the window already slid past its event.       *)
Lag == IF store = "memory" THEN 0 ELSE Timeout

(* In SQL it sets the anchor of the key back as well, and a cleanup then   *)
(* takes events before their window is over: by less than the timeout.     *)
SetBack == IF store = "sql" /\ Timeout > 0 THEN Timeout - 1 ELSE 0

(* "N per W" over every interval of length W, wherever it starts, less the *)
(* slack of a shared store: however checks, resets, evictions and cleanups *)
(* interleave, none holds more admitted checks than the budget.  Processes *)
(* that detected different layouts have a budget each.                     *)
BudgetOverEveryInterval ==
    \A k \in Keys, t \in 1..MaxTime, l \in {"plain", "tagged"} :
        Cardinality(Under(l, AdmittedWithin(k, t, t + Window - Lag - SetBack - 1))) <= Budget

(* What was admitted is remembered for as long as a check may have to      *)
(* count it: no trimming, expiry or cleanup of anchors takes it earlier.   *)
AdmittedAreRemembered ==
    \A k \in Keys : AdmittedWithin(k, now - Window + SetBack + 1, now) \subseteq events[k]
=============================================================================
