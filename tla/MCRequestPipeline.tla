------------------------- MODULE MCRequestPipeline -------------------------
(* Small instances of RequestPipeline in one run: which deployments work,  *)
(* what reaches them and what may fail.                                    *)
EXTENDS RequestPipeline

CONSTANTS s1, s2, actor

VARIABLE scenario

Thresholds(session, ofActor) == [k \in Keys |-> IF k = actor THEN ofActor ELSE session]

(* The plan's threshold is below the default for a session and above it    *)
(* for the actor.                                                          *)
DefaultLimits == Thresholds(3, 2)

PlanLimits == Thresholds(2, 3)

Both == {"enforce", "shadow"}

AllKinds == {"input", "external", "batch", "media", "tool", "output", "chat", "followup", "retrieve"}

(* Concurrent chats and media of the principal, over two sessions.         *)
Turns == [deployed |-> {"enforce"}, inTurn |-> FALSE, calls |-> 1..3,
          kinds |-> {"chat", "media"}, sessions |-> {s1, s2}, lexical |-> {0, 1},
          semantic |-> {0}, replies |-> {"clean"}, requests |-> 2, failing |-> {},
          closed |-> {}, raise |-> FALSE]

(* Two concurrent tool calls; the counter and the detectors may fail.      *)
Tools == [deployed |-> {"enforce"}, inTurn |-> FALSE, calls |-> 1..2,
          kinds |-> {"tool"}, sessions |-> {s1}, lexical |-> {0, 2},
          semantic |-> {0, 2}, replies |-> {}, requests |-> 2,
          failing |-> {"rate_limit", "detector"}, closed |-> {}, raise |-> FALSE]

(* A call of every kind; the audit log may fail and its policy is closed.  *)
Records == [deployed |-> Both, inTurn |-> TRUE, calls |-> 1..1,
            kinds |-> AllKinds, sessions |-> {s1},
            lexical |-> {0, 2}, semantic |-> {0, 2}, replies |-> {"clean", "rewritten", "blocking"},
            requests |-> 1, failing |-> {"audit", "session_risk", "token_replay", "provenance"},
            closed |-> {"audit", "token_replay", "provenance"}, raise |-> TRUE]

(* The same under open policies: what is not answered is done without.     *)
Lenient == [Records EXCEPT !.closed = {}]

(* Two concurrent calls that must be on record.                            *)
Overlapping == [Records EXCEPT !.deployed = {"enforce"}, !.inTurn = FALSE, !.calls = 1..2,
                               !.kinds = {"chat", "external", "tool"}, !.semantic = {0},
                               !.replies = {"clean", "blocking"}, !.failing = {"audit"}]

(* The same traffic through an enforcing and a shadow deployment.          *)
Mirrored == [deployed |-> Both, inTurn |-> TRUE, calls |-> 1..3,
             kinds |-> {"input", "chat", "external", "media"}, sessions |-> {s1}, lexical |-> {0, 1},
             semantic |-> {0, 1}, replies |-> {"clean"}, requests |-> 3, failing |-> {}, closed |-> {}, raise |-> FALSE]

Scenarios == {Turns, Tools, Records, Lenient, Overlapping, Mirrored}

Under(sc) == INSTANCE RequestPipeline WITH
    OneAtATime <- sc.inTurn, Kinds <- sc.kinds, Sessions <- sc.sessions,
    Scores <- sc.lexical, DetectorScores <- sc.semantic, Replies <- sc.replies,
    RequestBudget <- sc.requests, Failing <- sc.failing, CallbacksRaise <- sc.raise

MCInit == Init /\ scenario \in {sc \in Scenarios : sc.closed = closed}

(* Two deployments share nothing: one advances after the other.            *)
Inactive(d) == \A c \in Calls : pc[d][c] \in {"idle", "done"}

(* Concurrent calls arrive before any of them advances: an arrival touches *)
(* nothing the others look at, and one may wait for as long as it likes.   *)
Ready(sc) == ~sc.inTurn => \A c \in sc.calls : input[c] # NoInput

(* Next, of those the scenario names.  Sessions are not told apart: the    *)
(* first call names s1.                                                    *)
MCNext ==
    \E sc \in Scenarios :
        /\ scenario = sc /\ UNCHANGED <<scenario, closed>>
        /\ \/ \E c \in sc.calls : Under(sc)!Arrive(c) /\ input'[1].session = s1
           \/ \E d \in sc.deployed, c \in sc.calls :
                 Ready(sc) /\ (d = "shadow" => Inactive("enforce")) /\ Under(sc)!Advance(d, c)

MCSpec == MCInit /\ [][MCNext]_<<vars, scenario>>
=============================================================================
