SPECIFICATION MCSpec
CONSTANTS
    s1 = s1
    s2 = s2
    actor = actor
    Deployments = {"enforce", "shadow"}
    OneAtATime = FALSE
    Calls = {1, 2, 3}
    Kinds = {"input", "external", "batch", "media", "tool", "output", "chat", "followup", "retrieve"}
    Replies = {"clean", "rewritten", "blocking"}
    Sessions = {s1, s2}
    Actor = actor
    Scores = {0, 1, 2}
    DetectorScores = {0, 1, 2}
    InputThreshold = 2
    RequestBudget = 3
    ToolBudget = 1
    Failing = {"rate_limit", "detector", "audit", "token_replay", "session_risk", "provenance"}
    Closings = {{}, {"audit", "token_replay", "provenance"}}
    CallbacksRaise = TRUE
    Default <- DefaultLimits
    Plan <- PlanLimits
INVARIANT BuildUpIsBlocked
INVARIANT BlockedForCause
INVARIANT ToolsStayInBudget
INVARIANT PoisonedResultIsWithheld
INVARIANT ReturnedIsOnRecord
INVARIANT ShadowPredicts
CHECK_DEADLOCK FALSE
