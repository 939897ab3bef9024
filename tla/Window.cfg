SPECIFICATION MCSpec
CONSTANTS
    Keys = {requests}
    Processes = {p1, p2}
    Window = 3
    Budget = 2
    Timeout = 1
    Stores = {"memory", "redis", "sql"}
    Detects = {"plain", "tagged"}
    MaxTime = 7
    MaxChecks = 3
SYMMETRY Symmetry
INVARIANT BudgetOverEveryInterval
INVARIANT AdmittedAreRemembered
CHECK_DEADLOCK FALSE
