SPECIFICATION Spec
CONSTANTS
    Keys = {nonces, audit}
    Audit = audit
    Processes = {p1, p2}
    FailureThreshold = 2
    Recovery = 2
    Timeout = 1
    MaxTime = 7
    MaxCalls = 3
SYMMETRY Symmetry
PROPERTY TripsOnConsecutiveFailures
CHECK_DEADLOCK FALSE
