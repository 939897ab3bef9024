SPECIFICATION Spec
CONSTANTS
    Keys = {nonces, audit}
    Audit = audit
    Processes = {p1, p2}
    FailureThreshold = 1
    Recovery = 2
    Timeout = 1
    MaxTime = 6
    MaxCalls = 2
SYMMETRY Symmetry
INVARIANT TypeOK
INVARIANT OpenPeriodIsBounded
INVARIANT RunReturnsInTime
INVARIANT DegradedIsReported
INVARIANT PolicyDecides
CHECK_DEADLOCK FALSE
