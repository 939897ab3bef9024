SPECIFICATION MCSpec
CONSTANTS
    s1 = s1
    s2 = s2
    a1 = a1
    Sessions = {s1, s2}
    Actors = {a1}
    NoActor = NoActor
    Processes = {p1, p2}
    Operators = {o1}
    Deltas = {1, 2}
    Threshold <- Thresholds
    Ttl <- Ttls
    Decay = 1
    Timeout = 1
    Stores <- Backends
    MaxTime = 5
    MaxTurns = 2
SYMMETRY Symmetry
INVARIANT OverThresholdIsFlagged
INVARIANT KnownFlagIsAnswered
PROPERTY KeepsContract
CHECK_DEADLOCK FALSE
