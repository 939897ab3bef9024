SPECIFICATION MCSpec
CONSTANTS
    d1 = d1
    Docs = {d1, d2}
    phrased = phrased
    beacon = beacon
    Contents = {phrased, beacon}
    Text <- Texts
    None = None
    Processes = {p1, p2}
    Stores = {"atomic", "redis"}
    RecordRejected = TRUE
    Shadow = FALSE
    MaxOps = 3
    MaxAtomic = 4
    MaxOnRedis = 5
    HasAllowlist = TRUE
    AllowRelative = TRUE
    BlockDataUris = TRUE
    QuarantineAt <- DefaultQuarantine
    RejectAt <- DefaultReject
SYMMETRY Symmetry
INVARIANT VerifiedWasAllowed
INVARIANT QueueIsComplete
 
INVARIANT RecordsAreWhole
CHECK_DEADLOCK FALSE
