SPECIFICATION MCSpec
CONSTANTS
    n1 = n1
    n2 = n2
    n3 = n3
    n4 = n4
    p1 = p1
    p2 = p2
    p3 = p3
    r1 = r1
    r2 = r2
    a1 = a1
    read = read
    write = write
    Nonces = {n1, n2, n3, n4}
    Processes = {p1, p2, p3}
    Revokers = {r1, r2}
    Subjects = {s1}
    NoSubject = NoSubject
    Actions = {read, write}
    Audiences = {a1}
    NoAudience = NoAudience
    NoToken = NoToken
    Ttls = {1, 3, 4}
    UseLimits = {1, 2}
    MaxDepth = 2
    RevocationTtl = 6
    TicksPerSecond = 1
    Timeout = 1
    Store = "redis"
    FailOpen = FALSE
    RequireSubject = TRUE
    MaxTime = 9
    MaxCalls = 2
    AudienceOf <- MixedServices
SYMMETRY Symmetry
INVARIANT TypeOK
INVARIANT EarlySpendsWithinLimit
PROPERTY RevokedTokensAreRefused
PROPERTY AcceptedWithinRoot
CHECK_DEADLOCK FALSE
