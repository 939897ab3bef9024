SPECIFICATION FairMediaSpec
CONSTANTS
    Scans = {s1, s2}
    Sync = {e1, e2}
    Async = {e3}
    Workers = 1
    ExtractorTimeout = 1
    Horizon = 2
 
PROPERTY ScansReturn
CHECK_DEADLOCK FALSE
