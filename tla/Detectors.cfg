SPECIFICATION Spec
CONSTANTS
    Requests = {r1, r2}
    Texts = {t1, t2}
    Detectors = {d1, d2}
    Scores = {2}
    Highest = 2
    Floor = 1
    CacheSize = 2
    CacheTtl = 2
    Timeout = 1
    Replaced = {d1}
    QuietChanges = TRUE
    MaxTime = 3
SYMMETRY Symmetry
INVARIANT CacheHoldsAnswers
 
INVARIANT AnswersFollowTheMode
CHECK_DEADLOCK FALSE
