SPECIFICATION MCSpec
CONSTANTS
    Kids = {k1, k2}
    FirstKid = k1
    Guards = {g1, g2}
    TokenTtls = {1}
    MaxTtl = 1
    Interval = 1
    MayFail = TRUE
    Procedure = "confirmed"
    Horizon = 8
SYMMETRY Symmetry
INVARIANT LiveTokensVerify
INVARIANT ReloadIsPrompt
CHECK_DEADLOCK FALSE
