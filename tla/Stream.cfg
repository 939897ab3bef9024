SPECIFICATION MCSpec
CONSTANTS
    PlaceholderLength = 1
    NeededWords = 2
    Lookback = 3
    MinForOverlap = 2
    MaxOutput = 5
    MaxLength = 6
    Chunks = {1, 2, 4}
    Lengths = {1, 3}
    Texts <- AllTexts
    Configs <- AllConfigs
INVARIANT LastPieceIsOnRecord
INVARIANT HeldBackUntilSeen
INVARIANT LongSecretsAreReported
INVARIANT PiiIsRedacted
INVARIANT EndedIsWhole
INVARIANT RedactedExactly
INVARIANT VerdictIsBuffered
CHECK_DEADLOCK FALSE
