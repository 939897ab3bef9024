SPECIFICATION LoggerSpec
CONSTANTS
    BackupCount = 2
    MaxBytes = 3
    Sizes = {1, 2, 3}
    MaxLines = 9
    MaxCrashes = 2
INVARIANT FilesAreBounded
INVARIANT KeptIsTheTail
CHECK_DEADLOCK FALSE
