CONSTANTS
    minBackoff = 1
    maxBackoff = 2
    MaxBuffered = 1
    Width = 4
    GapValidity = 2
    SecondBuckets = 3
    MinuteBuckets = 2
    PerMinute = 2
    Slice = 1
    Jitter = 1
    DialTime = 1
    MaxTime = 17
CHECK_DEADLOCK FALSE
SPECIFICATION OutageSpec
INVARIANTS OutageNeverReadsAsQuiet QuietReadsAsZeroAgain
