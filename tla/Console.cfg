CONSTANTS
    Minions = {m1}
    JIDs = {j1, j2}
    NoJID = NoJID
    MaxJobs = 1
    MemCeiling = 0
    EvictedFactor = 1
    MinEvictedMemory = 1
    ListJobs = 1
    Cached <- MCCached
    maxDepth = 1
    maxLines = 1
    MaxPresses = 2
SPECIFICATION ConsoleSpec
INVARIANTS DetailDrawsTheSelection
PROPERTIES OpenJobGetsPinned OpenJobHeld
