CONSTANTS
    Minions = {m1}
    JIDs = {j1, j2}
    NoJID = NoJID
    MaxJobs = 2
    MemCeiling = 128
    EvictedFactor = 1
    MinEvictedMemory = 1
    ListJobs = 2
    Cached <- MCCached
    maxDepth = 1
    maxLines = 1
    MaxPresses = 2
SPECIFICATION HSpec
PROPERTIES EscapeLeavesDrillDown
