CONSTANTS
    Minions = {m1, m2}
    JIDs = {j1, j2}
    NoJID = NoJID
    MaxJobs = 1
    MemCeiling = 0
    EvictedFactor = 1
    MinEvictedMemory = 2
SYMMETRY Symmetry
SPECIFICATION HSpec
PROPERTIES ProgressingNeverEvicted
