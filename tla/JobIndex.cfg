CONSTANTS
    Minions = {m1, m2}
    JIDs = {j1, j2, j3}
    NoJID = NoJID
    MaxJobs = 2
    MemCeiling = 128
    EvictedFactor = 1
    MinEvictedMemory = 2
SYMMETRY Symmetry
SPECIFICATION HSpec
INVARIANTS CountersMatchTheMaps BytesExact LookupHonest
PROPERTIES PinnedSurvives EvictsBestVictims NothingUnlearned EventsSettle
