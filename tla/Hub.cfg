CONSTANTS
    Minions = {1, 2}
    Fields <- MCFields
    KeysInOrder <- MCKeys
    maxKeys = 2
    topEntries = 1
    Sizes = {0, 3}
    Overhead = 2
    Budget = 5
    scanBudget = 1
    MaxArrivals = 4
    Width = 2
    GapValidity = 1
    SecondBuckets = 3
    MinuteBuckets = 2
    PerMinute = 2
    Lag = 1
    MaxTime = 8
    MaxStep = 7
    MaxCalls = 3
CHECK_DEADLOCK FALSE
SPECIFICATION MCSpec
INVARIANTS CountersKeepAll SnapshotIsOneInstant HeldJobIsWhole DenominatorHonest CacheHonest SnapshotSound BucketsTellTheTruth
PROPERTIES LossNecessary KeepsItsPromise EventEndsTheGap
