CONSTANTS
    minBackoff = 1
    maxBackoff = 2
    MaxBuffered = 2
    JIDs = {"20260101120000000000"}
    Minions = {"web-1"}
    RunNumbers = {"run-3"}
    maxSegments = 6
    MaxFrameSize = 24
CHECK_DEADLOCK FALSE
SPECIFICATION WireSpec
INVARIANTS AttachedIsTheSocket FramesInStep HeardAsSent CategoryNamesNoOne
PROPERTIES OutageClosedBeforeEvents CancelStops Reattaches LossIsNoticed
