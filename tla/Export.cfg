CONSTANTS
    Exports = {e1, e2}
    MaxEvents = 2
    LineCost = {1, 3}
    EstimatedLine = 2
    ExportMax = 4
    Headroom = 2
    Disk = 8
    OtherWriter = TRUE
    maxAttempts = 2
    MaxSecond = 1
CHECK_DEADLOCK FALSE
SPECIFICATION Spec
INVARIANTS CompleteIsWhole PartialIsMine FailureLeavesAtMostThePartial
PROPERTIES EveryExportEnds
