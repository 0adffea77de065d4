CONSTANTS
    Exports = {e1, e2}
    MaxEvents = 2
    LineCost = {1}
    EstimatedLine = 2
    ExportMax = 4
    Headroom = 2
    Disk = 12
    OtherWriter = FALSE
    maxAttempts = 2
    MaxSecond = 0
CHECK_DEADLOCK FALSE
SPECIFICATION Spec
PROPERTIES NeverOverwrites
