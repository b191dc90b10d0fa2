SPECIFICATION Spec
CONSTANTS
    NumDests = 2
    FullEveryDays = 4
    KeepCount = 4
    MaxDays = 3
    MaxTroubles = 1
    Troubles = {"torn"}
PROPERTY UploadGapsForceFull
CHECK_DEADLOCK FALSE
