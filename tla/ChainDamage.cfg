SPECIFICATION Spec
CONSTANTS
    NumDests = 2
    FullEveryDays = 4
    KeepCount = 4
    MaxDays = 3
    MaxTroubles = 1
    Troubles = {"verify"}
PROPERTY DamagedFullForcesFull
CHECK_DEADLOCK FALSE
