SPECIFICATION PartSpec
CONSTANTS
    NumDests = 2
    FullEveryDays = 4
    KeepCount = 1
    MaxDays = 5
    MaxTroubles = 2
    Troubles = {"late", "upload", "torn", "interrupt", "retention", "delete", "lock", "verify"}
    MaxTime = 7
    MaxLocked = 1
    Policies <- SmallPolicies
INVARIANTS TypeOK ChainsRestorable HistoryTypeOK NewestBucketsSurvive TiersAsDocumented ChainsDeletedWhole
PROPERTY WorstCaseHolds
CHECK_DEADLOCK FALSE
