SPECIFICATION Spec
CONSTANTS
    File = {f1}
    Task = {t1, t2}
    MaxStarts = 3
    Operations = {"lock", "verify", "retention"}
PROPERTY LockedSurvivesRetention
CHECK_DEADLOCK FALSE
