SPECIFICATION Spec
CONSTANTS
    Job = {j1, j2}
    SystemTask = {s1}
    Schedule = {"daily"}
    Refresh = {r1, r2}
    MaxEdits = 2
    MaxErrors = 1
    Adapter = {a1, a2}
    Cycle = {y1, y2}
    MaxEvents = 2
    Alert = {spike, missing}
    Check = {m1, m2}
    MaxAlertEvents = 3
    ConfigRun = {x1, x2}
    MaxExports = 3
    RetentionCount = 2
    MaxMishaps = 1
INVARIANTS TypeOK NoGhostTimers TimersFollowTables
PROPERTIES LastEditTakesEffect StatusConverges RecordConverges NoticesCease AlertsConverge AlertsCease
CHECK_DEADLOCK FALSE
