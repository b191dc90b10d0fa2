SPECIFICATION Spec
CONSTANTS
    b1 = b1  b2 = b2  r1 = r1  t1 = t1
    p1 = p1  p2 = p2  w1 = w1  w2 = w2  w3 = w3
    Backups <- TwoBackups
    Restores <- NoExec
    Tasks <- OneTask
    Pass <- TwoPasses
    Worker <- ThreeWorkers
    MaxJobs = 2
    Cancellable <- NoExec
    MaxFaults = 1
    Disturbances = {}
SYMMETRY Interchangeable
INVARIANTS TypeOK SingleRun
PROPERTIES ClaimsInOrder
CHECK_DEADLOCK FALSE
