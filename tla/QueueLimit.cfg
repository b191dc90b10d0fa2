SPECIFICATION Spec
CONSTANTS
    b1 = b1  b2 = b2  r1 = r1  t1 = t1
    p1 = p1  p2 = p2  w1 = w1  w2 = w2  w3 = w3
    Backups <- TwoBackups
    Restores <- NoExec
    Tasks <- NoExec
    Pass <- TwoPasses
    Worker <- TwoWorkers
    MaxJobs = 1
    Cancellable <- NoExec
    MaxFaults = 0
    Disturbances = {}
SYMMETRY Interchangeable
INVARIANT WithinLimit
CHECK_DEADLOCK FALSE
