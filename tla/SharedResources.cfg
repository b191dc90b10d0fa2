SPECIFICATION Spec
CONSTANTS
    Borrower = {b1, b2, b3}
    Conn = {c1, c2, c3}
    PoolLimit = 2
    MaxDrops = 1
    MaxCalls = 5
    Caller = {k1, k2, k3, k4}
    GateLimit = 2
    MaxRuns = 7
    MaxEntries = 4
    SlowWrites = TRUE
INVARIANTS TypeOK PoolBounded NotShared NoWaiterStranded NoSlotIdle
PROPERTIES WaiterServed WokenInOrder EveryCallRuns DeferredReachesRow NoLineLost
CHECK_DEADLOCK FALSE
