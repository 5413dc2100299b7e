SPECIFICATION LeaseSpec
CONSTANTS
    k1 = k1
    p1 = p1
    a1 = a1
    a2 = a2
    OneShot = {j1, j2, j3, j4}
    Kind = {k1}
    KindOf <- MCKindOf
    Pod = {p1}
    Tick = {a1, a2}
    PodOf <- MCPodOf
    NoTick = NoTick
    Release = {0}
    Handles <- MCHandles
    Schedules <- MCSchedules
    MaxAttempts = 1
    ClaimBatch = 4
    MaxConcurrent = 2
    Rounds = 2
    MaintenanceEvery = 1
    MaxFaults = 1
    Lease = 6
    HandlerTimeout = 2
    TickBudget = 5
    BackoffTime = 3
    Interval = 3
    MaxSlow = 1
SYMMETRY JobSymmetry
INVARIANTS
    SlotsBalance
    LeaseCoversBatch
