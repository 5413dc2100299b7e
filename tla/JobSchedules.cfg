SPECIFICATION FairSpec
CONSTANTS
    k1 = k1
    p1 = p1
    p2 = p2
    a1 = a1
    b1 = b1
    OneShot = {}
    Kind = {k1}
    KindOf <- MCKindOf
    Pod = {p1, p2}
    Tick = {a1, b1}
    PodOf <- MCPodOf
    NoTick = NoTick
    Release = {0, 1}
    Handles <- MCHandles
    Schedules <- DroppedSchedule
    MaxAttempts = 2
    ClaimBatch = 2
    MaxConcurrent = 1
    Rounds = 2
    MaintenanceEvery = 2
    MaxFaults = 2
PROPERTIES
    ScheduleNeverStops
    DroppedScheduleGoes
