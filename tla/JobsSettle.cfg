SPECIFICATION FairSpec
CONSTANTS
    k1 = k1
    p1 = p1
    p2 = p2
    a1 = a1
    b1 = b1
    OneShot = {j1}
    Kind = {k1}
    KindOf <- MCKindOf
    Pod = {p1, p2}
    Tick = {a1, b1}
    PodOf <- MCPodOf
    NoTick = NoTick
    Release = {0, 1}
    Handles <- AddedKind
    Schedules <- NoSchedules
    MaxAttempts = 2
    ClaimBatch = 2
    MaxConcurrent = 1
    Rounds = 2
    MaintenanceEvery = 1
    MaxFaults = 3
INVARIANTS
    TypeOK
    NoLostJob
    ParksOnlyExhausted
PROPERTIES
    KeepsPromise
    EveryJobSettles
    SlotsComeBack
