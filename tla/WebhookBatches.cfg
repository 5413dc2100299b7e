SPECIFICATION Spec
CONSTANTS
    Hook = {w1}
    Event = {e1, e2}
    Batch = {b1}
    MaxHooks = 1
    MaxAttempts = 2
    MaxConsecutive = 2
    ClaimBatch = 2
    PerHook = 2
    MaxSends = 1
    MaxResends = 1
    MaxRequests = 2
    MaxFaults = 1
SYMMETRY Interchangeable
INVARIANTS
    StrandedOnlyByRace
    ActiveBelowLimit
CHECK_DEADLOCK FALSE
