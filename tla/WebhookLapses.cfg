SPECIFICATION FairSpec
CONSTANTS
    Hook = {w1}
    Event = {e1}
    Batch = {b1, b2}
    MaxHooks = 1
    MaxAttempts = 2
    MaxConsecutive = 2
    ClaimBatch = 2
    PerHook = 1
    MaxSends = 1
    MaxResends = 1
    MaxRequests = 1
    MaxFaults = 1
INVARIANTS
    FailuresAreDistinct
PROPERTIES
    DeliveredStays
    DeliverySettles
CHECK_DEADLOCK FALSE
