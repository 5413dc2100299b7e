SPECIFICATION FairSpec
CONSTANTS
    Card = {c1}
    MaxWrites = 2
    MaxFaults = 2
INVARIANTS
    NoUnknownGap
PROPERTIES
    GapsHeal
CHECK_DEADLOCK FALSE
