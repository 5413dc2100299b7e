SPECIFICATION FairSpec
CONSTANTS
    Pod = {p1, p2}
    Edit = {e1}
    Rule <- Rules
    MaxDay = 2
    Scan = 2
    MaxFailures = 2
    MaxUpsets = 2
INVARIANTS
    ActiveIsArmed
    MissedOnce
PROPERTIES
    NothingSkipped
    OnlyEditsRevive
    DueSettles
CHECK_DEADLOCK FALSE
