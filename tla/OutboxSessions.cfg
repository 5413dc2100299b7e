SPECIFICATION Spec
CONSTANTS
    o1 = o1
    o2 = o2
    o3 = o3
    card = card
    other = other
    Op = {o1, o3}
    Entity <- MCEntity
    Moves = {o3}
    Edits = {}
    Creates = {o1}
    Account = {ann, bob}
    Nobody = Nobody
    Run = {r1, r2}
    NoRun = NoRun
    NoOp = NoOp
    MaxQueued = 2
    MaxAttempts = 2
    MaxSessions = 1
    MaxReloads = 1
SYMMETRY Interchangeable
INVARIANTS
    OneSender
    QueueHasAWaker
PROPERTIES
    AbandonedRunsAreSilent
CHECK_DEADLOCK FALSE
