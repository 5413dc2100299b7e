SPECIFICATION Spec
CONSTANTS
    a1 = a1
    a2 = a2
    b1 = b1
    b2 = b2
    Task = {a1, a2, b1, b2}
    Project = {1, 2}
    ProjectOf <- MCProjectOf
    Request = {r1, r2}
    NoTask = NoTask
    FirstEdges <- Bridges
    Edge <- Links
    MaxRequests = 3
INVARIANTS
    LoopsSpanDisjointProjects
    NoLockDeadlock
PROPERTIES
    TouchHeals
CHECK_DEADLOCK FALSE
