SPECIFICATION Spec
CONSTANTS
    u1 = u1
    u2 = u2
    u3 = u3
    User = {u1, u2, u3}
    FirstOwner = u1
    FirstMember = u2
    Request = {r1, r2}
    Omitted = Omitted
    Body <- Bodies
    MaxPending = 2
    MaxRequests = 4
    MaxInvites = 2
INVARIANTS
    TypeOK
    OwnerIsNoMember
    WithdrawnNeverGrants
    InvitersCanWriteButByEmail
PROPERTIES
    AssignmentsFollowAccess
    SharedBoardSurvives
CHECK_DEADLOCK FALSE
