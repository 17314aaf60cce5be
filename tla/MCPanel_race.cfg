SPECIFICATION Spec
CONSTANTS
    a = a
    b = b
    c = c
    p = p
    q = q
    Users <- OneUser
    Admins <- NoAdmins
    ConfigNames <- ThreeNames
    Reqs <- TwoSlots
    MaxConfigs = 1
    MaxId = 3
    MaxFaults = 1
    MaxActive = 2
CONSTRAINT TwoRowsIfFailed
SYMMETRY Interchangeable
INVARIANT TypeOK
INVARIANT DeletedStaysGone
INVARIANT AckedKept
INVARIANT LimitSlack
INVARIANT TablesAgree
CHECK_DEADLOCK FALSE
