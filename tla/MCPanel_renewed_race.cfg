SPECIFICATION Spec
CONSTANTS
    a = a
    b = b
    c = c
    p = p
    q = q
    Users <- OneUser
    Admins <- NoAdmins
    ConfigNames <- OneName
    Reqs <- OneSlot
    MaxConfigs = 1
    MaxId = 1
    MaxFaults = 0
    MaxActive = 2
SYMMETRY Interchangeable
INVARIANT FlagMeansExpired
CHECK_DEADLOCK FALSE
