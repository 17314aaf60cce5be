SPECIFICATION Spec
CONSTANTS
    a = a
    b = b
    c = c
    p = p
    q = q
    Users <- OneUser
    Admins <- NoAdmins
    ConfigNames <- OneName
    Reqs <- OneSlot
    MaxConfigs = 1
    MaxId = 1
    MaxFaults = 1
    MaxActive = 1
SYMMETRY Interchangeable
INVARIANT FlagMeansFrozen
CHECK_DEADLOCK FALSE
