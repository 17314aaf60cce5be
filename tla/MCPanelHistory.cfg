SPECIFICATION HFairSpec
CONSTANTS
    a = a
    p = p
    Users <- TwoUsers
    Admins <- SecondIsAdmin
    ConfigNames <- OneName
    Reqs <- OneSlot
    MaxConfigs = 1
    MaxId = 2
    MaxFaults = 1
    MaxActive = 2
INVARIANT SerialConsistent
PROPERTY ExpiredIsFlagged
CHECK_DEADLOCK FALSE
