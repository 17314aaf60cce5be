SPECIFICATION FairSpec
CONSTANTS
    c1 = c1
    c2 = c2
    Peers <- TwoConfigs
    MaxUsed = 2
    MaxResets = 2
    MaxFaults = 1
INVARIANT TypeOK
INVARIANT Charged
PROPERTY NeverTakenBack
PROPERTY EverythingCounted
