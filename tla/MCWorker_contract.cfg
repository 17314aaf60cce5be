SPECIFICATION Spec
CONSTANTS
    n1 = n1
    n2 = n2
    g1 = g1
    g2 = g2
    s1 = s1
    s2 = s2
    Names <- TwoNames
    Handlers <- TwoHandlers
    Syncs <- OneSync
    NumIPs = 2
    MaxKeys = 2
    MaxFaults = 1
    NamesReused = FALSE
SYMMETRY Interchangeable
PROPERTY ImplementsContract
