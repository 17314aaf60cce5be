SPECIFICATION Spec
CONSTANTS
    n1 = n1
    n2 = n2
    Names <- TwoNames
    Addresses <- Subnets
    HandWritten <- MCHandWritten
    Edits <- MCEdits
    MaxKeys = 3
    MaxEdits = 2
INVARIANT TypeOK
INVARIANT OthersKept
INVARIANT FilesAgree
PROPERTY LeastFreeHost
PROPERTY ImplementsContract
CHECK_DEADLOCK FALSE
