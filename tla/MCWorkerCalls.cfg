SPECIFICATION FairSpec
CONSTANTS
    r1 = r1
    r2 = r2
    service = service
    Requests <- TwoRequests
    Service = service
    MaxFreezes = 2
    MaxFaults = 1
INVARIANT TypeOK
INVARIANT ReadsOneState
PROPERTY Answered
