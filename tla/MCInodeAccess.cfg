SPECIFICATION FairSpec
CONSTANTS
    W32 = 4096
    OffMax = 8388607
    Volumes <- MCVolumes
    Numbers <- MCNumbers
    MaxRequests = 2
    LenMask = 3
    MaxDepth = 2
    RootEntries = 2
    MaxEntries = 3
INVARIANTS
    TypeOK
    InodesInPlace
    GroupsAreExact
    VisitIsExact
PROPERTY
    EndsClosed
CHECK_DEADLOCK FALSE
