SPECIFICATION FairSpec
CONSTANTS
    InodesCount = 3
    BlocksCount = 5
    W32 = 4
    Images <- FullSpace
PROPERTY
    ScanEndsAtLast
CHECK_DEADLOCK FALSE
