SPECIFICATION FairSpec
CONSTANTS
    InodesCount = 3
    BlocksCount = 5
    W32 = 8
    Images <- MCImages
INVARIANTS
    TypeOK
    ChainIsExact
    OnlyRealSharing
    OneEntryPerBlock
    SharingIsFound
    CleanScanIsComplete
PROPERTY
    ScanEndsAtLast
CHECK_DEADLOCK FALSE
