SPECIFICATION FairSpec
CONSTANTS
    a = a
    b = b
    Inode <- MCInode
    Name <- MCName
    Images <- MCImages
    MaxDepth = 2
INVARIANTS
    TypeOK
    ListedOnce
    CleanIsComplete
    StatusIsHonest
    OnlyBelow
PROPERTY
    Terminates
CHECK_DEADLOCK FALSE
