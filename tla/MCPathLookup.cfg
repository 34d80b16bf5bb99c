SPECIFICATION Spec
CONSTANTS
    a = a
    b = b
    Inode <- MCInode
    Root = 2
    Name <- MCName
    Images <- MCImages
    Paths <- MCPaths
INVARIANTS
    TypeOK
    LeadsThere
    ErrorIsReal
CHECK_DEADLOCK FALSE
