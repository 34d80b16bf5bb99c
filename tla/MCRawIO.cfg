SPECIFICATION FairSpec
CONSTANTS
    Byte <- MCByte
    Stale = stale
    Length = 4
    OffMax = 7
    BlockSize = 2
    Requests <- MCRequests
    MaxInterrupts = 1
INVARIANTS
    TypeOK
PROPERTIES
    RefusedExactly
    ImplementsTransfer
    RequestReturns
