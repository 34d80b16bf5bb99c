SPECIFICATION Spec
CONSTANTS
    W32 = 4096
    OffMax = 8388607
    Proc = {p1, p2}
    p1 = p1
    p2 = p2
    Offsets <- MCOffsets
    InitialImages <- SharedImages
    MaxIndex = 1
    MaxRuns = 2
SYMMETRY Processes
INVARIANTS
    PrimaryTrusted
    RetryFindsBackups
PROPERTIES
    OnlyConfirmedWrites
