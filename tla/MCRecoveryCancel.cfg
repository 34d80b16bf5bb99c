SPECIFICATION Spec
CONSTANTS
    W32 = 4096
    OffMax = 8388607
    Proc = {p1}
    p1 = p1
    Offsets <- MCOffsets
    InitialImages <- DamagedImages
    MaxIndex = 2
    MaxRuns = 2
INVARIANT SuccessIsTrue
