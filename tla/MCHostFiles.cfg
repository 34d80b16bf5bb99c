SPECIFICATION Spec
CONSTANTS
    p = p
    q = q
    a = a
    b = b
    c = c
    top = top
    dir = dir
    f = f
    g = g
    l = l
    h = h
    k = k
    m = m
    none = none
    Object = {top, dir, f, g, h, k, l, m}
    Kind <- MCKind
    Target <- MCTarget
    Name = {a, b, c}
    None = none
    Top = top
    Tree <- MCTree
    Byte <- MCByte
    Old <- MCOld
    Hole <- MCHole
    Process = {p, q}
    Sessions <- MCSessions
    Walks <- MCWalks
    MaxTotal = 3
    MaxFaults = 1
INVARIANTS
    TypeOK
    EditsAreKept
    ReportIsTrue
    FailureHasReason
CHECK_DEADLOCK FALSE
