CONSTANTS
    File = {f1, f2, f3}
    Name = {n1, n2}
    k1 = k1
    k2 = k2
    Candle = {k1, k2}
    Content <- MCContent
    Run = {r1, r2}
    Strict = {r2}
    NoFile = NoFile
    NoName = NoName
    MaxTime = 2
    MaxFaults = 1
SPECIFICATION Spec
SYMMETRY Symmetry
CHECK_DEADLOCK FALSE
INVARIANTS
    ArchivedIsStored
PROPERTIES
    OriginalsStay
    KeepsPromise
