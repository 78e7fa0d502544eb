CONSTANTS
    Start = 4
    Last = 7
    PerDay = 2
    Behind = 1
    Limit = 3
    Offered = 1
    Lookback = 4
    Keep = 0
    RowId = {i1, i2, i3}
    GapId = {g1, g2}
    Worker = {w1}
    None = None
    MaxRuns = 2
    MaxFaults = 1
SPECIFICATION Spec
SYMMETRY Symmetry
CHECK_DEADLOCK FALSE
INVARIANTS
    RecordsAreOffered
    FilledDaysAreWhole
PROPERTIES
    MergeKeepsCoverage
    UpdateRepairs
