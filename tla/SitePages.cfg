CONSTANTS
    Shown <- MCShown
    TTL <- MCTTL
    Visitor = {v1}
    Command = {c1, c2}
    None = None
    AuditRetries = 1
    MaxEvents = 3
CHECK_DEADLOCK FALSE
SPECIFICATION PagesSpec
SYMMETRY Symmetry
INVARIANTS
    ListsCatchUp
    IndexIsWhole
