CONSTANTS
    i1 = i1
    lo = lo
    f1 = f1
    curl = curl
    x = x
    Ip = {i1}
    Proxy = {lo}
    Hash = {f1}
    Agent = {curl}
    Suspect = {curl}
    plain = plain
    Other = {plain}
    Sha256 <- MCSha256
    Pattern = {x}
    Matches <- MCMatches
    Request <- MCRequest
    Worker = {w1, w2}
    Admin = {a1}
    Task = {t1, t2}
    BanId = {b1, b2}
    None = None
    Batch = 1
    Most = 1
    MaxTargets = 1
    MaxTime = 1
    MaxRequests = 2
    MaxEdits = 2
    MaxRuns = 2
    MaxFaults = 1
SPECIFICATION Spec
SYMMETRY Symmetry
CHECK_DEADLOCK FALSE
INVARIANTS
    BannedIsNotServed
PROPERTIES
    LocationIsKept
