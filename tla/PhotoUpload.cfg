CONSTANTS
    sea = sea
    sea2 = sea2
    bad = bad
    Photo = {p1, p2}
    Content = {sea, sea2, bad}
    Distance <- MCDistance
    Size <- MCSize
    Unreadable = {bad}
    Sending <- MCSending
    Client = {u1, u2}
    Worker = {w1}
    Visitor = {v1}
    None = None
    NoHash = NoHash
    Near = 5
    NearShown = 10
    MaxUploads = 2
    MaxEdits = 1
    MaxVisits = 1
    MaxFaults = 1
SPECIFICATION Spec
SYMMETRY Symmetry
CHECK_DEADLOCK FALSE
INVARIANTS
    TwinsOverlapped
    AcceptedIsKept
    CreatedIsWhole
    SentWasExposed
    FilterMatchesColumn
    CompleteIsCropped
