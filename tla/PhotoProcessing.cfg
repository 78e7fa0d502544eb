CONSTANTS
    Job = {j1, j2}
    Web = {w1}
    Point = {p1, p2}
    Detected = Detected
    NoPoint = NoPoint
    MaxRetries = 1
    MaxRequests = 2
    MaxFaults = 2
SPECIFICATION FairSpec
CHECK_DEADLOCK FALSE
INVARIANTS
    UnfinishedHasJob
    ChosenPointIsUsed
PROPERTIES
    UnfinishedIsProcessed
