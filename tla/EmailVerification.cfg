CONSTANTS
    User = {u1, u2}
    Web = {w1, w2}
    NoRow = NoRow
    MaxRetries = 1
    MaxRows = 2
    MaxRequests = 4
    MaxFaults = 2
SPECIFICATION FairSpec
CHECK_DEADLOCK FALSE
INVARIANTS
    NoNeedlessDuplicate
    UnverifiedIsMailed
    VerifiedWasMailed
PROPERTIES
    QueuedIsSent
