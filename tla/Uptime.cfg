CONSTANTS
    Handler = {h1, h2}
    Null = Null
    MaxChecks = 4
    MaxBusy = 2
    MaxFailures = 1
CHECK_DEADLOCK FALSE
SPECIFICATION UptimeSpec
SYMMETRY Symmetry
INVARIANTS
    AnswerIsKeptOnce
    OwnerKnows
