CONSTANTS
    Photo = {p1}
    Job = {j1, j2}
    Delay = 2
    Slack = 1
    Grace = 1
    ScheduleRetries = 0
    GenerateRetries = 1
    MaxEdits = 2
    MaxFaults = 1
    NoZip = NoZip
    NoForm = NoForm
SPECIFICATION FairSpec
INVARIANTS
    ReadyHasFile
    DebounceIsCovered
    StaleIsScheduled
PROPERTIES
    StaleIsRegenerated
