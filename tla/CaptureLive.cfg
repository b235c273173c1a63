SPECIFICATION FairSpec
CONSTANTS
    MaxSessions = 2
    MaxCrashes = 2
    MaxDbFailures = 0
    Calls = {c1, c2}
    ResumeOnStart = FALSE
    ReorderWrites = FALSE
INVARIANTS RunningIsRecorded
PROPERTIES CaptureProgress
