SPECIFICATION Spec
CONSTANTS
    MaxSessions = 1
    MaxCrashes = 0
    MaxDbFailures = 0
    Calls = {c1}
    ResumeOnStart = FALSE
    ReorderWrites = FALSE
INVARIANTS StoppedIsNotInterrupted
