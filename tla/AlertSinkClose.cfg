SPECIFICATION Spec
CONSTANTS
    Sinks = {s1}
    DedupKeys = {d1}
    AlertWindow = 2
    MaxPending = 1
    MaxTime = 0
    MaxFindings = 2
    MaxDbFailures = 0
INVARIANTS ClosedIsFlushed
CHECK_DEADLOCK FALSE
