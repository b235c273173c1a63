SPECIFICATION Spec
CONSTANTS
    MaxSessions = 3
    MaxCrashes = 1
    MaxDbFailures = 1
    Calls = {c1, c2}
    ResumeOnStart = TRUE
    ReorderWrites = TRUE
SYMMETRY CallSymmetry
INVARIANTS OneHandle DetectionAttached StopIsEffective AckedStopStaysClosed
