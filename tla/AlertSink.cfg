SPECIFICATION FairSpec
CONSTANTS
    Sinks = {s1, s2}
    DedupKeys = {d1}
    AlertWindow = 2
    MaxPending = 1
    MaxTime = 2
    MaxFindings = 3
    MaxDbFailures = 1
INVARIANTS Conserved SpansExact NotifiedIsStored CountsConserved
PROPERTIES EventuallyWritten
CHECK_DEADLOCK FALSE
