SPECIFICATION FlowSpec
CONSTANTS
    Clients = {c1}
    Bindings = {b1, b2}
    DefaultBinding = b1
    BootMayOverlap = FALSE
    MaxPuts = 2
    MaxReadFailures = 1
    MaxSocketErrors = 1
    Closed = Closed
PROPERTIES SavePutsSocketRight
CHECK_DEADLOCK FALSE
