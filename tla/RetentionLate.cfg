SPECIFICATION Spec
CONSTANTS
    p1 = p1
    p2 = p2
    s1 = s1
    s2 = s2
    Processes = {p1, p2}
    Sensors = {s1, s2}
    Devices = {d1, d2}
    d1 = d1
    d2 = d2
    Learned <- FirstDevices
    Own <- Replicas
    NoOne = NoOne
    Retain = 1
    DeviceRetain = 1
    DayLength = 2
    AlertWindow = 1
    ActiveWindow = 1
    MaxLag = 2
    MaxClock = 2
    MaxFindings = 2
    MaxSightings = 0
    MaxIncidents = 0
INVARIANTS Exact
SYMMETRY ProcessSymmetry
