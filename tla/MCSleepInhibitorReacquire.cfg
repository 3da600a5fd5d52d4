SPECIFICATION Spec
CONSTANTS
    p1 = p1
    p2 = p2
    Clients <- MCOneClient
    MaxCycles = 1
    MaxSignals = 3
    MaxRequests = 2
    InhibitMayFail = FALSE
    PathMayChange = FALSE
INVARIANT ReacquiredAtRest
CHECK_DEADLOCK FALSE
