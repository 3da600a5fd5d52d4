SPECIFICATION FairSpec
CONSTANTS
    p1 = p1
    p2 = p2
    Clients <- MCOneClient
    MaxCycles = 1
    MaxSignals = 3
    MaxRequests = 1
    InhibitMayFail = FALSE
    PathMayChange = TRUE
PROPERTY ResumeHandled
CHECK_DEADLOCK FALSE
