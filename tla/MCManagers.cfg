SPECIFICATION MCSpec
CONSTANTS
    p1 = p1
    p2 = p2
    Clients = {p1, p2}
    MaxCycles = 2
    MaxSignals = 3
    MaxRequests = 2
    InhibitMayFail = TRUE
    PathMayChange = FALSE
    c1 = c1
    c2 = c2
    CupsClients = {c1, c2}
    MaxStarts = 2
CHECK_DEADLOCK FALSE
INVARIANT ManagersTypeOK
INVARIANT ReadyChannelSound
INVARIANT CycleFollowsLogind
INVARIANT SubscriberIsFed
PROPERTY ArmedFallbackReleases
PROPERTY WaitersEnd
PROPERTY UnsubscribeReturns
