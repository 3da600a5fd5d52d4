SPECIFICATION MCSpec
CONSTANTS
    c1 = c1
    k1 = k1
    connected = connected
    offline = offline
    Clients = {c1}
    NoClient = NoClient
    Callbacks = {k1}
    Values = {connected, offline}
    NoValue = NoValue
    SubCap = 1
    EventCap = 1
    MaxChanges = 3
    MaxCaps = 1
    w1 = w1
    w2 = w2
    Ssids = {w1, w2}
    NoSsid = NoSsid
    MaxAttempts = 2
    MaxStation = 2
    MaxAborts = 1
CHECK_DEADLOCK FALSE
INVARIANT NetworkTypeOK
INVARIANT NoLostChange
INVARIANT ClosedAfterProducers
PROPERTY SessionEnds
PROPERTY ClientCatchesUp
PROPERTY ConnectingEnds
