SPECIFICATION Spec
CONSTANTS
    c1 = c1
    k1 = k1
    k2 = k2
    connected = connected
    offline = offline
    Clients <- MCClients
    NoClient = NoClient
    Callbacks <- MCOneCallback
    Values <- MCValues
    NoValue = NoValue
    SubCap = 2
    EventCap = 2
    MaxChanges = 3
    MaxCaps = 0
CHECK_DEADLOCK FALSE
INVARIANT UpdatesAreSent
