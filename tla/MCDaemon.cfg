SPECIFICATION MCSpec
CONSTANTS
    n1 = n1
    n2 = n2
    s1 = s1
    k1 = k1
    Nets = {n1, n2}
    NoNet = NoNet
    Keys = {n1, n2}
    KeyOf <- MCByPath
    MaxRequests = 2
    Sessions = {s1}
    Cancellers = {k1}
    d1 = d1
    v1 = v1
    v2 = v2
    r1 = r1
    r2 = r2
    Devices = {d1}
    Percents = {v1, v2}
    Unset = Unset
    Callers = {r1, r2}
    MaxSets = 3
    MaxDdcEvents = 4
    b1 = b1
    p1 = p1
    p2 = p2
    BtDevices = {b1}
    Pairers = {p1, p2}
    MaxPairs = 2
    MaxBtChanges = 1
    QueueCap = 3
    y1 = y1
    a1 = a1
    Heads = {y1}
    Appliers = {a1}
    MaxHeadChanges = 2
    CmdqCap = 2
    o1 = o1
    o2 = o2
    l1 = l1
    l2 = l2
    Outs = {o1, o2}
    Levels = {l1, l2}
    Plain = Plain
    CmdCap = 8
    MaxRetries = 2
    MaxEvents = 4
    x1 = x1
    x2 = x2
    h1 = h1
    h2 = h2
    Contents = {x1, x2}
    NoContent = NoContent
    Handlers = {h1, h2}
    MaxHistory = 2
    MaxPinned = 1
    MaxIds = 4
    MaxRequestsServed = 4
    Schedules = {k1}
    Day = 3
    Times = {0, 1}
    Interval = 2
    MaxTime = 5
    MaxChanges = 3
    m1 = m1
    c1 = c1
    Backends = {m1}
    Requesters = {c1}
    MaxClients = 1
    MaxUnderflows = 0
    MaxRefreshes = 2
    MaxOps = 2
CHECK_DEADLOCK FALSE
INVARIANT DaemonTypeOK
INVARIANT AnswerIsForItsNetwork
INVARIANT NothingLeftBehind
INVARIANT AloneIsReachable
INVARIANT LastSetIsShown
INVARIANT DevicesAreCurrent
INVARIANT PendingIsAsked
INVARIANT OutputsAreCurrent
INVARIANT ApplierIsServed
INVARIANT LightFollowsConfig
INVARIANT NoControlLeaks
INVARIANT OneOperation
INVARIANT PhaseIsLive
INVARIANT CoalescedIsFresh
INVARIANT CustomUpgradeRechecked
INVARIANT UnpinnedUnique
INVARIANT PublishedIsCurrent
INVARIANT SweepsAreStale
INVARIANT NoTimeSleptThrough
PROPERTY ContentKept
PROPERTY NoTimeServedTwice
