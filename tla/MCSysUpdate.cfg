SPECIFICATION UpdateFairSpec
CONSTANTS
    b1 = b1
    r1 = r1
    Backends = {b1}
    Requesters = {r1}
    MaxClients = 1
    MaxUnderflows = 1
    MaxRefreshes = 1
    MaxOps = 1
PROPERTY WorkEnds
PROPERTY DueCheckRuns
