SPECIFICATION CupsSpec
CONSTANTS
    c1 = c1
    c2 = c2
    CupsClients = {c1, c2}
    MaxStarts = 2
CHECK_DEADLOCK FALSE
INVARIANT NeverPanics
