SPECIFICATION GammaSpec
CONSTANTS
    o1 = o1
    o2 = o2
    l1 = l1
    Outs = {o1, o2}
    Levels = {l1}
    Plain = Plain
    CmdCap = 8
    MaxRetries = 2
    MaxEvents = 2
CHECK_DEADLOCK FALSE
INVARIANT ReturnedOutputIsLit
