SPECIFICATION PromptSpec
CONSTANTS
    n1 = n1
    n2 = n2
    shared = shared
    Nets <- MCNets
    NoNet = NoNet
    Keys <- MCOneKey
    KeyOf <- MCBySetting
    MaxRequests = 2
    Sessions = {s1}
    Cancellers = {}
CHECK_DEADLOCK FALSE
INVARIANT AnswerIsForItsNetwork
