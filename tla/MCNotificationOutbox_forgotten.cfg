CONSTANTS
    Notes = {n1, n2}
    Workers = {w1}
    Webhooks = {}
    Silent = {}
    Attempts = 2
    MaxStalls = 1
    KeepFailed = 2
    BootLimit = 2
    Modes = {FALSE}
    CountsInEvent = {TRUE}
    HookMayGo = FALSE
    FaultKinds = {"crash"}
    MaxFaults = 2
    None = None
SPECIFICATION FairSpec
PROPERTY NoneForgotten
CHECK_DEADLOCK FALSE
