CONSTANTS
    Notes = {n1, n2}
    Workers = {w1, w2}
    Webhooks = {n2}
    Silent = {n2}
    Attempts = 2
    MaxStalls = 1
    KeepFailed = 1
    BootLimit = 1
    Modes = {TRUE, FALSE}
    CountsInEvent = {TRUE, FALSE}
    HookMayGo = TRUE
    FaultKinds = {"crash", "database", "queue", "lock"}
    MaxFaults = 1
    None = None
SPECIFICATION Spec
SYMMETRY NoteSymmetry
INVARIANTS
    TypeOK
    SentWasDelivered
    DeliveriesBounded
PROPERTY SentIsFinal
CHECK_DEADLOCK FALSE
