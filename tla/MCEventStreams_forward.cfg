CONSTANTS
    Entries = {t1, a1}
    Telemetry = {t1}
    Alerts = {a1}
    Orphans = {}
    Processors = {p1, p2}
    Dispatchers = {d1}
    Hooks = {h1, h2}
    Batch = 1
    MaxCopies = 3
    FaultKinds = {"group", "crash", "write", "read", "fanout", "api crash"}
    MaxFaults = 1
    None = None
SPECIFICATION FairSpec
INVARIANTS
    TypeOK
    AckedIsWritten
    AckedIsNotified
    CopiesBounded
PROPERTIES
    ReachedAreAcked
    CopiesAreNotified
CHECK_DEADLOCK FALSE
