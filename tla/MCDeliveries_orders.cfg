SPECIFICATION Spec
CONSTANTS
    Deliveries = {d1}
    Riders = {r1, r2}
    Hooks = {w1, w2}
    Handlers = {h1, h2}
    Dispatcher = dispatcher
    Nobody = nobody
    MaxRequests = 7
    MaxFaults = 1
SYMMETRY Symmetry
INVARIANTS TypeOK JourneyRecorded PartnersInformed
PROPERTY FinishedStays
CHECK_DEADLOCK FALSE
