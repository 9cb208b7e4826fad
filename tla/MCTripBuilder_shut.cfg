SPECIFICATION Spec
CONSTANTS
    Handlers = {h1, h2}
    MaxTime = 4
    MaxPackets = 3
    MaxFaults = 0
    StartMovement = 1
    EndIdle = 1
    MaxDuration = 4
    MinDuration = 1
    Cooldown = 2
SYMMETRY Symmetry
INVARIANT NoDuplicateTrips
CHECK_DEADLOCK FALSE
