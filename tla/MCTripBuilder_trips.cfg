SPECIFICATION Spec
CONSTANTS
    Handlers = {h1, h2}
    MaxTime = 4
    MaxPackets = 4
    MaxFaults = 1
    StartMovement = 1
    EndIdle = 1
    MaxDuration = 3
    MinDuration = 1
    Cooldown = 2
SYMMETRY Symmetry
INVARIANTS TypeOK TripsApart StopEndsTrip
PROPERTY RidesKept
CHECK_DEADLOCK FALSE
