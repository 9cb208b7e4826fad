CONSTANTS
    Handlers = {h1, h2}
    Bikes = {b1, b2}
    Riders = {r1, r2, r3}
    Personal = TRUE
    None = None
SPECIFICATION Spec
SYMMETRY Symmetry
INVARIANTS
    TypeOK
    OneBikePerRider
PROPERTY HandsOver
CHECK_DEADLOCK FALSE
