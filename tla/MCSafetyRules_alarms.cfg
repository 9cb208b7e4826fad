CONSTANTS
    Events = {e1}
    Contacts = {k1, k2}
    Hooks = {w1}
    Personal = TRUE
    MaxFaults = 1
    Handlers = {h1, h2}
    Samples <- MCSamples
    Lags <- MCLags
    Channels = {"sinotrack", "mqtt", "app"}
    Incoming = {"SOS"}
    LimitKeys <- MCKeys
    RuleOf <- MCRuleOf
    Limit <- MCLimit
    CrashCooldown = 3
    TheftCooldown = 1
    TheftAfter = 1
    StopCooldown = 1
    Drop = 2
    Rate = 2
    Cap = 2
    LastTtl = 2
    Window = 2
    MaxPackets = 4
    MaxTogether = 2
    MaxTime = 2
SPECIFICATION Spec
SYMMETRY Symmetry
INVARIANTS
    TypeOK
    CooldownRespected
    TheftJustified
    ReportComplete
PROPERTY CrashSeen
CHECK_DEADLOCK FALSE
