SPECIFICATION Spec
CONSTANTS
  Cmds = {c1, c2}
  Devices = {d1, d2}
  Sockets = {s1}
  Sweeps = {}
  RequestTypes = {"LOCK", "UNLOCK"}
  SimDevices = {}
  Motions = {"parked"}
  MqttEnabled = FALSE
  TTL = 0
  Debounce = 1
  SlotTTL = 1
  Drift = 0
  Replies = {TRUE, FALSE}
  Outcomes = {}
  Skews = {}
  SweepLimit = 1
  MaxTime = 1
  MaxFaults = 0
  Destroyed = Destroyed
  None = None
SYMMETRY PairSymmetry
INVARIANT TypeOK
INVARIANT DispatchTraceable
INVARIANT OutcomeHasEvidence
