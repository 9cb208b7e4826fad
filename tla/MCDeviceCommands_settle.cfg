SPECIFICATION FairSpec
CONSTANTS
  Cmds = {c1}
  Devices = {d1}
  Sockets = {s1}
  Sweeps = {w1}
  RequestTypes = {"LOCK"}
  SimDevices = {d1}
  Motions = {"parked", "moving"}
  MqttEnabled = TRUE
  TTL = 0
  Debounce = 1
  SlotTTL = 1
  Drift = 1
  Replies = {FALSE}
  Outcomes = {FALSE}
  Skews = {1}
  SweepLimit = 1
  MaxTime = 1
  MaxFaults = 1
  Destroyed = Destroyed
  None = None
INVARIANT ExpiryJustified
INVARIANT OutcomeHasEvidence
PROPERTY EveryCommandSettles
