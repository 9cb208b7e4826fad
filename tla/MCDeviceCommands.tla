-------------------------- MODULE MCDeviceCommands --------------------------
(***************************************************************************)
(* DeviceCommands for TLC.                                                 *)
(***************************************************************************)
EXTENDS DeviceCommands, TLC

\* Requests are interchangeable, and so are devices when all or none have a
\* SIM.  (AnyDevice only fills rows of Init that do not exist yet.)
PairSymmetry == Permutations(Cmds) \cup Permutations(Devices)
=============================================================================
