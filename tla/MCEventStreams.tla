--------------------------- MODULE MCEventStreams ---------------------------
(* EventStreams for TLC: interchangeable processes and webhooks.             *)
EXTENDS EventStreams, TLC

ProcessSymmetry == Permutations(Processors) \cup Permutations(Hooks)
=============================================================================
