--------------------------- MODULE MCAssignments ----------------------------
(* Assignments for TLC: interchangeable requests, bikes and riders.          *)
EXTENDS Assignments, TLC

Symmetry == Permutations(Handlers) \cup Permutations(Bikes) \cup Permutations(Riders)
=============================================================================
