---------------------------- MODULE MCDeliveries -----------------------------
(* Deliveries with the ids as model values. *)
EXTENDS Deliveries, TLC

Symmetry == Permutations(Handlers) \cup Permutations(Riders) \cup Permutations(Hooks)
=============================================================================
