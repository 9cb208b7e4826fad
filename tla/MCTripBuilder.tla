---------------------------- MODULE MCTripBuilder ----------------------------
(* The trip builder for one device and two calls.  Calls are interchangeable. *)
EXTENDS TripBuilder, TLC

Symmetry == Permutations(Handlers)
=============================================================================
