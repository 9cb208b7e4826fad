------------------------------ MODULE MCBilling ------------------------------
(* Billing for TLC: requests are interchangeable, and HQ may approve a      *)
(* negative amount next to the default one.                                 *)
EXTENDS Billing, TLC

ClerkSymmetry == Permutations(Clerks)

OneBack == {-1}
=============================================================================
