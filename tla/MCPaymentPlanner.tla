-------------------------- MODULE MCPaymentPlanner --------------------------
(* Instances of PaymentPlanner for TLC. *)
EXTENDS PaymentPlanner, TLC

Symmetry == Permutations(Requests)
=============================================================================
