----------------------------- MODULE MCPayments -----------------------------
(* Model-checking instance of Payments: requests are interchangeable.       *)
EXTENDS Payments, TLC

Symmetry == Permutations(Requests)
=============================================================================
