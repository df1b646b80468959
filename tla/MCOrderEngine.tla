---------------------------- MODULE MCOrderEngine ----------------------------
(* Model-checking instance of OrderEngine: which items need production, and *)
(* the symmetry between requests and between tasks.                         *)
EXTENDS OrderEngine, TLC

Symmetry == Permutations(Requests) \cup Permutations(Produced)
=============================================================================
