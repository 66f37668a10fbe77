----------------------------- MODULE MC_Gateway -----------------------------
(* Gateway on a few request tasks, which are interchangeable.              *)
EXTENDS Gateway, TLC

Symmetry == Permutations(Tasks)
=============================================================================
