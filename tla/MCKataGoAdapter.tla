-------------------------- MODULE MCKataGoAdapter --------------------------
(* Instances of KataGoAdapter for TLC.                                     *)
EXTENDS KataGoAdapter, TLC

Symmetry == Permutations(Callers) \cup Permutations(Stones)
=============================================================================
