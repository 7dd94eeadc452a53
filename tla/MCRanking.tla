------------------------------ MODULE MCRanking ------------------------------
(* Model-checking instance of HybridRanking. *)
EXTENDS HybridRanking, TLC

\* Chunks are interchangeable: ties are broken by position, not by id.
Symmetry == Permutations(Chunks)
=============================================================================
