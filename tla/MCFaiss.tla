------------------------------- MODULE MCFaiss -------------------------------
(* Model-checking instance of FaissVectorStore. *)
EXTENDS FaissVectorStore, TLC

\* Documents and threads are interchangeable.
Symmetry == Permutations(Docs) \cup Permutations(Workers)
=============================================================================
