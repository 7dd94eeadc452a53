------------------------------- MODULE MCViews -------------------------------
(* Model-checking instance of DocumentViews. *)
EXTENDS DocumentViews, TLC

\* Documents and workers are interchangeable.
Symmetry == Permutations(Docs) \cup Permutations(Workers)
=============================================================================
