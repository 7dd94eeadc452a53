----------------------------- MODULE MCIngestion -----------------------------
(* Model-checking instance of IngestionService. *)
EXTENDS IngestionService, TLC

\* Documents and workers are interchangeable.
Symmetry == Permutations(Docs) \cup Permutations(Workers)
=============================================================================
