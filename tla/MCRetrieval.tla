----------------------------- MODULE MCRetrieval -----------------------------
(* Model-checking instance of RetrievalService. *)
EXTENDS RetrievalService, TLC

\* Documents, workers and users are interchangeable.
Symmetry == Permutations(Docs) \cup Permutations(Workers) \cup Permutations(Users)
=============================================================================
