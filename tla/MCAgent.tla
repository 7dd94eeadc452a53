------------------------------- MODULE MCAgent -------------------------------
(* Model-checking instance of AgentRun. *)
EXTENDS AgentRun

CONSTANTS c1, c2

\* A step finds nothing, one chunk, or both with the same chunk second.
SomeHits == {<<>>, <<c1>>, <<c2, c1>>}
NoHits == {<<>>}
=============================================================================
