----------------------------- MODULE VectorIndex -----------------------------
(***************************************************************************)
(* The contract of a VectorStore as its callers use it: a set of entries   *)
(* in memory, a saved copy of it, and a restart that comes back with the   *)
(* saved copy.  Each call takes effect at once.                            *)
(***************************************************************************)
CONSTANTS Docs,           \* documents
          ChunksOf(_)     \* the entries of a document

VARIABLES entries,        \* what search can return
          saved           \* what a restart will find

vars == <<entries, saved>>

Init == entries = {} /\ saved = {}

Add(d) == entries' = entries \cup ChunksOf(d) /\ UNCHANGED saved

Delete(d) == entries' = entries \ ChunksOf(d) /\ UNCHANGED saved

Save == saved' = entries /\ UNCHANGED entries

Restart == entries' = saved /\ UNCHANGED saved

Next == (\E d \in Docs : Add(d) \/ Delete(d)) \/ Save \/ Restart

Spec == Init /\ [][Next]_vars
=============================================================================
