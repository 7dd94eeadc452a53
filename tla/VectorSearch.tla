---------------------------- MODULE VectorSearch ----------------------------
(***************************************************************************)
(* Searches of FAISSVectorStore beside the calls that change it.  search   *)
(* asks the index for positions, and for each of them looks at the length  *)
(* of the id list and then into it: three moments, without a lock, with    *)
(* statements of other threads in between.  One position stands for all    *)
(* that a search returns; which ones are nearest to a query is abstracted. *)
(***************************************************************************)
EXTENDS FaissVectorStore

CONSTANT Searchers     \* threads in search

VARIABLES stage,       \* where each search is
          position,    \* the position it was given
          vector,      \* the vector that was there
          name,        \* the id it returns for it
          calm         \* history: no delete has been replacing the lists

search == <<stage, position, vector, name, calm>>
searchVars == <<vars, search>>

-----------------------------------------------------------------------------

SearchInit ==
  /\ Init
  /\ stage = [r \in Searchers |-> "idle"]
  /\ position = [r \in Searchers |-> 0]
  /\ vector = [r \in Searchers |-> None]
  /\ name = [r \in Searchers |-> None]
  /\ calm = [r \in Searchers |-> TRUE]

Proceed(r, from, to) ==
  /\ stage[r] = from
  /\ stage' = [stage EXCEPT ![r] = to]

\* A delete has put the ids that stay in place, and not yet the index.
Replacing == \E w \in Workers : pc[w] \in {"assignVectors", "rebuild", "swap"}

\* The index is searched; an empty one has nothing to return.
SearchIndex(r) ==
  /\ up
  /\ Proceed(r, "idle", "check")
  /\ \E k \in DOMAIN index :
       /\ position' = [position EXCEPT ![r] = k]
       /\ vector' = [vector EXCEPT ![r] = index[k]]
  /\ calm' = [calm EXCEPT ![r] = ~Replacing]
  /\ UNCHANGED <<vars, name>>

Reset(r) ==
  /\ stage' = [stage EXCEPT ![r] = "idle"]
  /\ position' = [position EXCEPT ![r] = 0]
  /\ vector' = [vector EXCEPT ![r] = None]
  /\ name' = [name EXCEPT ![r] = None]
  /\ calm' = [calm EXCEPT ![r] = TRUE]
  /\ UNCHANGED vars

\* Mutant: the position is not compared with the length of the id list.
CheckForgotten(r) ==
  /\ Proceed(r, "check", "read")
  /\ UNCHANGED <<vars, position, vector, name, calm>>

\* Positions past the id list are left out.
CheckPosition(r) ==
  \/ /\ position[r] <= Len(ids)
     /\ Proceed(r, "check", "read")
     /\ UNCHANGED <<vars, position, vector, name, calm>>
  \/ /\ position[r] > Len(ids)
     /\ stage[r] = "check"
     /\ Reset(r)

\* By now the list may be another, and shorter: an IndexError.
ReadName(r) ==
  /\ \/ /\ position[r] <= Len(ids)
        /\ Proceed(r, "read", "named")
        /\ name' = [name EXCEPT ![r] = ids[position[r]]]
     \/ /\ position[r] > Len(ids)
        /\ Proceed(r, "read", "raised")
        /\ UNCHANGED name
  /\ UNCHANGED <<vars, position, vector, calm>>

SearchOver(r) ==
  /\ stage[r] \in {"named", "raised"}
  /\ Reset(r)

\* Other threads add, delete and save meanwhile.
Beside ==
  /\ Calls
  /\ calm' = [r \in Searchers |-> calm[r] /\ ~Replacing']
  /\ UNCHANGED <<stage, position, vector, name>>

\* The end of the process is the end of its searches.
RestartAll ==
  /\ Restart
  /\ stage' = [r \in Searchers |-> "idle"]
  /\ position' = [r \in Searchers |-> 0]
  /\ vector' = [r \in Searchers |-> None]
  /\ name' = [r \in Searchers |-> None]
  /\ calm' = [r \in Searchers |-> TRUE]

SearchStep(r) == SearchIndex(r) \/ CheckPosition(r) \/ ReadName(r) \/ SearchOver(r)

SearchNext == Beside \/ RestartAll \/ \E r \in Searchers : SearchStep(r)

SearchSpec == SearchInit /\ [][SearchNext]_searchVars

-----------------------------------------------------------------------------

\* A search returns a vector under the id it was added with and does not
\* raise, although index and ids are read at different moments, whatever is
\* added and saved in between and whatever a delete prepares; only a delete
\* that puts its shorter lists in place meanwhile can upset it.
SearchNamesItsVector ==
  \A r \in Searchers : calm[r] =>
    /\ stage[r] = "named" => name[r] = vector[r]
    /\ stage[r] # "raised"

\* The same without that exception: line 45 has every position double as the
\* sequence id of its string.
SearchNamesAlways ==
  \A r \in Searchers : stage[r] = "named" => name[r] = vector[r]
=============================================================================
