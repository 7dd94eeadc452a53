-------------------------- MODULE FaissVectorStore --------------------------
(***************************************************************************)
(* Inside FAISSVectorStore: three parallel lists (the faiss index, the     *)
(* Python copy of its vectors and their string ids), rewritten statement   *)
(* by statement without a lock, and two files written one after the other. *)
(*                                                                         *)
(* A vector is named by the id it belongs to, so that the lists agree when *)
(* they are equal.  Searches beside these calls are module VectorSearch.   *)
(***************************************************************************)
EXTENDS Integers, Sequences, FiniteSets, Selection

CONSTANTS Docs,      \* documents
          Workers,   \* threads calling the store
          None,      \* no document; a missing file
          Torn,      \* a file cut short
          ChunkCount,\* chunks of each document, added in one call
          Crashes    \* "never", "between" saves, or "anywhere"

ASSUME ChunkCountAssumption == ChunkCount \in Nat \ {0}
ASSUME CrashesAssumption == Crashes \in {"never", "between", "anywhere"}

VARIABLES index,       \* self._index: a vector per position
          vectors,     \* self._vectors
          ids,         \* self._ids
          indexFile,   \* the index file: a sequence, None, or being written
          idsFile,     \* the sidecar file
          up,          \* FALSE when the last start failed
          added,       \* documents that were added (once: ids are uuids)
          pc, doc,     \* where each thread is, and for which document
          keepIds, keepVectors,  \* locals of delete
          listOwner    \* the thread whose keep_vectors is self._vectors

lists == <<index, vectors, ids>>
files == <<indexFile, idsFile>>
locals == <<keepIds, keepVectors, listOwner>>
vars == <<lists, files, up, added, pc, doc, locals>>

-----------------------------------------------------------------------------

Id == Docs \X (1..ChunkCount)              \* "<document_id>:<chunk_id>"
Unknown(k) == <<"unknown", k>>             \* "unknown:<position>"
ChunksOf(d) == {d} \X (1..ChunkCount)
ChunkList(d) == [k \in 1..ChunkCount |-> <<d, k>>]

\* A missing file and a file cut short are told from a file and from each other.
ASSUME FilesAssumption == None # Torn /\ {None, Torn} \cap Seq(Id) = {}

Elements(seq) == {seq[k] : k \in DOMAIN seq}
Shorter(m, n) == IF m <= n THEN m ELSE n

Init ==
  /\ index = <<>>
  /\ vectors = <<>>
  /\ ids = <<>>
  /\ indexFile = None
  /\ idsFile = None
  /\ up = TRUE
  /\ added = {}
  /\ pc = [w \in Workers |-> "idle"]
  /\ doc = [w \in Workers |-> None]
  /\ keepIds = [w \in Workers |-> <<>>]
  /\ keepVectors = [w \in Workers |-> <<>>]
  /\ listOwner = None

Goto(w, from, to) ==
  /\ pc[w] = from
  /\ pc' = [pc EXCEPT ![w] = to]

Call(w, d, entry) ==
  /\ up
  /\ Goto(w, "idle", entry)
  /\ doc' = [doc EXCEPT ![w] = d]
  /\ UNCHANGED <<lists, files, up, locals>>

Finish(w, from) ==
  /\ Goto(w, from, "idle")
  /\ doc' = [doc EXCEPT ![w] = None]

-----------------------------------------------------------------------------
(* add *)

BeginAdd(w, d) ==
  /\ d \notin added
  /\ Call(w, d, "addIndex")
  /\ added' = added \cup {d}

AddIndex(w) ==
  /\ Goto(w, "addIndex", "addVectors")
  /\ index' = index \o ChunkList(doc[w])
  /\ UNCHANGED <<vectors, ids, files, up, added, doc, locals>>

\* The list that is extended may be the keep_vectors of a delete in progress.
AddVectors(w) ==
  /\ Goto(w, "addVectors", "addIds")
  /\ vectors' = vectors \o ChunkList(doc[w])
  /\ keepVectors' = [v \in Workers |->
       IF pc[v] = "rebuild" /\ listOwner = v
       THEN keepVectors[v] \o ChunkList(doc[w]) ELSE keepVectors[v]]
  /\ UNCHANGED <<index, ids, files, up, added, doc, keepIds, listOwner>>

AddIds(w) ==
  /\ Finish(w, "addIds")
  /\ ids' = ids \o ChunkList(doc[w])
  /\ UNCHANGED <<index, vectors, files, up, added, locals>>

-----------------------------------------------------------------------------
(* delete_by_prefix *)

BeginDelete(w, d) ==
  /\ d \in added
  /\ Call(w, d, "select")
  /\ UNCHANGED added

Kept(w, id) == id \notin ChunksOf(doc[w])

\* Positions whose id is not to be removed.
KeptPositions(w) == {k \in DOMAIN ids : Kept(w, ids[k])}

\* Mutant: the vectors are kept from the wrong end.
KeptVectorsTail(w) ==
  SubSeq(vectors, Len(vectors) - Cardinality(KeptPositions(w)) + 1, Len(vectors))

\* [v for i, v in zip(ids, vectors) if i not in remove]: zip ends with the
\* shorter list.
KeptVectors(w) == Selected(vectors, KeptPositions(w))

\* Nothing with that prefix: nothing to do.
Select(w) ==
  /\ \/ /\ Goto(w, "select", "filterIds")
        /\ Elements(ids) \cap ChunksOf(doc[w]) # {}
        /\ UNCHANGED doc
     \/ /\ Finish(w, "select")
        /\ Elements(ids) \cap ChunksOf(doc[w]) = {}
  /\ UNCHANGED <<lists, files, up, added, locals>>

FilterIds(w) ==
  /\ Goto(w, "filterIds", "filterVectors")
  /\ keepIds' = [keepIds EXCEPT ![w] = Selected(ids, KeptPositions(w))]
  /\ UNCHANGED <<lists, files, up, added, doc, keepVectors, listOwner>>

FilterVectors(w) ==
  /\ Goto(w, "filterVectors", "assignIds")
  /\ keepVectors' = [keepVectors EXCEPT ![w] = KeptVectors(w)]
  /\ UNCHANGED <<lists, files, up, added, doc, keepIds, listOwner>>

AssignIds(w) ==
  /\ Goto(w, "assignIds", "assignVectors")
  /\ ids' = keepIds[w]
  /\ keepIds' = [keepIds EXCEPT ![w] = <<>>]
  /\ UNCHANGED <<index, vectors, files, up, added, doc, keepVectors, listOwner>>

AssignVectors(w) ==
  /\ Goto(w, "assignVectors", "rebuild")
  /\ vectors' = keepVectors[w]
  /\ listOwner' = w
  /\ UNCHANGED <<index, ids, files, up, added, doc, keepIds, keepVectors>>

\* The new index is filled from keep_vectors, then put in place.
Rebuild(w) ==
  /\ Goto(w, "rebuild", "swap")
  /\ UNCHANGED <<lists, files, up, added, doc, locals>>

\* Mutant: the rebuilt index is not put in place.
SwapForgotten(w) ==
  /\ Finish(w, "swap")
  /\ keepVectors' = [keepVectors EXCEPT ![w] = <<>>]
  /\ UNCHANGED <<lists, files, up, added, keepIds, listOwner>>

Swap(w) ==
  /\ Finish(w, "swap")
  /\ index' = keepVectors[w]
  /\ keepVectors' = [keepVectors EXCEPT ![w] = <<>>]
  /\ UNCHANGED <<vectors, ids, files, up, added, keepIds, listOwner>>

-----------------------------------------------------------------------------
(* save: each file is truncated when it is opened *)

BeginSave(w) == Call(w, None, "openIndex") /\ UNCHANGED added

OpenIndex(w) ==
  /\ Goto(w, "openIndex", "writeIndex")
  /\ indexFile' = Torn
  /\ UNCHANGED <<lists, idsFile, up, added, doc, locals>>

WriteIndex(w) ==
  /\ Goto(w, "writeIndex", "openIds")
  /\ indexFile' = index
  /\ UNCHANGED <<lists, idsFile, up, added, doc, locals>>

OpenIds(w) ==
  /\ Goto(w, "openIds", "writeIds")
  /\ idsFile' = Torn
  /\ UNCHANGED <<lists, indexFile, up, added, doc, locals>>

WriteIds(w) ==
  /\ Finish(w, "writeIds")
  /\ idsFile' = ids
  /\ UNCHANGED <<lists, indexFile, up, added, locals>>

Saving(w) == pc[w] \in {"openIndex", "writeIndex", "openIds", "writeIds"}

-----------------------------------------------------------------------------
(* _load, in the constructor of the restarted process *)

Padded(seq, n) ==
  [k \in 1..(IF Len(seq) < n THEN n ELSE Len(seq)) |->
     IF k <= Len(seq) THEN seq[k] ELSE Unknown(k)]

\* Mutant: the sidecar is not read.
LoadedIdsUnread == IF indexFile = None THEN <<>> ELSE Padded(<<>>, Len(indexFile))

LoadedIds ==
  IF indexFile = None THEN <<>>
  ELSE Padded(IF idsFile = None THEN <<>> ELSE idsFile, Len(indexFile))

Restart ==
  /\ Crashes # "never"
  /\ Crashes = "anywhere" \/ \A w \in Workers : ~Saving(w)
  /\ up' = (indexFile # Torn /\ (indexFile = None \/ idsFile # Torn))
  /\ index' = IF up' /\ indexFile # None THEN indexFile ELSE <<>>
  /\ vectors' = index'
  /\ ids' = IF up' THEN LoadedIds ELSE <<>>
  /\ pc' = [w \in Workers |-> "idle"]
  /\ doc' = [w \in Workers |-> None]
  /\ keepIds' = [w \in Workers |-> <<>>]
  /\ keepVectors' = [w \in Workers |-> <<>>]
  /\ listOwner' = None
  /\ UNCHANGED <<files, added>>

-----------------------------------------------------------------------------

Calls ==
  \/ \E w \in Workers, d \in Docs : BeginAdd(w, d) \/ BeginDelete(w, d)
  \/ \E w \in Workers :
       \/ AddIndex(w) \/ AddVectors(w) \/ AddIds(w)
       \/ Select(w) \/ FilterIds(w) \/ FilterVectors(w)
       \/ AssignIds(w) \/ AssignVectors(w) \/ Rebuild(w) \/ Swap(w)
       \/ BeginSave(w) \/ OpenIndex(w) \/ WriteIndex(w) \/ OpenIds(w) \/ WriteIds(w)

Next == Calls \/ Restart

Spec == Init /\ [][Next]_vars

-----------------------------------------------------------------------------

Quiet == \A w \in Workers : pc[w] = "idle"

Step == {"idle", "addIndex", "addVectors", "addIds", "select", "filterIds",
         "filterVectors", "assignIds", "assignVectors", "rebuild", "swap",
         "openIndex", "writeIndex", "openIds", "writeIds"}

TypeOK ==
  /\ index \in Seq(Id)
  /\ vectors \in Seq(Id)
  /\ ids \in Seq(Id)
  /\ indexFile \in Seq(Id) \/ indexFile \in {None, Torn}
  /\ idsFile \in Seq(Id) \/ idsFile \in {None, Torn}
  /\ up \in BOOLEAN
  /\ added \subseteq Docs
  /\ pc \in [Workers -> Step]
  /\ doc \in [Workers -> Docs \cup {None}]
  /\ keepIds \in [Workers -> Seq(Id)]
  /\ keepVectors \in [Workers -> Seq(Id)]
  /\ listOwner \in Workers \cup {None}

\* "Positions in the flat index double as sequence ids; self._ids maps each
\* position back to its string": between calls the three lists have the same
\* entries at the same positions, and no id is there twice.
ListsAgree ==
  Quiet /\ up => /\ index = ids
                 /\ vectors = ids
                 /\ Cardinality(Elements(ids)) = Len(ids)

Contract == INSTANCE VectorIndex WITH
  entries <- Elements(ids),
  saved <- IF idsFile = None THEN {}
           ELSE IF idsFile = Torn THEN Elements(ids) ELSE Elements(idsFile)

\* One thread at a time, and no crash inside a save: every call is one step of
\* the contract.  A deleted document has no entry left, and a started process
\* has read back the entries that were saved.
ImplementsContract == Contract!Spec
=============================================================================
