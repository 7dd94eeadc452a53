-------------------------- MODULE IngestionService --------------------------
(***************************************************************************)
(* The document life cycle of the RAG module: IngestionService (ingest,    *)
(* its failure path and delete) run by concurrent request threads over the *)
(* relational database and the process-wide vector store.                  *)
(*                                                                         *)
(* A request is a small state machine: each step is one externally visible *)
(* effect (a committed transaction, a vector-store call, a reply).  The    *)
(* vector store is seen through its contract here: `mem' is the index held *)
(* by the process and `disk' what the next start will find in its files;   *)
(* module FaissVectorStore looks inside those calls.  A document stands    *)
(* for all of its chunks: they are added, purged and committed together.   *)
(*                                                                         *)
(* A save writes over the two files of the save before.  Nobody reads them *)
(* while the process is up, so one step tells what it leaves: everything   *)
(* when it is completed, and some of the old when it is cut short.         *)
(***************************************************************************)

CONSTANTS Docs,      \* document ids (uuid4: never reused)
          Workers,   \* request threads of the one server process
          NoDoc,     \* the document of an idle worker
          Faults     \* which faults may happen: "crash", "save", "db"

ASSUME NoDocAssumption == NoDoc \notin Docs
ASSUME FaultsAssumption == Faults \subseteq {"crash", "save", "db"}

VARIABLES status,    \* documents.status as committed; "none"/"deleted" = no row
          rows,      \* documents with committed chunk and embedding rows
          mem,       \* documents with vectors in the in-memory index
          disk,      \* documents a start would find in the saved index
          chunked,   \* documents whose text gave at least one chunk
          pc,        \* where each worker is
          doc,       \* the document each worker is about
          reply,     \* history: what the ingest request was answered
          asked,     \* history: was a delete admitted, and when
          damage     \* history: from where a save cut short took its vectors

vars == <<status, rows, mem, disk, chunked, pc, doc, reply, asked, damage>>
database == <<status, rows>>
store == <<mem, disk, damage>>

-----------------------------------------------------------------------------

Row == {"processing", "ready", "failed"}
Status == Row \cup {"none", "deleted"}

Adding   == {"reread", "load", "persist", "add"}           \* vectors not added yet
Added    == {"commit", "refresh", "saveIndex", "respond"}
Failing  == {"failPurge", "failSave", "failMark"}
Ingest   == Adding \cup Added \cup Failing
Delete   == {"deletePurge", "deleteSave", "deleteRows"}
Saving   == {"saveIndex", "failSave", "deleteSave"}
Step     == Ingest \cup Delete \cup {"idle"}

TypeOK ==
  /\ status \in [Docs -> Status]
  /\ rows \subseteq Docs
  /\ mem \subseteq Docs
  /\ disk \subseteq Docs
  /\ chunked \subseteq Docs
  /\ pc \in [Workers -> Step]
  /\ doc \in [Workers -> Docs \cup {NoDoc}]
  /\ reply \in [Docs -> {"none", "ok", "error"}]
  /\ asked \in [Docs -> {"no", "settled", "racing"}]
  /\ damage \in [Docs -> {"none", "file", "index"}]

Init ==
  /\ status = [d \in Docs |-> "none"]
  /\ rows = {}
  /\ mem = {}
  /\ disk = {}
  /\ chunked = {}
  /\ pc = [w \in Workers |-> "idle"]
  /\ doc = [w \in Workers |-> NoDoc]
  /\ reply = [d \in Docs |-> "none"]
  /\ asked = [d \in Docs |-> "no"]
  /\ damage = [d \in Docs |-> "none"]

-----------------------------------------------------------------------------
(* Moves of a worker, and what it leaves behind. *)

Goto(w, from, to) ==
  /\ pc[w] = from
  /\ pc' = [pc EXCEPT ![w] = to]
  /\ UNCHANGED doc

Return(w, from) ==
  /\ pc[w] = from
  /\ pc' = [pc EXCEPT ![w] = "idle"]
  /\ doc' = [doc EXCEPT ![w] = NoDoc]

Answer(w, outcome) == reply' = [reply EXCEPT ![doc[w]] = outcome]

Exists(d) == status[d] \in Row

\* save() writes the whole in-memory index, whoever's vectors are in it, and
\* so makes good what an earlier save has spoilt in the files.
Saved ==
  /\ disk' = mem
  /\ damage' = [d \in Docs |-> IF damage[d] = "file" THEN "none" ELSE damage[d]]

\* Both files are truncated when they are opened and then written, the index
\* before its ids.  Cut short, they hold ids of before for what there is of an
\* index, or cannot be read; then the next start fails until somebody takes
\* them away.
CutShort ==
  /\ disk' \in SUBSET disk
  /\ damage' = [d \in Docs |-> IF damage[d] = "none" /\ d \in disk \ disk'
                              THEN "file" ELSE damage[d]]

\* The chunk inserts of an open ingest transaction hold a key-share lock on
\* the parent document row, which a DELETE of that row waits for.
RowLocked(d) ==
  \E w \in Workers : pc[w] \in {"add", "commit"} /\ doc[w] = d /\ d \in chunked

-----------------------------------------------------------------------------
(* ingest: POST /rag/documents *)

\* Admission: the upload is READY, the document row is committed as
\* processing.  Rejections (404, 409) and a failing commit change nothing.
BeginIngest(w, d) ==
  /\ pc[w] = "idle"
  /\ status[d] = "none"
  /\ status' = [status EXCEPT ![d] = "processing"]
  /\ pc' = [pc EXCEPT ![w] = "reread"]
  /\ doc' = [doc EXCEPT ![w] = d]
  /\ UNCHANGED <<rows, store, chunked, reply, asked>>

\* The row just committed is read back, still outside the try block: when
\* that raises nothing marks the document, and its request is answered 500.
Reread(w) ==
  /\ \/ /\ Goto(w, "reread", "load")
        /\ Exists(doc[w])
        /\ UNCHANGED reply
     \/ /\ Return(w, "reread")
        /\ ~Exists(doc[w]) \/ "db" \in Faults
        /\ Answer(w, "error")
  /\ UNCHANGED <<database, store, chunked, asked>>

\* Fetch, parse, chunk and embed: any of them may raise on a bad file.
Load(w) ==
  /\ \/ /\ Goto(w, "load", "persist")
        /\ chunked' \in {chunked \cup {doc[w]}, chunked \ {doc[w]}}
     \/ /\ Goto(w, "load", "failPurge")
        /\ UNCHANGED chunked
  /\ UNCHANGED <<database, store, reply, asked>>

\* Open the transaction, read the document again, insert the chunk and
\* embedding rows.  A document deleted meanwhile raises (current is None).
Persist(w) ==
  /\ \/ /\ Goto(w, "persist", "add")
        /\ Exists(doc[w])
     \/ /\ Goto(w, "persist", "failPurge")
        /\ ~Exists(doc[w]) \/ "db" \in Faults
  /\ UNCHANGED <<database, store, chunked, reply, asked>>

\* Vectors enter the shared index before the rows are committed; vectors of
\* the wrong dimension are refused before any of them is added.
AddVectors(w) ==
  /\ \/ /\ Goto(w, "add", "commit")
        /\ mem' = IF doc[w] \in chunked THEN mem \cup {doc[w]} ELSE mem
     \/ /\ doc[w] \in chunked
        /\ Goto(w, "add", "failPurge")
        /\ UNCHANGED mem
  /\ UNCHANGED <<database, disk, damage, chunked, reply, asked>>

\* Mutant: mark_ready is committed in a transaction of its own, first.
CommitReadyFirst(w) ==
  LET d == doc[w] IN
  /\ \/ /\ Goto(w, "commit", "commit")
        /\ status[d] = "processing"
        /\ status' = [status EXCEPT ![d] = "ready"]
        /\ UNCHANGED rows
     \/ /\ Goto(w, "commit", "refresh")
        /\ status[d] = "ready"
        /\ rows' = IF d \in chunked THEN rows \cup {d} ELSE rows
        /\ UNCHANGED status
  /\ UNCHANGED <<store, chunked, reply, asked>>

\* mark_ready and commit: rows and status become visible together.  Without
\* chunk rows nothing locked the document, which may be gone by now.
Commit(w) ==
  LET d == doc[w] IN
  /\ \/ /\ Goto(w, "commit", "refresh")
        /\ Exists(d)
        /\ status' = [status EXCEPT ![d] = "ready"]
        /\ rows' = IF d \in chunked THEN rows \cup {d} ELSE rows
     \/ /\ Goto(w, "commit", "failPurge")
        /\ ~Exists(d) \/ "db" \in Faults
        /\ UNCHANGED database
  /\ UNCHANGED <<store, chunked, reply, asked>>

\* session.refresh after the commit raises when the row is gone.
Refresh(w) ==
  /\ \/ /\ Goto(w, "refresh", "saveIndex")
        /\ Exists(doc[w])
     \/ /\ Goto(w, "refresh", "failPurge")
        /\ ~Exists(doc[w]) \/ "db" \in Faults
  /\ UNCHANGED <<database, store, chunked, reply, asked>>

\* Mutant: an incremental save that writes only the new document.
SaveIndexPartly(w) ==
  /\ Goto(w, "saveIndex", "respond")
  /\ disk' = mem \cap {doc[w]}
  /\ UNCHANGED <<database, mem, damage, chunked, reply, asked>>

\* The save is outside the try block: when it raises, nothing marks the
\* document.
SaveIndex(w) ==
  /\ \/ /\ Goto(w, "saveIndex", "respond")
        /\ Saved
        /\ UNCHANGED reply
     \/ /\ "save" \in Faults
        /\ Return(w, "saveIndex")
        /\ Answer(w, "error")
        /\ CutShort
  /\ UNCHANGED <<database, mem, chunked, asked>>

\* The router reads the document once more to build the reply.
Respond(w) ==
  /\ Return(w, "respond")
  /\ \/ Exists(doc[w]) /\ Answer(w, "ok")
     \/ (~Exists(doc[w]) \/ "db" \in Faults) /\ Answer(w, "error")
  /\ UNCHANGED <<database, store, chunked, asked>>

-----------------------------------------------------------------------------
(* The failure path of ingest: _mark_failed, then the exception goes on. *)

FailPurge(w) ==
  /\ Goto(w, "failPurge", "failSave")
  /\ mem' = mem \ {doc[w]}
  /\ UNCHANGED <<database, disk, damage, chunked, reply, asked>>

\* Mutant: the purge of a failed document is never written.
FailSaveSkipped(w) ==
  /\ Goto(w, "failSave", "failMark")
  /\ UNCHANGED <<database, store, chunked, reply, asked>>

FailSave(w) ==
  /\ \/ /\ Goto(w, "failSave", "failMark")
        /\ Saved
        /\ UNCHANGED reply
     \/ /\ "save" \in Faults
        /\ Return(w, "failSave")
        /\ Answer(w, "error")
        /\ CutShort
  /\ UNCHANGED <<database, mem, chunked, asked>>

\* Mutant: the failed status is flushed but not committed.
FailMarkUncommitted(w) ==
  /\ Return(w, "failMark")
  /\ Answer(w, "error")
  /\ UNCHANGED <<database, store, chunked, asked>>

\* Only a document that still has its row is marked.
FailMark(w) ==
  LET d == doc[w] IN
  /\ Return(w, "failMark")
  /\ Answer(w, "error")
  /\ \/ Exists(d) /\ status' = [status EXCEPT ![d] = "failed"]
     \/ (~Exists(d) \/ "db" \in Faults) /\ UNCHANGED status
  /\ UNCHANGED <<rows, store, chunked, asked>>

-----------------------------------------------------------------------------
(* delete: DELETE /rag/documents/{id}, whatever the document's status *)

Unindexed(d) == \E w \in Workers : pc[w] \in Adding /\ doc[w] = d

BeginDelete(w, d) ==
  /\ pc[w] = "idle"
  /\ Exists(d)
  /\ pc' = [pc EXCEPT ![w] = "deletePurge"]
  /\ doc' = [doc EXCEPT ![w] = d]
  /\ asked' = [asked EXCEPT ![d] = IF Unindexed(d) THEN "racing"
                                   ELSE IF @ = "no" THEN "settled" ELSE @]
  /\ UNCHANGED <<database, store, chunked, reply>>

DeletePurge(w) ==
  /\ Goto(w, "deletePurge", "deleteSave")
  /\ mem' = mem \ {doc[w]}
  /\ UNCHANGED <<database, disk, damage, chunked, reply, asked>>

\* Mutant: the purge is not saved.
DeleteSaveSkipped(w) ==
  /\ Goto(w, "deleteSave", "deleteRows")
  /\ UNCHANGED <<database, store, chunked, reply, asked>>

DeleteSave(w) ==
  /\ \/ /\ Goto(w, "deleteSave", "deleteRows")
        /\ Saved
     \/ /\ "save" \in Faults
        /\ Return(w, "deleteSave")
        /\ CutShort
  /\ UNCHANGED <<database, mem, chunked, reply, asked>>

\* Mutant: the transaction is closed without a commit.
DeleteRowsUncommitted(w) ==
  /\ Return(w, "deleteRows")
  /\ ~RowLocked(doc[w])
  /\ UNCHANGED <<database, store, chunked, reply, asked>>

\* Mutant: no cascade to chunk rows committed after the bulk delete.
DeleteRowsUncascaded(w) ==
  /\ Return(w, "deleteRows")
  /\ ~RowLocked(doc[w])
  /\ status' = [status EXCEPT ![doc[w]] = "deleted"]
  /\ UNCHANGED <<rows, store, chunked, reply, asked>>

\* Chunks, embeddings and the document go in one commit (rows committed by an
\* ingest meanwhile go by ON DELETE CASCADE); deleting a row that another
\* request deleted first is only a warning.
DeleteRows(w) ==
  LET d == doc[w] IN
  /\ Return(w, "deleteRows")
  /\ ~RowLocked(d)
  /\ \/ /\ status' = [status EXCEPT ![d] = "deleted"]
        /\ rows' = rows \ {d}
     \/ /\ "db" \in Faults
        /\ UNCHANGED database
  /\ UNCHANGED <<store, chunked, reply, asked>>

-----------------------------------------------------------------------------

\* The process dies, in the middle of a save or not, and is started again:
\* requests are lost, open transactions roll back, the index is what load
\* finds in the files.
Crash ==
  /\ "crash" \in Faults
  /\ \/ UNCHANGED disk
     \/ (\E w \in Workers : pc[w] \in Saving) /\ disk' \in SUBSET disk
  /\ mem' = disk'
  /\ damage' = [d \in Docs |-> IF damage[d] = "file" \/ d \in disk \ disk'
                              THEN "index" ELSE damage[d]]
  /\ pc' = [w \in Workers |-> "idle"]
  /\ doc' = [w \in Workers |-> NoDoc]
  /\ UNCHANGED <<database, chunked, reply, asked>>

IngestStep(w) ==
  \/ Reread(w) \/ Load(w) \/ Persist(w) \/ AddVectors(w) \/ Commit(w)
  \/ Refresh(w) \/ SaveIndex(w) \/ Respond(w)
  \/ FailPurge(w) \/ FailSave(w) \/ FailMark(w)

DeleteStep(w) == DeletePurge(w) \/ DeleteSave(w) \/ DeleteRows(w)

Serve ==
  \/ \E w \in Workers, d \in Docs : BeginIngest(w, d) \/ BeginDelete(w, d)
  \/ \E w \in Workers : IngestStep(w) \/ DeleteStep(w)

Next == Serve \/ Crash

Spec == Init /\ [][Next]_vars

\* An admitted request is run by its thread until it returns: neither file
\* and database calls nor the row lock are waited for without end.
Fairness == \A w \in Workers : WF_vars(IngestStep(w) \/ DeleteStep(w))

\* While the process stays up.
FairSpec == Init /\ [][Serve]_vars /\ Fairness

-----------------------------------------------------------------------------
(* Safety *)

Busy(d) == \E w \in Workers : pc[w] # "idle" /\ doc[w] = d

\* "failures mark the document failed and leave no orphan vectors": a failed
\* document has no vector in the index nor in the file the next start reads,
\* whatever other threads saved, purged or crashed in between.
FailedLeavesNoVectors == \A d \in Docs : status[d] = "failed" => d \notin mem \cup disk

\* A document deleted after its vectors were added leaves none behind, in
\* memory or on disk, through failing saves, failing commits and restarts.
DeletedLeavesNoVectors ==
  \A d \in Docs : status[d] = "deleted" /\ asked[d] = "settled" => d \notin mem \cup disk

\* Once an ingest was answered 201 and as long as nobody asks for a delete,
\* the document is ready and its chunks survive in rows, index and saved
\* index, however many other requests save, fail or crash.  The one thing
\* that takes its vectors is a save cut short, by whichever request: from the
\* files until the next save, from the index if the process ends before it.
AckedIsDurable ==
  \A d \in Docs : reply[d] = "ok" /\ asked[d] = "no" =>
    /\ status[d] = "ready"
    /\ d \in chunked =>
         /\ d \in rows
         /\ d \in mem \/ damage[d] = "index"
         /\ d \in disk \/ damage[d] # "none"

\* The same without that exception, which the saves do not keep: no document
\* acknowledged is ever lost from the index.
AckedIsNeverLost ==
  \A d \in Docs : reply[d] = "ok" /\ asked[d] = "no" /\ d \in chunked => d \in mem

\* A ready document with chunk rows is found by dense search, unless a
\* delete or its own failure path is taking it away.
ReadyIsSearchable ==
  \A d \in Docs :
    /\ status[d] = "ready" /\ d \in rows /\ asked[d] = "no"
    /\ \A w \in Workers : pc[w] \in Failing => doc[w] # d
    => d \in mem

\* An ingest request that raised left its document failed (or someone
\* deleted it), never processing and never ready.
ErrorMeansFailed == \A d \in Docs : reply[d] = "error" => status[d] \in {"failed", "deleted"}

\* Deleting a document removes its index entries: no vectors remain of a
\* deleted document once no request works on it.
DeleteRemovesVectors ==
  \A d \in Docs : status[d] = "deleted" /\ ~Busy(d) => d \notin mem

-----------------------------------------------------------------------------
(* Liveness *)

\* Every document leaves processing.
IngestSettles == \A d \in Docs : status[d] = "processing" ~> status[d] # "processing"

\* An admitted delete ends with the document gone, although it may have to
\* wait for the row lock of a running ingest.
DeleteTakesEffect ==
  \A w \in Workers, d \in Docs :
    pc[w] = "deletePurge" /\ doc[w] = d ~> status[d] = "deleted"

-----------------------------------------------------------------------------
(* The promise implemented: a chunk is retrieved when its vector is in the *)
(* index and its row is committed (RetrievalService drops other hits).     *)

Promise == INSTANCE DocumentIndex WITH life <- status, retrievable <- mem \cap rows

\* Every step of the threads is a step of DocumentIndex or changes nothing
\* that a client can see.
ImplementsPromise == Promise!Spec
=============================================================================
