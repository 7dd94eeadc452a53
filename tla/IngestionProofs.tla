--------------------------- MODULE IngestionProofs ---------------------------
(***************************************************************************)
(* Theorems about IngestionService, and about the queries and the readings *)
(* that run beside it, for any documents, users, threads and faults.       *)
(* Each holds because of an inductive invariant whose parts say what is    *)
(* true of a worker at each step; the parts are named after that.  What    *)
(* reads beside ingestion changes nothing that ingestion reads, so its     *)
(* theorems hold beside queries and readings too.                          *)
(***************************************************************************)
EXTENDS RetrievalService, DocumentViews, SelectionProofs, FunctionTheorems, TLAPS

\* A busy worker is about a document that has been created.
Busyness ==
  \A w \in Workers : pc[w] # "idle" =>
    /\ doc[w] \in Docs
    /\ status[doc[w]] # "none"

\* One ingest per document, and none once its request was answered or its
\* document marked failed.
SoleIngest ==
  /\ \A v, w \in Workers :
       pc[v] \in Ingest /\ pc[w] \in Ingest /\ doc[v] = doc[w] => v = w
  /\ \A w \in Workers : pc[w] \in Ingest =>
       /\ reply[doc[w]] = "none"
       /\ status[doc[w]] # "failed"

\* Documents not created yet were never asked to go or answered about.
Untouched ==
  \A d \in Docs : status[d] = "none" => asked[d] = "no" /\ reply[d] = "none"

\* The failure path has purged before it saves, and saved before it marks.
FailedPurged ==
  \A w \in Workers :
    /\ pc[w] = "failSave" => doc[w] \notin mem
    /\ pc[w] = "failMark" => doc[w] \notin mem \cup disk

\* The same of a delete, unless an ingest was still to add vectors.
DeletePurged ==
  \A w \in Workers :
    /\ pc[w] \in Delete => asked[doc[w]] # "no"
    /\ pc[w] \in Adding => asked[doc[w]] # "settled"
    /\ pc[w] = "deleteSave" /\ asked[doc[w]] = "settled" => doc[w] \notin mem
    /\ pc[w] = "deleteRows" /\ asked[doc[w]] = "settled" => doc[w] \notin mem \cup disk

\* What a successful ingest has achieved at each of its last steps.
Achieved ==
  \A w \in Workers : pc[w] \in Added /\ asked[doc[w]] = "no" =>
    /\ doc[w] \in chunked => doc[w] \in mem
    /\ pc[w] # "commit" =>
         /\ status[doc[w]] = "ready"
         /\ doc[w] \in chunked => doc[w] \in rows
    /\ pc[w] = "respond" /\ doc[w] \in chunked =>
         doc[w] \in disk \/ damage[doc[w]] # "none"

-----------------------------------------------------------------------------
(* Type correctness *)

WellFormed == TypeOK /\ Busyness /\ SoleIngest /\ Untouched

\* The bookkeeping every other proof starts from.
LEMMA WellFormedness == Spec => []WellFormed
<1> USE DEF WellFormed, TypeOK, Busyness, SoleIngest, Untouched, Status, Row,
            Step, Ingest, Adding, Added, Failing, Delete, database, store
<1>1. Init => WellFormed
  BY DEF Init
<1>2. WellFormed /\ [Next]_vars => WellFormed'
  <2> SUFFICES ASSUME WellFormed, [Next]_vars PROVE WellFormed'
    OBVIOUS
  <2>1. ASSUME NEW w \in Workers, NEW d \in Docs, BeginIngest(w, d) PROVE WellFormed'
    BY <2>1 DEF BeginIngest
  <2>2. ASSUME NEW w \in Workers, NEW d \in Docs, BeginDelete(w, d) PROVE WellFormed'
    BY <2>2 DEF BeginDelete, Exists, Row, Unindexed
  <2>3. ASSUME NEW w \in Workers, Load(w) PROVE WellFormed'
    BY <2>3 DEF Load, Goto
  <2>4. ASSUME NEW w \in Workers, Persist(w) PROVE WellFormed'
    BY <2>4 DEF Persist, Goto
  <2>5. ASSUME NEW w \in Workers, AddVectors(w) PROVE WellFormed'
    BY <2>5 DEF AddVectors, Goto
  <2>6. ASSUME NEW w \in Workers, Commit(w) PROVE WellFormed'
    BY <2>6 DEF Commit, Goto, Exists, Row
  <2>7. ASSUME NEW w \in Workers, Refresh(w) PROVE WellFormed'
    BY <2>7 DEF Refresh, Goto, Exists, Row
  <2>8. ASSUME NEW w \in Workers, SaveIndex(w) PROVE WellFormed'
    BY <2>8 DEF SaveIndex, Return, Goto, Answer, Saved, CutShort
  <2>9. ASSUME NEW w \in Workers, Respond(w) PROVE WellFormed'
    BY <2>9 DEF Respond, Return, Answer, Exists, Row
  <2>10. ASSUME NEW w \in Workers, FailPurge(w) PROVE WellFormed'
    BY <2>10 DEF FailPurge, Goto
  <2>11. ASSUME NEW w \in Workers, FailSave(w) PROVE WellFormed'
    BY <2>11 DEF FailSave, Return, Goto, Answer, Saved, CutShort
  <2>12. ASSUME NEW w \in Workers, FailMark(w) PROVE WellFormed'
    BY <2>12 DEF FailMark, Return, Answer, Exists, Row
  <2>13. ASSUME NEW w \in Workers, DeletePurge(w) PROVE WellFormed'
    BY <2>13 DEF DeletePurge, Goto
  <2>14. ASSUME NEW w \in Workers, DeleteSave(w) PROVE WellFormed'
    BY <2>14 DEF DeleteSave, Return, Goto, Saved, CutShort
  <2>15. ASSUME NEW w \in Workers, DeleteRows(w) PROVE WellFormed'
    BY <2>15 DEF DeleteRows, Return
  <2>16. ASSUME Crash PROVE WellFormed'
    BY <2>16 DEF Crash
  <2>17. CASE UNCHANGED vars
    BY <2>17 DEF vars
  <2>18. ASSUME NEW w \in Workers, Reread(w) PROVE WellFormed'
    BY <2>18 DEF Reread, Goto, Return, Answer, Exists, Row
  <2> QED
    BY <2>1, <2>2, <2>3, <2>4, <2>5, <2>6, <2>7, <2>8, <2>9, <2>10,
       <2>11, <2>12, <2>13, <2>14, <2>15, <2>16, <2>17, <2>18
       DEF Next, Serve, IngestStep, DeleteStep
<1> QED
  BY <1>1, <1>2, PTL DEF Spec

\* Whatever the threads and the faults do, the variables stay in their types.
THEOREM TypeCorrect == Spec => []TypeOK
  BY WellFormedness, PTL DEF WellFormed
-----------------------------------------------------------------------------
(* A failed document has no vectors *)

FailedInv == FailedPurged /\ FailedLeavesNoVectors

LEMMA FailureInductive == Spec => []FailedInv
<1> USE DEF WellFormed, Busyness, SoleIngest, Untouched, FailedInv,
            FailedPurged, FailedLeavesNoVectors,
            TypeOK, Status, Row,
            Step, Ingest, Adding, Added, Failing, Delete, database, store
<1>1. Init => FailedInv
  BY DEF Init
<1>2. WellFormed /\ WellFormed' /\ FailedInv /\ [Next]_vars => FailedInv'
  <2> SUFFICES ASSUME WellFormed, WellFormed', FailedInv, [Next]_vars PROVE FailedInv'
    OBVIOUS
  <2>1. ASSUME NEW w \in Workers, NEW d \in Docs, BeginIngest(w, d) PROVE FailedInv'
    BY <2>1 DEF BeginIngest
  <2>2. ASSUME NEW w \in Workers, NEW d \in Docs, BeginDelete(w, d) PROVE FailedInv'
    BY <2>2 DEF BeginDelete, Exists, Row, Unindexed
  <2>3. ASSUME NEW w \in Workers, Load(w) PROVE FailedInv'
    BY <2>3 DEF Load, Goto
  <2>4. ASSUME NEW w \in Workers, Persist(w) PROVE FailedInv'
    BY <2>4 DEF Persist, Goto
  <2>5. ASSUME NEW w \in Workers, AddVectors(w) PROVE FailedInv'
    BY <2>5 DEF AddVectors, Goto
  <2>6. ASSUME NEW w \in Workers, Commit(w) PROVE FailedInv'
    BY <2>6 DEF Commit, Goto, Exists, Row
  <2>7. ASSUME NEW w \in Workers, Refresh(w) PROVE FailedInv'
    BY <2>7 DEF Refresh, Goto, Exists, Row
  <2>8. ASSUME NEW w \in Workers, SaveIndex(w) PROVE FailedInv'
    BY <2>8 DEF SaveIndex, Return, Goto, Answer, Saved, CutShort
  <2>9. ASSUME NEW w \in Workers, Respond(w) PROVE FailedInv'
    BY <2>9 DEF Respond, Return, Answer, Exists, Row
  <2>10. ASSUME NEW w \in Workers, FailPurge(w) PROVE FailedInv'
    BY <2>10 DEF FailPurge, Goto
  <2>11. ASSUME NEW w \in Workers, FailSave(w) PROVE FailedInv'
    BY <2>11 DEF FailSave, Return, Goto, Answer, Saved, CutShort
  <2>12. ASSUME NEW w \in Workers, FailMark(w) PROVE FailedInv'
    BY <2>12 DEF FailMark, Return, Answer, Exists, Row
  <2>13. ASSUME NEW w \in Workers, DeletePurge(w) PROVE FailedInv'
    BY <2>13 DEF DeletePurge, Goto
  <2>14. ASSUME NEW w \in Workers, DeleteSave(w) PROVE FailedInv'
    BY <2>14 DEF DeleteSave, Return, Goto, Saved, CutShort
  <2>15. ASSUME NEW w \in Workers, DeleteRows(w) PROVE FailedInv'
    BY <2>15 DEF DeleteRows, Return
  <2>16. ASSUME Crash PROVE FailedInv'
    BY <2>16 DEF Crash
  <2>17. CASE UNCHANGED vars
    BY <2>17 DEF vars
  <2>18. ASSUME NEW w \in Workers, Reread(w) PROVE FailedInv'
    BY <2>18 DEF Reread, Goto, Return, Answer, Exists, Row
  <2> QED
    BY <2>1, <2>2, <2>3, <2>4, <2>5, <2>6, <2>7, <2>8, <2>9, <2>10,
       <2>11, <2>12, <2>13, <2>14, <2>15, <2>16, <2>17, <2>18
       DEF Next, Serve, IngestStep, DeleteStep
<1> QED
  BY <1>1, <1>2, WellFormedness, PTL DEF Spec

\* A document reported failed has no vector in memory or on disk.  Inductive
\* together with what the failure path has done before it marks the document;
\* nobody else adds vectors of that document (SoleIngest).
THEOREM FailureLeavesNoVectors == Spec => []FailedLeavesNoVectors
  BY FailureInductive, PTL DEF FailedInv

-----------------------------------------------------------------------------
(* A deleted document has no vectors *)

DeletedInv == DeletePurged /\ DeletedLeavesNoVectors

\* A document deleted after its vectors were added has none left.
THEOREM DeletionLeavesNoVectors == Spec => []DeletedLeavesNoVectors
<1> USE DEF WellFormed, Busyness, SoleIngest, Untouched, DeletedInv,
            DeletePurged, DeletedLeavesNoVectors,
            TypeOK, Status, Row,
            Step, Ingest, Adding, Added, Failing, Delete, database, store
<1>1. Init => DeletedInv
  BY DEF Init
<1>2. WellFormed /\ WellFormed' /\ DeletedInv /\ [Next]_vars => DeletedInv'
  <2> SUFFICES ASSUME WellFormed, WellFormed', DeletedInv, [Next]_vars PROVE DeletedInv'
    OBVIOUS
  <2>1. ASSUME NEW w \in Workers, NEW d \in Docs, BeginIngest(w, d) PROVE DeletedInv'
    BY <2>1 DEF BeginIngest
  <2>2. ASSUME NEW w \in Workers, NEW d \in Docs, BeginDelete(w, d) PROVE DeletedInv'
    BY <2>2 DEF BeginDelete, Exists, Row, Unindexed
  <2>3. ASSUME NEW w \in Workers, Load(w) PROVE DeletedInv'
    BY <2>3 DEF Load, Goto
  <2>4. ASSUME NEW w \in Workers, Persist(w) PROVE DeletedInv'
    BY <2>4 DEF Persist, Goto
  <2>5. ASSUME NEW w \in Workers, AddVectors(w) PROVE DeletedInv'
    BY <2>5 DEF AddVectors, Goto
  <2>6. ASSUME NEW w \in Workers, Commit(w) PROVE DeletedInv'
    BY <2>6 DEF Commit, Goto, Exists, Row
  <2>7. ASSUME NEW w \in Workers, Refresh(w) PROVE DeletedInv'
    BY <2>7 DEF Refresh, Goto, Exists, Row
  <2>8. ASSUME NEW w \in Workers, SaveIndex(w) PROVE DeletedInv'
    BY <2>8 DEF SaveIndex, Return, Goto, Answer, Saved, CutShort
  <2>9. ASSUME NEW w \in Workers, Respond(w) PROVE DeletedInv'
    BY <2>9 DEF Respond, Return, Answer, Exists, Row
  <2>10. ASSUME NEW w \in Workers, FailPurge(w) PROVE DeletedInv'
    BY <2>10 DEF FailPurge, Goto
  <2>11. ASSUME NEW w \in Workers, FailSave(w) PROVE DeletedInv'
    BY <2>11 DEF FailSave, Return, Goto, Answer, Saved, CutShort
  <2>12. ASSUME NEW w \in Workers, FailMark(w) PROVE DeletedInv'
    BY <2>12 DEF FailMark, Return, Answer, Exists, Row
  <2>13. ASSUME NEW w \in Workers, DeletePurge(w) PROVE DeletedInv'
    BY <2>13 DEF DeletePurge, Goto
  <2>14. ASSUME NEW w \in Workers, DeleteSave(w) PROVE DeletedInv'
    BY <2>14 DEF DeleteSave, Return, Goto, Saved, CutShort
  <2>15. ASSUME NEW w \in Workers, DeleteRows(w) PROVE DeletedInv'
    BY <2>15 DEF DeleteRows, Return
  <2>16. ASSUME Crash PROVE DeletedInv'
    BY <2>16 DEF Crash
  <2>17. CASE UNCHANGED vars
    BY <2>17 DEF vars
  <2>18. ASSUME NEW w \in Workers, Reread(w) PROVE DeletedInv'
    BY <2>18 DEF Reread, Goto, Return, Answer, Exists, Row
  <2> QED
    BY <2>1, <2>2, <2>3, <2>4, <2>5, <2>6, <2>7, <2>8, <2>9, <2>10,
       <2>11, <2>12, <2>13, <2>14, <2>15, <2>16, <2>17, <2>18
       DEF Next, Serve, IngestStep, DeleteStep
<1>3. DeletedInv => DeletedLeavesNoVectors
  OBVIOUS
<1> QED
  BY <1>1, <1>2, <1>3, WellFormedness, PTL DEF Spec
-----------------------------------------------------------------------------
(* An acknowledged document is durable *)

AckedInv == DeletePurged /\ Achieved /\ AckedIsDurable

LEMMA AckedInductive == Spec => []AckedInv
<1> USE DEF WellFormed, Busyness, SoleIngest, Untouched, AckedInv,
            DeletePurged, Achieved, AckedIsDurable,
            TypeOK, Status, Row,
            Step, Ingest, Adding, Added, Failing, Delete, database, store
<1>1. Init => AckedInv
  BY DEF Init
<1>2. WellFormed /\ WellFormed' /\ AckedInv /\ [Next]_vars => AckedInv'
  <2> SUFFICES ASSUME WellFormed, WellFormed', AckedInv, [Next]_vars PROVE AckedInv'
    OBVIOUS
  <2>a. ASSUME Saved PROVE \A d \in Docs :
          /\ damage[d] = "index" <=> damage'[d] = "index"
          /\ d \in disk' <=> d \in mem
    BY <2>a DEF Saved
  <2>b. ASSUME CutShort PROVE \A d \in Docs :
          /\ damage[d] = "index" <=> damage'[d] = "index"
          /\ d \in disk' \/ d \notin disk \/ damage'[d] # "none"
          /\ damage[d] # "none" => damage'[d] # "none"
    BY <2>b DEF CutShort
  <2>1. ASSUME NEW w \in Workers, NEW d \in Docs, BeginIngest(w, d) PROVE AckedInv'
    BY <2>1 DEF BeginIngest
  <2>2. ASSUME NEW w \in Workers, NEW d \in Docs, BeginDelete(w, d) PROVE AckedInv'
    BY <2>2 DEF BeginDelete, Exists, Row, Unindexed
  <2>3. ASSUME NEW w \in Workers, Load(w) PROVE AckedInv'
    BY <2>3 DEF Load, Goto
  <2>4. ASSUME NEW w \in Workers, Persist(w) PROVE AckedInv'
    BY <2>4 DEF Persist, Goto
  <2>5. ASSUME NEW w \in Workers, AddVectors(w) PROVE AckedInv'
    BY <2>5 DEF AddVectors, Goto
  <2>6. ASSUME NEW w \in Workers, Commit(w) PROVE AckedInv'
    BY <2>6 DEF Commit, Goto, Exists, Row
  <2>7. ASSUME NEW w \in Workers, Refresh(w) PROVE AckedInv'
    BY <2>7 DEF Refresh, Goto, Exists, Row
  <2>8. ASSUME NEW w \in Workers, SaveIndex(w) PROVE AckedInv'
    <3>1. DeletePurged'
      BY <2>8 DEF SaveIndex, Return, Goto, Answer, Saved, CutShort
    <3>2. Achieved'
      BY <2>8, <2>a, <2>b DEF SaveIndex, Return, Goto, Answer
    <3>3. AckedIsDurable'
      BY <2>8, <2>a, <2>b DEF SaveIndex, Return, Goto, Answer
    <3>4. QED
      BY <3>1, <3>2, <3>3
  <2>9. ASSUME NEW w \in Workers, Respond(w) PROVE AckedInv'
    BY <2>9 DEF Respond, Return, Answer, Exists, Row
  <2>10. ASSUME NEW w \in Workers, FailPurge(w) PROVE AckedInv'
    BY <2>10 DEF FailPurge, Goto
  <2>11. ASSUME NEW w \in Workers, FailSave(w) PROVE AckedInv'
    <3>1. DeletePurged'
      BY <2>11 DEF FailSave, Return, Goto, Answer, Saved, CutShort
    <3>2. Achieved'
      BY <2>11, <2>a, <2>b DEF FailSave, Return, Goto, Answer
    <3>3. AckedIsDurable'
      BY <2>11, <2>a, <2>b DEF FailSave, Return, Goto, Answer
    <3>4. QED
      BY <3>1, <3>2, <3>3
  <2>12. ASSUME NEW w \in Workers, FailMark(w) PROVE AckedInv'
    BY <2>12 DEF FailMark, Return, Answer, Exists, Row
  <2>13. ASSUME NEW w \in Workers, DeletePurge(w) PROVE AckedInv'
    BY <2>13 DEF DeletePurge, Goto
  <2>14. ASSUME NEW w \in Workers, DeleteSave(w) PROVE AckedInv'
    <3>1. DeletePurged'
      BY <2>14 DEF DeleteSave, Return, Goto, Saved, CutShort
    <3>2. Achieved'
      BY <2>14, <2>a, <2>b DEF DeleteSave, Return, Goto
    <3>3. AckedIsDurable'
      BY <2>14, <2>a, <2>b DEF DeleteSave, Return, Goto
    <3>4. QED
      BY <3>1, <3>2, <3>3
  <2>15. ASSUME NEW w \in Workers, DeleteRows(w) PROVE AckedInv'
    BY <2>15 DEF DeleteRows, Return
  <2>16. ASSUME Crash PROVE AckedInv'
    BY <2>16 DEF Crash
  <2>17. CASE UNCHANGED vars
    BY <2>17 DEF vars
  <2>18. ASSUME NEW w \in Workers, Reread(w) PROVE AckedInv'
    BY <2>18 DEF Reread, Goto, Return, Answer, Exists, Row
  <2> QED
    BY <2>1, <2>2, <2>3, <2>4, <2>5, <2>6, <2>7, <2>8, <2>9, <2>10,
       <2>11, <2>12, <2>13, <2>14, <2>15, <2>16, <2>17, <2>18
       DEF Next, Serve, IngestStep, DeleteStep
<1> QED
  BY <1>1, <1>2, WellFormedness, PTL DEF Spec

\* What an ingest was acknowledged for survives crashes, failing saves and
\* every other request, until a delete is asked for; only a save cut short
\* takes vectors away, from the files until the next one is completed, and from
\* the index if the process ends before that.
THEOREM AcknowledgedIsDurable == Spec => []AckedIsDurable
  BY AckedInductive, PTL DEF AckedInv

-----------------------------------------------------------------------------
(* The promise is kept while the process stays up *)

Unpublished ==
  /\ \A w \in Workers : pc[w] \in Adding \cup {"commit"} =>
       status[doc[w]] \in {"processing", "deleted"}
  /\ \A d \in Docs : status[d] # "ready" /\ status[d] # "failed" => d \notin rows

\* Chunk rows are visible of ready and failed documents only.
LEMMA RowsArePublished == Spec => []Unpublished
<1> USE DEF WellFormed, Busyness, SoleIngest, Untouched, Unpublished,
            TypeOK, Status, Row,
            Step, Ingest, Adding, Added, Failing, Delete, database, store
<1>1. Init => Unpublished
  BY DEF Init
<1>2. WellFormed /\ Unpublished /\ [Next]_vars => Unpublished'
  <2> SUFFICES ASSUME WellFormed, Unpublished, [Next]_vars PROVE Unpublished'
    OBVIOUS
  <2>1. ASSUME NEW w \in Workers, NEW d \in Docs, BeginIngest(w, d) PROVE Unpublished'
    BY <2>1 DEF BeginIngest
  <2>2. ASSUME NEW w \in Workers, NEW d \in Docs, BeginDelete(w, d) PROVE Unpublished'
    BY <2>2 DEF BeginDelete, Exists, Row, Unindexed
  <2>3. ASSUME NEW w \in Workers, Load(w) PROVE Unpublished'
    BY <2>3 DEF Load, Goto
  <2>4. ASSUME NEW w \in Workers, Persist(w) PROVE Unpublished'
    BY <2>4 DEF Persist, Goto
  <2>5. ASSUME NEW w \in Workers, AddVectors(w) PROVE Unpublished'
    BY <2>5 DEF AddVectors, Goto
  <2>6. ASSUME NEW w \in Workers, Commit(w) PROVE Unpublished'
    BY <2>6 DEF Commit, Goto, Exists, Row
  <2>7. ASSUME NEW w \in Workers, Refresh(w) PROVE Unpublished'
    BY <2>7 DEF Refresh, Goto, Exists, Row
  <2>8. ASSUME NEW w \in Workers, SaveIndex(w) PROVE Unpublished'
    BY <2>8 DEF SaveIndex, Return, Goto, Answer, Saved, CutShort
  <2>9. ASSUME NEW w \in Workers, Respond(w) PROVE Unpublished'
    BY <2>9 DEF Respond, Return, Answer, Exists, Row
  <2>10. ASSUME NEW w \in Workers, FailPurge(w) PROVE Unpublished'
    BY <2>10 DEF FailPurge, Goto
  <2>11. ASSUME NEW w \in Workers, FailSave(w) PROVE Unpublished'
    BY <2>11 DEF FailSave, Return, Goto, Answer, Saved, CutShort
  <2>12. ASSUME NEW w \in Workers, FailMark(w) PROVE Unpublished'
    BY <2>12 DEF FailMark, Return, Answer, Exists, Row
  <2>13. ASSUME NEW w \in Workers, DeletePurge(w) PROVE Unpublished'
    BY <2>13 DEF DeletePurge, Goto
  <2>14. ASSUME NEW w \in Workers, DeleteSave(w) PROVE Unpublished'
    BY <2>14 DEF DeleteSave, Return, Goto, Saved, CutShort
  <2>15. ASSUME NEW w \in Workers, DeleteRows(w) PROVE Unpublished'
    BY <2>15 DEF DeleteRows, Return
  <2>16. ASSUME Crash PROVE Unpublished'
    BY <2>16 DEF Crash
  <2>17. CASE UNCHANGED vars
    BY <2>17 DEF vars
  <2>18. ASSUME NEW w \in Workers, Reread(w) PROVE Unpublished'
    BY <2>18 DEF Reread, Goto, Return, Answer, Exists, Row
  <2> QED
    BY <2>1, <2>2, <2>3, <2>4, <2>5, <2>6, <2>7, <2>8, <2>9, <2>10,
       <2>11, <2>12, <2>13, <2>14, <2>15, <2>16, <2>17, <2>18
       DEF Next, Serve, IngestStep, DeleteStep
<1> QED
  BY <1>1, <1>2, WellFormedness, PTL DEF Spec

\* No restart, whatever else fails: every step of the threads is a step of
\* DocumentIndex, or invisible to clients.
THEOREM PromiseKept ==
  ASSUME "crash" \notin Faults
  PROVE  Spec => ImplementsPromise
<1> DEFINE Kept == Promise!Next \/ UNCHANGED Promise!vars
<1> USE DEF WellFormed, Busyness, SoleIngest, Untouched, Unpublished,
            FailedInv, FailedPurged, Promise!Next, Promise!vars,
            Promise!Start, Promise!Publish, Promise!Withdraw, Promise!Fail, Promise!Remove,
            TypeOK, Status, Row,
            Step, Ingest, Adding, Added, Failing, Delete, database, store
<1>1. Init => Promise!Init
  BY DEF Init, Promise!Init
<1>2. WellFormed /\ Unpublished /\ FailedInv /\ [Next]_vars => [Promise!Next]_Promise!vars
  <2> SUFFICES ASSUME WellFormed, Unpublished, FailedInv, [Next]_vars PROVE Kept
    OBVIOUS
  <2>1. ASSUME NEW w \in Workers, NEW d \in Docs, BeginIngest(w, d) PROVE Kept
    BY <2>1 DEF BeginIngest
  <2>2. ASSUME NEW w \in Workers, NEW d \in Docs, BeginDelete(w, d) PROVE Kept
    BY <2>2 DEF BeginDelete, Exists, Row, Unindexed
  <2>3. ASSUME NEW w \in Workers, Load(w) PROVE Kept
    BY <2>3 DEF Load, Goto
  <2>4. ASSUME NEW w \in Workers, Persist(w) PROVE Kept
    BY <2>4 DEF Persist, Goto
  <2>5. ASSUME NEW w \in Workers, AddVectors(w) PROVE Kept
    BY <2>5 DEF AddVectors, Goto
  <2>6. ASSUME NEW w \in Workers, Commit(w) PROVE Kept
    BY <2>6 DEF Commit, Goto, Exists, Row
  <2>7. ASSUME NEW w \in Workers, Refresh(w) PROVE Kept
    BY <2>7 DEF Refresh, Goto, Exists, Row
  <2>8. ASSUME NEW w \in Workers, SaveIndex(w) PROVE Kept
    BY <2>8 DEF SaveIndex, Return, Goto, Answer, Saved, CutShort
  <2>9. ASSUME NEW w \in Workers, Respond(w) PROVE Kept
    BY <2>9 DEF Respond, Return, Answer, Exists, Row
  <2>10. ASSUME NEW w \in Workers, FailPurge(w) PROVE Kept
    BY <2>10 DEF FailPurge, Goto
  <2>11. ASSUME NEW w \in Workers, FailSave(w) PROVE Kept
    BY <2>11 DEF FailSave, Return, Goto, Answer, Saved, CutShort
  <2>12. ASSUME NEW w \in Workers, FailMark(w) PROVE Kept
    BY <2>12 DEF FailMark, Return, Answer, Exists, Row
  <2>13. ASSUME NEW w \in Workers, DeletePurge(w) PROVE Kept
    BY <2>13 DEF DeletePurge, Goto
  <2>14. ASSUME NEW w \in Workers, DeleteSave(w) PROVE Kept
    BY <2>14 DEF DeleteSave, Return, Goto, Saved, CutShort
  <2>15. ASSUME NEW w \in Workers, DeleteRows(w) PROVE Kept
    BY <2>15 DEF DeleteRows, Return
  <2>16. ASSUME Crash PROVE Kept
    BY <2>16 DEF Crash
  <2>17. CASE UNCHANGED vars
    BY <2>17 DEF vars
  <2>18. ASSUME NEW w \in Workers, Reread(w) PROVE Kept
    BY <2>18 DEF Reread, Goto, Return, Answer, Exists, Row
  <2> QED
    BY <2>1, <2>2, <2>3, <2>4, <2>5, <2>6, <2>7, <2>8, <2>9, <2>10,
       <2>11, <2>12, <2>13, <2>14, <2>15, <2>16, <2>17, <2>18
       DEF Next, Serve, IngestStep, DeleteStep
<1> QED
  BY <1>1, <1>2, WellFormedness, RowsArePublished, FailureInductive, PTL
     DEF Spec, ImplementsPromise, Promise!Spec

-----------------------------------------------------------------------------
(* Errors and searches when nothing fails from outside *)

\* Without injected faults, a request that raised leaves its document failed
\* or finds it deleted: every path to an error passes by mark_failed or a
\* missing row.
THEOREM ErrorIsFailure ==
  ASSUME Faults = {}
  PROVE  Spec => []ErrorMeansFailed
<1> USE DEF WellFormed, Busyness, SoleIngest, Untouched, ErrorMeansFailed,
            TypeOK, Status, Row,
            Step, Ingest, Adding, Added, Failing, Delete, database, store
<1>1. Init => ErrorMeansFailed
  BY DEF Init
<1>2. WellFormed /\ ErrorMeansFailed /\ [Next]_vars => ErrorMeansFailed'
  <2> SUFFICES ASSUME WellFormed, ErrorMeansFailed, [Next]_vars PROVE ErrorMeansFailed'
    OBVIOUS
  <2>1. ASSUME NEW w \in Workers, NEW d \in Docs, BeginIngest(w, d) PROVE ErrorMeansFailed'
    BY <2>1 DEF BeginIngest
  <2>2. ASSUME NEW w \in Workers, NEW d \in Docs, BeginDelete(w, d) PROVE ErrorMeansFailed'
    BY <2>2 DEF BeginDelete, Exists, Row, Unindexed
  <2>3. ASSUME NEW w \in Workers, Load(w) PROVE ErrorMeansFailed'
    BY <2>3 DEF Load, Goto
  <2>4. ASSUME NEW w \in Workers, Persist(w) PROVE ErrorMeansFailed'
    BY <2>4 DEF Persist, Goto
  <2>5. ASSUME NEW w \in Workers, AddVectors(w) PROVE ErrorMeansFailed'
    BY <2>5 DEF AddVectors, Goto
  <2>6. ASSUME NEW w \in Workers, Commit(w) PROVE ErrorMeansFailed'
    BY <2>6 DEF Commit, Goto, Exists, Row
  <2>7. ASSUME NEW w \in Workers, Refresh(w) PROVE ErrorMeansFailed'
    BY <2>7 DEF Refresh, Goto, Exists, Row
  <2>8. ASSUME NEW w \in Workers, SaveIndex(w) PROVE ErrorMeansFailed'
    BY <2>8 DEF SaveIndex, Return, Goto, Answer, Saved, CutShort
  <2>9. ASSUME NEW w \in Workers, Respond(w) PROVE ErrorMeansFailed'
    BY <2>9 DEF Respond, Return, Answer, Exists, Row
  <2>10. ASSUME NEW w \in Workers, FailPurge(w) PROVE ErrorMeansFailed'
    BY <2>10 DEF FailPurge, Goto
  <2>11. ASSUME NEW w \in Workers, FailSave(w) PROVE ErrorMeansFailed'
    BY <2>11 DEF FailSave, Return, Goto, Answer, Saved, CutShort
  <2>12. ASSUME NEW w \in Workers, FailMark(w) PROVE ErrorMeansFailed'
    BY <2>12 DEF FailMark, Return, Answer, Exists, Row
  <2>13. ASSUME NEW w \in Workers, DeletePurge(w) PROVE ErrorMeansFailed'
    BY <2>13 DEF DeletePurge, Goto
  <2>14. ASSUME NEW w \in Workers, DeleteSave(w) PROVE ErrorMeansFailed'
    BY <2>14 DEF DeleteSave, Return, Goto, Saved, CutShort
  <2>15. ASSUME NEW w \in Workers, DeleteRows(w) PROVE ErrorMeansFailed'
    BY <2>15 DEF DeleteRows, Return
  <2>16. ASSUME Crash PROVE ErrorMeansFailed'
    BY <2>16 DEF Crash
  <2>17. CASE UNCHANGED vars
    BY <2>17 DEF vars
  <2>18. ASSUME NEW w \in Workers, Reread(w) PROVE ErrorMeansFailed'
    BY <2>18 DEF Reread, Goto, Return, Answer, Exists, Row
  <2> QED
    BY <2>1, <2>2, <2>3, <2>4, <2>5, <2>6, <2>7, <2>8, <2>9, <2>10,
       <2>11, <2>12, <2>13, <2>14, <2>15, <2>16, <2>17, <2>18
       DEF Next, Serve, IngestStep, DeleteStep
<1> QED
  BY <1>1, <1>2, WellFormedness, PTL DEF Spec

\* A document in processing has a request thread at work on it that has not
\* come to the statement that takes it out: mark_ready's commit, or mark_failed.
ProcessingHasAThread ==
  \A d \in Docs : status[d] = "processing" =>
    \E w \in Workers : doc[w] = d /\ pc[w] \in Adding \cup {"commit"} \cup Failing

\* Without injected faults no document is left in processing behind the last
\* thread that could take it out, whichever requests delete or fail meanwhile:
\* the half of IngestSettles that does not depend on threads being run.
THEOREM ProcessingIsTended ==
  ASSUME Faults = {}
  PROVE  Spec => []ProcessingHasAThread
<1> USE DEF WellFormed, Busyness, SoleIngest, Untouched, ProcessingHasAThread,
            TypeOK, Status, Row,
            Step, Ingest, Adding, Added, Failing, Delete, database, store
<1>1. Init => ProcessingHasAThread
  BY DEF Init
<1>2. WellFormed /\ ProcessingHasAThread /\ [Next]_vars => ProcessingHasAThread'
  <2> SUFFICES ASSUME WellFormed, ProcessingHasAThread, [Next]_vars PROVE ProcessingHasAThread'
    OBVIOUS
  <2>1. ASSUME NEW w \in Workers, NEW d \in Docs, BeginIngest(w, d) PROVE ProcessingHasAThread'
    BY <2>1 DEF BeginIngest
  <2>2. ASSUME NEW w \in Workers, NEW d \in Docs, BeginDelete(w, d) PROVE ProcessingHasAThread'
    BY <2>2 DEF BeginDelete, Exists, Row, Unindexed
  <2>3. ASSUME NEW w \in Workers, Load(w) PROVE ProcessingHasAThread'
    BY <2>3 DEF Load, Goto
  <2>4. ASSUME NEW w \in Workers, Persist(w) PROVE ProcessingHasAThread'
    BY <2>4 DEF Persist, Goto
  <2>5. ASSUME NEW w \in Workers, AddVectors(w) PROVE ProcessingHasAThread'
    BY <2>5 DEF AddVectors, Goto
  <2>6. ASSUME NEW w \in Workers, Commit(w) PROVE ProcessingHasAThread'
    BY <2>6 DEF Commit, Goto, Exists, Row
  <2>7. ASSUME NEW w \in Workers, Refresh(w) PROVE ProcessingHasAThread'
    BY <2>7 DEF Refresh, Goto, Exists, Row
  <2>8. ASSUME NEW w \in Workers, SaveIndex(w) PROVE ProcessingHasAThread'
    BY <2>8 DEF SaveIndex, Return, Goto, Answer, Saved, CutShort
  <2>9. ASSUME NEW w \in Workers, Respond(w) PROVE ProcessingHasAThread'
    BY <2>9 DEF Respond, Return, Answer, Exists, Row
  <2>10. ASSUME NEW w \in Workers, FailPurge(w) PROVE ProcessingHasAThread'
    BY <2>10 DEF FailPurge, Goto
  <2>11. ASSUME NEW w \in Workers, FailSave(w) PROVE ProcessingHasAThread'
    BY <2>11 DEF FailSave, Return, Goto, Answer, Saved, CutShort
  <2>12. ASSUME NEW w \in Workers, FailMark(w) PROVE ProcessingHasAThread'
    BY <2>12 DEF FailMark, Return, Answer, Exists, Row
  <2>13. ASSUME NEW w \in Workers, DeletePurge(w) PROVE ProcessingHasAThread'
    BY <2>13 DEF DeletePurge, Goto
  <2>14. ASSUME NEW w \in Workers, DeleteSave(w) PROVE ProcessingHasAThread'
    BY <2>14 DEF DeleteSave, Return, Goto, Saved, CutShort
  <2>15. ASSUME NEW w \in Workers, DeleteRows(w) PROVE ProcessingHasAThread'
    BY <2>15 DEF DeleteRows, Return
  <2>16. ASSUME Crash PROVE ProcessingHasAThread'
    BY <2>16 DEF Crash
  <2>17. CASE UNCHANGED vars
    BY <2>17 DEF vars
  <2>18. ASSUME NEW w \in Workers, Reread(w) PROVE ProcessingHasAThread'
    BY <2>18 DEF Reread, Goto, Return, Answer, Exists, Row
  <2> QED
    BY <2>1, <2>2, <2>3, <2>4, <2>5, <2>6, <2>7, <2>8, <2>9, <2>10,
       <2>11, <2>12, <2>13, <2>14, <2>15, <2>16, <2>17, <2>18
       DEF Next, Serve, IngestStep, DeleteStep
<1> QED
  BY <1>1, <1>2, WellFormedness, PTL DEF Spec

\* Without injected faults, a ready document with chunks stays in the index
\* until a delete is asked for or its own request takes it back: the purges
\* and saves of other requests do not touch it.
THEOREM ReadyStaysSearchable ==
  ASSUME Faults = {}
  PROVE  Spec => []ReadyIsSearchable
<1> USE DEF WellFormed, Busyness, SoleIngest, Untouched, ReadyIsSearchable,
            DeletePurged, Achieved, AckedInv, Unpublished,
            TypeOK, Status, Row,
            Step, Ingest, Adding, Added, Failing, Delete, database, store
<1>1. Init => ReadyIsSearchable
  BY DEF Init
<1>2. WellFormed /\ AckedInv /\ Unpublished /\ ReadyIsSearchable /\ [Next]_vars
      => ReadyIsSearchable'
  <2> SUFFICES ASSUME WellFormed, AckedInv, Unpublished, ReadyIsSearchable, [Next]_vars
               PROVE  ReadyIsSearchable'
    OBVIOUS
  <2>1. ASSUME NEW w \in Workers, NEW d \in Docs, BeginIngest(w, d) PROVE ReadyIsSearchable'
    BY <2>1 DEF BeginIngest
  <2>2. ASSUME NEW w \in Workers, NEW d \in Docs, BeginDelete(w, d) PROVE ReadyIsSearchable'
    BY <2>2 DEF BeginDelete, Exists, Row, Unindexed
  <2>3. ASSUME NEW w \in Workers, Load(w) PROVE ReadyIsSearchable'
    BY <2>3 DEF Load, Goto
  <2>4. ASSUME NEW w \in Workers, Persist(w) PROVE ReadyIsSearchable'
    BY <2>4 DEF Persist, Goto
  <2>5. ASSUME NEW w \in Workers, AddVectors(w) PROVE ReadyIsSearchable'
    BY <2>5 DEF AddVectors, Goto
  <2>6. ASSUME NEW w \in Workers, Commit(w) PROVE ReadyIsSearchable'
    BY <2>6 DEF Commit, Goto, Exists, Row
  <2>7. ASSUME NEW w \in Workers, Refresh(w) PROVE ReadyIsSearchable'
    BY <2>7 DEF Refresh, Goto, Exists, Row
  <2>8. ASSUME NEW w \in Workers, SaveIndex(w) PROVE ReadyIsSearchable'
    BY <2>8 DEF SaveIndex, Return, Goto, Answer, Saved, CutShort
  <2>9. ASSUME NEW w \in Workers, Respond(w) PROVE ReadyIsSearchable'
    BY <2>9 DEF Respond, Return, Answer, Exists, Row
  <2>10. ASSUME NEW w \in Workers, FailPurge(w) PROVE ReadyIsSearchable'
    BY <2>10 DEF FailPurge, Goto
  <2>11. ASSUME NEW w \in Workers, FailSave(w) PROVE ReadyIsSearchable'
    BY <2>11 DEF FailSave, Return, Goto, Answer, Saved, CutShort
  <2>12. ASSUME NEW w \in Workers, FailMark(w) PROVE ReadyIsSearchable'
    BY <2>12 DEF FailMark, Return, Answer, Exists, Row
  <2>13. ASSUME NEW w \in Workers, DeletePurge(w) PROVE ReadyIsSearchable'
    BY <2>13 DEF DeletePurge, Goto
  <2>14. ASSUME NEW w \in Workers, DeleteSave(w) PROVE ReadyIsSearchable'
    BY <2>14 DEF DeleteSave, Return, Goto, Saved, CutShort
  <2>15. ASSUME NEW w \in Workers, DeleteRows(w) PROVE ReadyIsSearchable'
    BY <2>15 DEF DeleteRows, Return
  <2>16. ASSUME Crash PROVE ReadyIsSearchable'
    BY <2>16 DEF Crash
  <2>17. CASE UNCHANGED vars
    BY <2>17 DEF vars
  <2>18. ASSUME NEW w \in Workers, Reread(w) PROVE ReadyIsSearchable'
    BY <2>18 DEF Reread, Goto, Return, Answer, Exists, Row
  <2> QED
    BY <2>1, <2>2, <2>3, <2>4, <2>5, <2>6, <2>7, <2>8, <2>9, <2>10,
       <2>11, <2>12, <2>13, <2>14, <2>15, <2>16, <2>17, <2>18
       DEF Next, Serve, IngestStep, DeleteStep
<1> QED
  BY <1>1, <1>2, WellFormedness, AckedInductive, RowsArePublished, PTL DEF Spec

-----------------------------------------------------------------------------
(* RetrievalService: queries beside ingestion *)

\* Queries do not disturb ingestion: every step is one of IngestionService or
\* changes none of its variables.
LEMMA Beside == QueriesSpec => Spec
<1>1. QueriesInit => Init
  BY DEF QueriesInit
<1>2. [QueriesNext]_allVars => [Next]_vars
  BY DEF QueriesNext, Others, Restart, QueryStep, Ask, Search, ReadChunks,
         ReadDocuments, Rank, Over, allVars, vars, Next
<1> QED
  BY <1>1, <1>2, PTL DEF QueriesSpec, Spec

\* What is known of ingestion at every moment of a query.
Known == WellFormed /\ AckedInv

LEMMA KnownBeside == QueriesSpec => []Known
  BY Beside, WellFormedness, AckedInductive, PTL DEF Known

-----------------------------------------------------------------------------
(* What a step of another request may do to a document a query is about *)

\* No answer of an ingest is taken back, nobody stops being asked to go, rows
\* of a document nobody deletes appear when its vectors are there, and no save
\* takes vectors from the index of the running process.
Considerate(d) ==
  /\ reply[d] = "ok" => reply'[d] = "ok" /\ (d \in chunked => d \in chunked')
  /\ asked'[d] = "no" => asked[d] = "no"
  /\ d \in rows' /\ d \notin rows /\ asked'[d] = "no" => d \in mem'
  /\ damage[d] # "index" => damage'[d] # "index"

LEMMA OthersAreConsiderate ==
  ASSUME Known, Serve
  PROVE  \A d \in Docs : Considerate(d)
<1> USE DEF Known, WellFormed, Busyness, SoleIngest, Untouched, AckedInv, DeletePurged,
            Achieved, TypeOK, Status, Row, Step, Ingest, Adding, Added, Failing,
            Delete, database, store, Considerate
<1>1. ASSUME NEW w \in Workers, NEW d \in Docs, BeginIngest(w, d) PROVE \A e \in Docs : Considerate(e)
  BY <1>1 DEF BeginIngest
<1>2. ASSUME NEW w \in Workers, NEW d \in Docs, BeginDelete(w, d) PROVE \A e \in Docs : Considerate(e)
  BY <1>2 DEF BeginDelete, Exists, Row, Unindexed
<1>3. ASSUME NEW w \in Workers, Load(w) PROVE \A e \in Docs : Considerate(e)
  BY <1>3 DEF Load, Goto
<1>4. ASSUME NEW w \in Workers, Persist(w) PROVE \A e \in Docs : Considerate(e)
  BY <1>4 DEF Persist, Goto
<1>5. ASSUME NEW w \in Workers, AddVectors(w) PROVE \A e \in Docs : Considerate(e)
  BY <1>5 DEF AddVectors, Goto
<1>6. ASSUME NEW w \in Workers, Commit(w) PROVE \A e \in Docs : Considerate(e)
  BY <1>6 DEF Commit, Goto
<1>7. ASSUME NEW w \in Workers, Refresh(w) PROVE \A e \in Docs : Considerate(e)
  BY <1>7 DEF Refresh, Goto
<1>8. ASSUME NEW w \in Workers, SaveIndex(w) PROVE \A e \in Docs : Considerate(e)
  BY <1>8 DEF SaveIndex, Return, Goto, Answer, Saved, CutShort
<1>9. ASSUME NEW w \in Workers, Respond(w) PROVE \A e \in Docs : Considerate(e)
  BY <1>9 DEF Respond, Return, Answer
<1>10. ASSUME NEW w \in Workers, FailPurge(w) PROVE \A e \in Docs : Considerate(e)
  BY <1>10 DEF FailPurge, Goto
<1>11. ASSUME NEW w \in Workers, FailSave(w) PROVE \A e \in Docs : Considerate(e)
  BY <1>11 DEF FailSave, Return, Goto, Answer, Saved, CutShort
<1>12. ASSUME NEW w \in Workers, FailMark(w) PROVE \A e \in Docs : Considerate(e)
  BY <1>12 DEF FailMark, Return, Answer
<1>13. ASSUME NEW w \in Workers, DeletePurge(w) PROVE \A e \in Docs : Considerate(e)
  BY <1>13 DEF DeletePurge, Goto
<1>14. ASSUME NEW w \in Workers, DeleteSave(w) PROVE \A e \in Docs : Considerate(e)
  BY <1>14 DEF DeleteSave, Return, Goto, Saved, CutShort
<1>15. ASSUME NEW w \in Workers, DeleteRows(w) PROVE \A e \in Docs : Considerate(e)
  BY <1>15 DEF DeleteRows, Return
<1>16. ASSUME NEW w \in Workers, Reread(w) PROVE \A e \in Docs : Considerate(e)
  BY <1>16 DEF Reread, Goto, Return, Answer
<1> QED
  BY <1>1, <1>2, <1>3, <1>4, <1>5, <1>6, <1>7, <1>8, <1>9, <1>10, <1>11, <1>12, <1>13, <1>14, <1>15, <1>16
     DEF Serve, IngestStep, DeleteStep

-----------------------------------------------------------------------------
(* Type correctness *)

\* Queries keep their types.
THEOREM QueriesTypeCorrect == QueriesSpec => []QueriesTypeOK
<1> USE DEF QueriesTypeOK, Phase
<1>1. QueriesInit => QueriesTypeOK
  BY DEF QueriesInit
<1>2. Known /\ Known' /\ QueriesTypeOK /\ [QueriesNext]_allVars => QueriesTypeOK'
  <2> SUFFICES ASSUME Known, Known', QueriesTypeOK, [QueriesNext]_allVars
               PROVE  QueriesTypeOK'
    OBVIOUS
  <2>0. mem \subseteq Docs /\ rows \subseteq Docs /\ mem' \subseteq Docs /\ rows' \subseteq Docs
        /\ chunked \subseteq Docs
    BY DEF Known, WellFormed, TypeOK
  <2>1. ASSUME NEW r \in Readers, NEW u \in Users, Ask(r, u) PROVE QueriesTypeOK'
    BY <2>1, <2>0 DEF Ask, Advance, vars, Retrievable
  <2>2. ASSUME NEW r \in Readers, Search(r) PROVE QueriesTypeOK'
    BY <2>2, <2>0 DEF Search, Advance, vars, Retrievable
  <2>3. ASSUME NEW r \in Readers, ReadChunks(r) PROVE QueriesTypeOK'
    BY <2>3, <2>0 DEF ReadChunks, Advance, vars, Retrievable
  <2>4. ASSUME NEW r \in Readers, ReadDocuments(r) PROVE QueriesTypeOK'
    BY <2>4, <2>0 DEF ReadDocuments, Advance, vars, Retrievable
  <2>9. ASSUME NEW r \in Readers, Rank(r) PROVE QueriesTypeOK'
    BY <2>9 DEF Rank, Advance, vars
  <2>5. ASSUME NEW r \in Readers, Over(r) PROVE QueriesTypeOK'
    BY <2>5 DEF Over, vars
  <2>6. ASSUME Others PROVE QueriesTypeOK'
    BY <2>6, <2>0 DEF Others, queries, Candidates, Retrievable
  <2>7. ASSUME Restart PROVE QueriesTypeOK'
    BY <2>7 DEF Restart
  <2>8. CASE UNCHANGED allVars
    BY <2>8 DEF allVars, queries, vars
  <2> QED
    BY <2>1, <2>2, <2>3, <2>4, <2>5, <2>6, <2>7, <2>8, <2>9 DEF QueriesNext, QueryStep
<1> QED
  BY <1>1, <1>2, KnownBeside, PTL DEF QueriesSpec

-----------------------------------------------------------------------------
(* Acknowledged documents are found *)

\* What a query owes is still acknowledged, and among its hits once the index
\* has been searched, until better ones fill the answer.
Owing ==
  \A r \in Readers : \A d \in due[r] :
    /\ d \in chunked /\ reply[d] = "ok" /\ asked[d] = "no" /\ damage[d] # "index"
    /\ uploader[d] = asker[r]
    /\ phase[r] \in {"chunks", "documents", "rank"} => d \in hits[r]
    /\ phase[r] = "answered" => d \in hits[r] \/ Cardinality(hits[r]) = TopK

\* An acknowledged document nobody deletes is in every answer to its user that
\* has room for it, if neither a save nor the search was cut short: it is there
\* at each of the three reads, and only a full answer leaves hits out.
THEOREM AcknowledgedIsFound == QueriesSpec => []AcknowledgedIsRetrieved
<1> USE DEF Owing, QueriesTypeOK, Phase
<1>1. QueriesInit => Owing
  BY DEF QueriesInit
<1>2. Known /\ QueriesTypeOK /\ Owing /\ [QueriesNext]_allVars => Owing'
  <2> SUFFICES ASSUME Known, QueriesTypeOK, Owing, [QueriesNext]_allVars
               PROVE  Owing'
    OBVIOUS
  <2>0. \A d \in Docs : d \in chunked /\ reply[d] = "ok" /\ asked[d] = "no" =>
          status[d] = "ready" /\ d \in rows /\ (d \in mem \/ damage[d] = "index")
    BY DEF Known, AckedInv, AckedIsDurable
  <2>1. ASSUME NEW r \in Readers, NEW u \in Users, Ask(r, u) PROVE Owing'
    BY <2>1 DEF Ask, Advance, vars, Exists
  <2>2. ASSUME NEW r \in Readers, Search(r) PROVE Owing'
    BY <2>2, <2>0 DEF Search, Advance, vars
  <2>3. ASSUME NEW r \in Readers, ReadChunks(r) PROVE Owing'
    BY <2>3, <2>0 DEF ReadChunks, Advance, vars
  <2>4. ASSUME NEW r \in Readers, ReadDocuments(r) PROVE Owing'
    BY <2>4, <2>0 DEF ReadDocuments, Advance, vars, Exists, Row
  <2>9. ASSUME NEW r \in Readers, Rank(r) PROVE Owing'
    BY <2>9 DEF Rank, Advance, vars
  <2>5. ASSUME NEW r \in Readers, Over(r) PROVE Owing'
    BY <2>5 DEF Over, vars
  <2>6. ASSUME Others PROVE Owing'
    BY <2>6, OthersAreConsiderate DEF Others, queries, Candidates, Considerate
  <2>7. ASSUME Restart PROVE Owing'
    BY <2>7 DEF Restart
  <2>8. CASE UNCHANGED allVars
    BY <2>8 DEF allVars, queries, vars
  <2> QED
    BY <2>1, <2>2, <2>3, <2>4, <2>5, <2>6, <2>7, <2>8, <2>9 DEF QueriesNext, QueryStep
<1>3. Owing => AcknowledgedIsRetrieved
  BY LimitAssumption DEF AcknowledgedIsRetrieved, Answered
<1> QED
  BY <1>1, <1>2, <1>3, KnownBeside, QueriesTypeCorrect, PTL DEF QueriesSpec

-----------------------------------------------------------------------------
(* Answers were retrievable *)

\* What is retrievable while the index has not been searched is noted; after
\* it, a hit is noted at the latest when its rows are there.
Witnessed ==
  \A r \in Readers :
    /\ phase[r] = "search" => Retrievable \subseteq seen[r]
    /\ phase[r] = "chunks" =>
         \A d \in hits[r] : asked[d] = "no" /\ d \in rows => d \in seen[r]
    /\ phase[r] \in {"documents", "rank", "answered"} =>
         \A d \in hits[r] : asked[d] = "no" => d \in seen[r]

\* Every document in an answer was in index and rows at once at a moment of the
\* query, unless its delete was requested: rows of a hit that were missing at
\* the search appear only while its vectors are in the index.
THEOREM AnswersWereThere == QueriesSpec => []AnswersWereRetrievable
<1> USE DEF Witnessed, Retrievable, QueriesTypeOK, Phase
<1>1. QueriesInit => Witnessed
  BY DEF QueriesInit
<1>2. Known /\ Known' /\ QueriesTypeOK /\ Witnessed /\ [QueriesNext]_allVars => Witnessed'
  <2> SUFFICES ASSUME Known, Known', QueriesTypeOK, Witnessed, [QueriesNext]_allVars
               PROVE  Witnessed'
    OBVIOUS
  <2>0. mem \subseteq Docs /\ rows \subseteq Docs /\ mem' \subseteq Docs
    BY DEF Known, WellFormed, TypeOK
  <2>1. ASSUME NEW r \in Readers, NEW u \in Users, Ask(r, u) PROVE Witnessed'
    BY <2>1, <2>0 DEF Ask, Advance, vars
  <2>2. ASSUME NEW r \in Readers, Search(r) PROVE Witnessed'
    BY <2>2, <2>0 DEF Search, Advance, vars
  <2>3. ASSUME NEW r \in Readers, ReadChunks(r) PROVE Witnessed'
    BY <2>3 DEF ReadChunks, Advance, vars
  <2>4. ASSUME NEW r \in Readers, ReadDocuments(r) PROVE Witnessed'
    BY <2>4 DEF ReadDocuments, Advance, vars
  <2>9. ASSUME NEW r \in Readers, Rank(r) PROVE Witnessed'
    BY <2>9 DEF Rank, Advance, vars
  <2>5. ASSUME NEW r \in Readers, Over(r) PROVE Witnessed'
    BY <2>5 DEF Over, vars
  <2>6. ASSUME Others PROVE Witnessed'
    <3>1. phase' = phase /\ hits' = hits
      BY <2>6 DEF Others
    <3>2. \A r \in Readers : seen'[r] = seen[r] \cup (Candidates(r) \cap mem' \cap rows')
      BY <2>6 DEF Others
    <3>3. \A d \in Docs : Considerate(d)
      BY <2>6, OthersAreConsiderate DEF Others
    <3> SUFFICES ASSUME NEW r \in Readers
                 PROVE  /\ phase[r] = "search" => Retrievable' \subseteq seen'[r]
                        /\ phase[r] = "chunks" =>
                             \A d \in hits[r] : asked'[d] = "no" /\ d \in rows' => d \in seen'[r]
                        /\ phase[r] \in {"documents", "rank", "answered"} =>
                             \A d \in hits[r] : asked'[d] = "no" => d \in seen'[r]
      BY <3>1
    <3>4. CASE phase[r] = "search"
      BY <2>0, <3>2, <3>4 DEF Candidates
    <3>5. CASE phase[r] = "chunks"
      BY <3>2, <3>3, <3>5 DEF Candidates, Considerate
    <3>6. CASE phase[r] \in {"documents", "rank", "answered"}
      BY <3>2, <3>3, <3>6 DEF Considerate
    <3> QED
      BY <3>4, <3>5, <3>6
  <2>7. ASSUME Restart PROVE Witnessed'
    BY <2>7 DEF Restart
  <2>8. CASE UNCHANGED allVars
    BY <2>8 DEF allVars, queries, vars
  <2> QED
    BY <2>1, <2>2, <2>3, <2>4, <2>5, <2>6, <2>7, <2>8, <2>9 DEF QueriesNext, QueryStep
<1>3. Witnessed => AnswersWereRetrievable
  BY DEF AnswersWereRetrievable, Answered
<1> QED
  BY <1>1, <1>2, <1>3, KnownBeside, QueriesTypeCorrect, PTL DEF QueriesSpec

-----------------------------------------------------------------------------
(* DocumentViews: gets and lists beside ingestion *)

\* A reading changes nothing that ingestion reads.
LEMMA ReadingBeside == ViewsSpec => Spec
<1>1. ViewsInit => Init
  BY DEF ViewsInit
<1>2. [ViewsNext]_viewVars => [Next]_vars
  BY DEF ViewsNext, Serving, ReadStep, Get, Start, GetOwned, GetCount, GetDocument,
         GetRefresh, List, ListPage, ListCounts, ListTotal, ReplyRead, viewVars, vars, Next
<1> QED
  BY <1>1, <1>2, PTL DEF ViewsSpec, Spec

\* A document that nobody asked to go has its chunk rows while it is ready, and
\* is not gone.
Whole ==
  \A d \in Docs : asked[d] = "no" =>
    /\ status[d] = "ready" /\ d \in chunked => d \in rows
    /\ status[d] # "deleted"

LEMMA ReadyIsWhole == Spec => []Whole
<1> USE DEF WellFormed, Busyness, SoleIngest, Untouched, Unpublished, AckedInv, DeletePurged,
            Whole, TypeOK, Status, Row,
            Step, Ingest, Adding, Added, Failing, Delete, database, store
<1>1. Init => Whole
  BY DEF Init
<1>2. WellFormed /\ AckedInv /\ Unpublished /\ Whole /\ [Next]_vars => Whole'
  <2> SUFFICES ASSUME WellFormed, AckedInv, Unpublished, Whole, [Next]_vars PROVE Whole'
    OBVIOUS
  <2>1. ASSUME NEW w \in Workers, NEW d \in Docs, BeginIngest(w, d) PROVE Whole'
    BY <2>1 DEF BeginIngest
  <2>2. ASSUME NEW w \in Workers, NEW d \in Docs, BeginDelete(w, d) PROVE Whole'
    BY <2>2 DEF BeginDelete, Exists
  <2>3. ASSUME NEW w \in Workers, Load(w) PROVE Whole'
    BY <2>3 DEF Load, Goto
  <2>4. ASSUME NEW w \in Workers, Persist(w) PROVE Whole'
    BY <2>4 DEF Persist, Goto
  <2>5. ASSUME NEW w \in Workers, AddVectors(w) PROVE Whole'
    BY <2>5 DEF AddVectors, Goto
  <2>6. ASSUME NEW w \in Workers, Commit(w) PROVE Whole'
    BY <2>6 DEF Commit, Goto, Exists
  <2>7. ASSUME NEW w \in Workers, Refresh(w) PROVE Whole'
    BY <2>7 DEF Refresh, Goto
  <2>8. ASSUME NEW w \in Workers, SaveIndex(w) PROVE Whole'
    BY <2>8 DEF SaveIndex, Return, Goto, Answer, Saved, CutShort
  <2>9. ASSUME NEW w \in Workers, Respond(w) PROVE Whole'
    BY <2>9 DEF Respond, Return, Answer
  <2>10. ASSUME NEW w \in Workers, FailPurge(w) PROVE Whole'
    BY <2>10 DEF FailPurge, Goto
  <2>11. ASSUME NEW w \in Workers, FailSave(w) PROVE Whole'
    BY <2>11 DEF FailSave, Return, Goto, Answer, Saved, CutShort
  <2>12. ASSUME NEW w \in Workers, FailMark(w) PROVE Whole'
    BY <2>12 DEF FailMark, Return, Answer, Exists
  <2>13. ASSUME NEW w \in Workers, DeletePurge(w) PROVE Whole'
    BY <2>13 DEF DeletePurge, Goto
  <2>14. ASSUME NEW w \in Workers, DeleteSave(w) PROVE Whole'
    BY <2>14 DEF DeleteSave, Return, Goto, Saved, CutShort
  <2>15. ASSUME NEW w \in Workers, DeleteRows(w) PROVE Whole'
    BY <2>15 DEF DeleteRows, Return
  <2>16. ASSUME NEW w \in Workers, Reread(w) PROVE Whole'
    BY <2>16 DEF Reread, Goto, Return, Answer
  <2>17. ASSUME Crash PROVE Whole'
    BY <2>17 DEF Crash
  <2>18. CASE UNCHANGED vars
    BY <2>18 DEF vars
  <2> QED
    BY <2>1, <2>2, <2>3, <2>4, <2>5, <2>6, <2>7, <2>8, <2>9, <2>10,
       <2>11, <2>12, <2>13, <2>14, <2>15, <2>16, <2>17, <2>18
       DEF Next, Serve, IngestStep, DeleteStep
<1> QED
  BY <1>1, <1>2, WellFormedness, AckedInductive, RowsArePublished, PTL DEF Spec

\* Ingestion is over with a document in one of these, for good.
Past == {"ready", "failed", "deleted"}

\* What a step of a request may do to a document that a reading is about.
Gentle(d) ==
  /\ asked'[d] = "no" => asked[d] = "no"
  /\ status[d] \in Past =>
       /\ status'[d] \in Past
       /\ asked'[d] = "no" => /\ d \in rows => d \in rows'
                              /\ d \in chunked' => d \in chunked

Settled == WellFormed /\ AckedInv /\ Unpublished /\ Whole

LEMMA ServingIsGentle ==
  ASSUME Settled, Serve
  PROVE  \A d \in Docs : Gentle(d)
<1> USE DEF Settled, WellFormed, Busyness, SoleIngest, Untouched, Unpublished, AckedInv,
            DeletePurged, Whole, Past, Gentle, TypeOK, Status, Row,
            Step, Ingest, Adding, Added, Failing, Delete, database, store
<1>1. ASSUME NEW w \in Workers, NEW d \in Docs, BeginIngest(w, d) PROVE \A e \in Docs : Gentle(e)
  BY <1>1 DEF BeginIngest
<1>2. ASSUME NEW w \in Workers, NEW d \in Docs, BeginDelete(w, d) PROVE \A e \in Docs : Gentle(e)
  BY <1>2 DEF BeginDelete, Exists
<1>3. ASSUME NEW w \in Workers, Load(w) PROVE \A e \in Docs : Gentle(e)
  BY <1>3 DEF Load, Goto
<1>4. ASSUME NEW w \in Workers, Persist(w) PROVE \A e \in Docs : Gentle(e)
  BY <1>4 DEF Persist, Goto
<1>5. ASSUME NEW w \in Workers, AddVectors(w) PROVE \A e \in Docs : Gentle(e)
  BY <1>5 DEF AddVectors, Goto
<1>6. ASSUME NEW w \in Workers, Commit(w) PROVE \A e \in Docs : Gentle(e)
  BY <1>6 DEF Commit, Goto, Exists
<1>7. ASSUME NEW w \in Workers, Refresh(w) PROVE \A e \in Docs : Gentle(e)
  BY <1>7 DEF Refresh, Goto
<1>8. ASSUME NEW w \in Workers, SaveIndex(w) PROVE \A e \in Docs : Gentle(e)
  BY <1>8 DEF SaveIndex, Return, Goto, Answer, Saved, CutShort
<1>9. ASSUME NEW w \in Workers, Respond(w) PROVE \A e \in Docs : Gentle(e)
  BY <1>9 DEF Respond, Return, Answer
<1>10. ASSUME NEW w \in Workers, FailPurge(w) PROVE \A e \in Docs : Gentle(e)
  BY <1>10 DEF FailPurge, Goto
<1>11. ASSUME NEW w \in Workers, FailSave(w) PROVE \A e \in Docs : Gentle(e)
  BY <1>11 DEF FailSave, Return, Goto, Answer, Saved, CutShort
<1>12. ASSUME NEW w \in Workers, FailMark(w) PROVE \A e \in Docs : Gentle(e)
  BY <1>12 DEF FailMark, Return, Answer, Exists
<1>13. ASSUME NEW w \in Workers, DeletePurge(w) PROVE \A e \in Docs : Gentle(e)
  BY <1>13 DEF DeletePurge, Goto
<1>14. ASSUME NEW w \in Workers, DeleteSave(w) PROVE \A e \in Docs : Gentle(e)
  BY <1>14 DEF DeleteSave, Return, Goto, Saved, CutShort
<1>15. ASSUME NEW w \in Workers, DeleteRows(w) PROVE \A e \in Docs : Gentle(e)
  BY <1>15 DEF DeleteRows, Return
<1>16. ASSUME NEW w \in Workers, Reread(w) PROVE \A e \in Docs : Gentle(e)
  BY <1>16 DEF Reread, Goto, Return, Answer
<1> QED
  BY <1>1, <1>2, <1>3, <1>4, <1>5, <1>6, <1>7, <1>8, <1>9, <1>10,
     <1>11, <1>12, <1>13, <1>14, <1>15, <1>16
     DEF Serve, IngestStep, DeleteStep

LEMMA SettledBeside == ViewsSpec => []Settled
  BY ReadingBeside, WellFormedness, AckedInductive, RowsArePublished, ReadyIsWhole, PTL
  DEF Settled

\* What is known of a reading by its stage: an idle one has nothing, a get has
\* a document and a list has none.
Reading ==
  /\ stage \in [Clients -> Stage]
  /\ subject \in [Clients -> Docs \cup {NoDoc}]
  /\ shown \in [Clients -> [Docs -> Status \cup {Unread}]]
  /\ counted \in [Clients -> SUBSET Docs]
  /\ outcome \in [Clients -> {"none", "shown", "missing", "error"}]
  /\ DOMAIN page = Clients
  /\ \A c \in Clients :
       /\ stage[c] = "idle" => shown[c] = Nothing /\ counted[c] = {}
       /\ stage[c] \in {"getOwned", "getCount", "getDocument", "getRefresh"} => subject[c] \in Docs
       /\ stage[c] \in {"idle", "listPage", "listCounts", "listTotal"} => subject[c] = NoDoc

LEMMA ReadingKept == ViewsSpec => []Reading
<1> USE NoDocAssumption DEF Reading, Stage, Nothing, Unread
<1>1. ViewsInit => Reading
  BY DEF ViewsInit
<1>2. Settled /\ Reading /\ [ViewsNext]_viewVars => Reading'
  <2> SUFFICES ASSUME Settled, Reading, [ViewsNext]_viewVars
               PROVE  Reading'
    OBVIOUS
  <2>0. status \in [Docs -> Status] /\ rows \subseteq Docs
    BY DEF Settled, WellFormed, TypeOK
  <2>1. ASSUME NEW c \in Clients, NEW d \in Docs, Get(c, d) PROVE Reading'
    BY <2>1 DEF Get, Start, Proceed, vars
  <2>2. ASSUME NEW c \in Clients, GetOwned(c) PROVE Reading'
    BY <2>2 DEF GetOwned, Proceed, End, vars
  <2>3. ASSUME NEW c \in Clients, GetCount(c) PROVE Reading'
    BY <2>0, <2>3 DEF GetCount, Proceed, vars
  <2>4. ASSUME NEW c \in Clients, GetDocument(c) PROVE Reading'
    BY <2>4 DEF GetDocument, Proceed, End, vars
  <2>5. ASSUME NEW c \in Clients, GetRefresh(c) PROVE Reading'
    <3>1. stage[c] = "getRefresh" /\ stage' = [stage EXCEPT ![c] = "over"]
      BY <2>5 DEF GetRefresh, Proceed
    <3>2. UNCHANGED <<subject, counted, page>>
      BY <2>5 DEF GetRefresh
    <3>3. shown' \in [Clients -> [Docs -> Status \cup {Unread}]]
      <4>1. status[subject[c]] \in Status
        BY <2>0, <3>1
      <4>2. shown' = [shown EXCEPT ![c][subject[c]] = status[subject[c]]] \/ shown' = shown
        BY <2>5 DEF GetRefresh
      <4>3. ASSUME NEW v \in Status
            PROVE  [shown[c] EXCEPT ![subject[c]] = v] \in [Docs -> Status \cup {Unread}]
        OBVIOUS
      <4>4. \A new \in [Docs -> Status \cup {Unread}] :
              [shown EXCEPT ![c] = new] \in [Clients -> [Docs -> Status \cup {Unread}]]
        OBVIOUS
      <4>5. QED
        BY <4>1, <4>2, <4>3, <4>4
    <3>4. outcome' \in [Clients -> {"none", "shown", "missing", "error"}]
      BY <2>5 DEF GetRefresh, End
    <3>5. \A v \in Clients : v # c => shown'[v] = shown[v]
      BY <2>5 DEF GetRefresh
    <3>6. QED
      BY <3>1, <3>2, <3>3, <3>4, <3>5
  <2>6. ASSUME NEW c \in Clients, List(c) PROVE Reading'
    BY <2>6 DEF List, Start, Proceed, vars
  <2>7. ASSUME NEW c \in Clients, ListPage(c) PROVE Reading'
    BY <2>0, <2>7 DEF ListPage, Proceed, vars
  <2>8. ASSUME NEW c \in Clients, ListCounts(c) PROVE Reading'
    BY <2>0, <2>8 DEF ListCounts, Proceed, vars
  <2>9. ASSUME NEW c \in Clients, ListTotal(c) PROVE Reading'
    BY <2>9 DEF ListTotal, Proceed, End, vars
  <2>10. ASSUME NEW c \in Clients, ReplyRead(c) PROVE Reading'
    BY <2>10 DEF ReplyRead, Proceed, Nothing, vars
  <2>11. ASSUME Serving PROVE Reading'
    BY <2>11, ServingIsGentle DEF Serving, reading, Gentle
  <2>12. CASE UNCHANGED viewVars
    BY <2>12 DEF viewVars, reading, vars
  <2> QED
    BY <2>1, <2>2, <2>3, <2>4, <2>5, <2>6, <2>7, <2>8, <2>9, <2>10, <2>11, <2>12
    DEF ViewsNext, ReadStep
<1> QED
  BY <1>1, <1>2, SettledBeside, PTL DEF ViewsSpec

\* What a get has counted and shown: chunks only of a document past processing.
GetsInOrder ==
  \A c \in Clients : IsGet(c) =>
    /\ \A d \in counted[c] : d = subject[c] /\ status[d] \in Past
    /\ stage[c] \in {"getOwned", "getCount"} => counted[c] = {}
    /\ stage[c] = "over" /\ outcome[c] = "shown" => \A d \in counted[c] : shown[c][d] \in Past

\* A get never shows a document as processing with chunks: the chunks are
\* counted first, and a document that has any does not return to processing.
THEOREM GetsShowOneLife == ViewsSpec => []GetShowsOneLife
<1> USE NoDocAssumption DEF GetsInOrder, IsGet, Past, Stage
<1>1. ViewsInit => GetsInOrder
  BY DEF ViewsInit
<1>2. Settled /\ Reading /\ GetsInOrder /\ [ViewsNext]_viewVars => GetsInOrder'
  <2> SUFFICES ASSUME Settled, Reading, GetsInOrder, [ViewsNext]_viewVars
               PROVE  GetsInOrder'
    OBVIOUS
  <2>0. \A d \in rows : d \in Docs /\ status[d] \in Past
    BY DEF Settled, WellFormed, TypeOK, Unpublished
  <2> USE DEF Reading
  <2>1. ASSUME NEW c \in Clients, NEW d \in Docs, Get(c, d) PROVE GetsInOrder'
    BY <2>1 DEF Get, Start, Proceed, vars
  <2>2. ASSUME NEW c \in Clients, GetOwned(c) PROVE GetsInOrder'
    BY <2>2 DEF GetOwned, Proceed, End, vars
  <2>3. ASSUME NEW c \in Clients, GetCount(c) PROVE GetsInOrder'
    BY <2>0, <2>3 DEF GetCount, Proceed, vars
  <2>4. ASSUME NEW c \in Clients, GetDocument(c) PROVE GetsInOrder'
    BY <2>4 DEF GetDocument, Proceed, End, vars
  <2>5. ASSUME NEW c \in Clients, GetRefresh(c) PROVE GetsInOrder'
    BY <2>5 DEF GetRefresh, Proceed, End, Exists, vars
  <2>6. ASSUME NEW c \in Clients, List(c) PROVE GetsInOrder'
    BY <2>6 DEF List, Start, Proceed, vars
  <2>7. ASSUME NEW c \in Clients, ListPage(c) PROVE GetsInOrder'
    BY <2>7 DEF ListPage, Proceed, vars
  <2>8. ASSUME NEW c \in Clients, ListCounts(c) PROVE GetsInOrder'
    BY <2>8 DEF ListCounts, Proceed, vars
  <2>9. ASSUME NEW c \in Clients, ListTotal(c) PROVE GetsInOrder'
    BY <2>9 DEF ListTotal, Proceed, End, vars
  <2>10. ASSUME NEW c \in Clients, ReplyRead(c) PROVE GetsInOrder'
    BY <2>10 DEF ReplyRead, Proceed, Nothing, vars
  <2>11. ASSUME Serving PROVE GetsInOrder'
    BY <2>11, ServingIsGentle DEF Serving, reading, Gentle
  <2>12. CASE UNCHANGED viewVars
    BY <2>12 DEF viewVars, reading, vars
  <2> QED
    BY <2>1, <2>2, <2>3, <2>4, <2>5, <2>6, <2>7, <2>8, <2>9, <2>10, <2>11, <2>12
    DEF ViewsNext, ReadStep
<1>3. GetsInOrder => GetShowsOneLife
  BY DEF GetShowsOneLife, Shown
<1> QED
  BY <1>1, <1>2, <1>3, SettledBeside, ReadingKept, PTL DEF ViewsSpec

\* What a list has shown as ready has its rows while nobody asks it to go, and
\* is counted with the page it is on.
ListsWhole ==
  \A c \in Clients : ~IsGet(c) => \A d \in Docs : shown[c][d] = "ready" =>
    /\ status[d] \in Past
    /\ asked[d] = "no" /\ d \in chunked =>
         /\ d \in rows
         /\ d \in counted[c] \/ (stage[c] = "listCounts" /\ d \in Listed(c))

LEMMA ListsShownWhole == ViewsSpec => []ListsWhole
<1> USE NoDocAssumption DEF ListsWhole, IsGet, Past, Stage, Unread, Nothing
<1>1. ViewsInit => ListsWhole
  BY DEF ViewsInit
<1>2. Settled /\ Reading /\ ListsWhole /\ [ViewsNext]_viewVars => ListsWhole'
  <2> SUFFICES ASSUME Settled, Reading, ListsWhole, [ViewsNext]_viewVars
               PROVE  ListsWhole'
    OBVIOUS
  <2>0. \A d \in Docs : status[d] = "ready" /\ asked[d] = "no" /\ d \in chunked => d \in rows
    BY DEF Settled, Whole
  <2> USE DEF Reading, Listed
  <2>1. ASSUME NEW c \in Clients, NEW d \in Docs, Get(c, d) PROVE ListsWhole'
    BY <2>1 DEF Get, Start, Proceed, vars
  <2>2. ASSUME NEW c \in Clients, GetOwned(c) PROVE ListsWhole'
    BY <2>2 DEF GetOwned, Proceed, End, vars
  <2>3. ASSUME NEW c \in Clients, GetCount(c) PROVE ListsWhole'
    BY <2>3 DEF GetCount, Proceed, vars
  <2>4. ASSUME NEW c \in Clients, GetDocument(c) PROVE ListsWhole'
    BY <2>4 DEF GetDocument, Proceed, End, vars
  <2>5. ASSUME NEW c \in Clients, GetRefresh(c) PROVE ListsWhole'
    BY <2>5 DEF GetRefresh, Proceed, End, Exists, vars
  <2>6. ASSUME NEW c \in Clients, List(c) PROVE ListsWhole'
    BY <2>6 DEF List, Start, Proceed, vars
  <2>7. ASSUME NEW c \in Clients, ListPage(c) PROVE ListsWhole'
    BY <2>0, <2>7 DEF ListPage, Proceed, vars
  <2>8. ASSUME NEW c \in Clients, ListCounts(c) PROVE ListsWhole'
    BY <2>8 DEF ListCounts, Proceed, vars
  <2>9. ASSUME NEW c \in Clients, ListTotal(c) PROVE ListsWhole'
    BY <2>9 DEF ListTotal, Proceed, End, vars
  <2>10. ASSUME NEW c \in Clients, ReplyRead(c) PROVE ListsWhole'
    BY <2>10 DEF ReplyRead, Proceed, Nothing, vars
  <2>11. ASSUME Serving PROVE ListsWhole'
    BY <2>11, ServingIsGentle DEF Serving, reading, Gentle
  <2>12. CASE UNCHANGED viewVars
    BY <2>12 DEF viewVars, reading, vars
  <2> QED
    BY <2>1, <2>2, <2>3, <2>4, <2>5, <2>6, <2>7, <2>8, <2>9, <2>10, <2>11, <2>12
    DEF ViewsNext, ReadStep
<1> QED
  BY <1>1, <1>2, SettledBeside, ReadingKept, PTL DEF ViewsSpec

\* A list shows a ready document with its chunks, although another statement
\* counts them, unless the document is being deleted.
THEOREM ListsShowReadyWhole == ViewsSpec => []ReadyIsListedWhole
<1>1. Settled /\ Reading /\ ListsWhole => ReadyIsListedWhole
  BY NoDocAssumption
  DEF ReadyIsListedWhole, ListsWhole, IsGet, Shown, Settled, WellFormed, TypeOK, Reading
<1> QED
  BY <1>1, SettledBeside, ReadingKept, ListsShownWhole, PTL

-----------------------------------------------------------------------------
(* DocumentViews: what was acknowledged is shown *)

\* An insertion moves what comes after it by one.
LEMMA InsertionMoves ==
  ASSUME NEW S, NEW s \in Seq(S), NEW k \in 1..(Len(s) + 1), NEW e \in S
  PROVE  /\ InsertAt(s, k, e) \in Seq(S)
         /\ Len(InsertAt(s, k, e)) = Len(s) + 1
         /\ InsertAt(s, k, e)[k] = e
         /\ \A i \in 1..Len(s) : InsertAt(s, k, e)[IF i < k THEN i ELSE i + 1] = s[i]
<1> DEFINE a == SubSeq(s, 1, k - 1)
           b == SubSeq(s, k, Len(s))
           q == InsertAt(s, k, e)
<1>1. Len(s) \in Nat /\ k \in Nat /\ 1 <= k /\ k <= Len(s) + 1
  OBVIOUS
<1>2. a \in Seq(S) /\ Len(a) = k - 1 /\ \A i \in 1..(k - 1) : a[i] = s[i]
  BY <1>1
<1>3. b \in Seq(S) /\ Len(b) = Len(s) - k + 1 /\ \A i \in 1..(Len(s) - k + 1) : b[i] = s[k + i - 1]
  BY <1>1
<1>4. q = a \o <<e>> \o b
  BY DEF InsertAt
<1> HIDE DEF a, b, q
<1> DEFINE h == a \o <<e>>
<1>5. /\ h \in Seq(S) /\ Len(h) = k /\ h[k] = e
      /\ \A i \in 1..(k - 1) : h[i] = s[i]
  BY <1>1, <1>2
<1>6. q = h \o b
  BY <1>4
<1> HIDE DEF h
<1>7. /\ q \in Seq(S) /\ Len(q) = Len(s) + 1
      /\ \A i \in 1..k : q[i] = h[i]
      /\ \A i \in 1..(Len(s) - k + 1) : q[k + i] = b[i]
  <2>1. h \in Seq(S) /\ b \in Seq(S) /\ Len(h) = k /\ Len(b) = Len(s) - k + 1
    BY <1>3, <1>5
  <2>2. \A x, y \in Seq(S) :
          /\ x \o y \in Seq(S) /\ Len(x \o y) = Len(x) + Len(y)
          /\ \A i \in 1..(Len(x) + Len(y)) :
               (x \o y)[i] = IF i <= Len(x) THEN x[i] ELSE y[i - Len(x)]
    OBVIOUS
  <2>3. /\ q \in Seq(S) /\ Len(q) = Len(h) + Len(b)
        /\ \A i \in 1..Len(q) : q[i] = IF i <= Len(h) THEN h[i] ELSE b[i - Len(h)]
    BY <2>1, <2>2, <1>6
  <2>4. Len(q) = Len(s) + 1
    BY <2>1, <2>3, <1>1
  <2>5. ASSUME NEW i \in 1..k PROVE q[i] = h[i]
    <3>1. i \in 1..Len(q) /\ i <= Len(h)
      BY <2>1, <2>4, <1>1
    <3>2. QED
      BY <3>1, <2>3
  <2>6. ASSUME NEW i \in 1..(Len(s) - k + 1) PROVE q[k + i] = b[i]
    <3>1. k + i \in 1..Len(q) /\ ~(k + i <= Len(h)) /\ (k + i) - Len(h) = i
      BY <2>1, <2>4, <1>1
    <3>2. QED
      BY <3>1, <2>3
  <2>7. QED
    BY <2>3, <2>4, <2>5, <2>6
<1>8. ASSUME NEW i \in 1..Len(s)
      PROVE  q[IF i < k THEN i ELSE i + 1] = s[i]
  <2>1. CASE i < k
    BY <2>1, <1>1, <1>5, <1>7
  <2>2. CASE ~(i < k)
    <3> DEFINE m == i - k + 1
    <3>1. m \in 1..(Len(s) - k + 1) /\ k + m = i + 1 /\ k + m - 1 = i
      BY <2>2, <1>1
    <3> HIDE DEF m
    <3>2. q[k + m] = s[k + m - 1]
      BY <3>1, <1>3, <1>7
    <3>3. QED
      BY <2>2, <3>1, <3>2
  <2>3. QED
    BY <2>1, <2>2
<1>9. QED
  BY <1>1, <1>5, <1>7, <1>8 DEF q

\* A step of a request changes the status of one document at most, and none
\* goes back to not being there.
Tame ==
  /\ \A d \in Docs : status[d] # "none" => status'[d] # "none"
  /\ \A d, e \in Docs : status'[d] # status[d] /\ status'[e] # status[e] => d = e

LEMMA ServingIsTame ==
  ASSUME WellFormed, Serve
  PROVE  Tame
<1> USE DEF WellFormed, Busyness, Tame, TypeOK, Status, Row,
            Step, Ingest, Adding, Added, Failing, Delete, database, store
<1>1. ASSUME NEW w \in Workers, NEW d \in Docs, BeginIngest(w, d) PROVE Tame
  BY <1>1 DEF BeginIngest
<1>2. ASSUME NEW w \in Workers, NEW d \in Docs, BeginDelete(w, d) PROVE Tame
  BY <1>2 DEF BeginDelete
<1>3. ASSUME NEW w \in Workers, Load(w) PROVE Tame
  BY <1>3 DEF Load
<1>4. ASSUME NEW w \in Workers, Persist(w) PROVE Tame
  BY <1>4 DEF Persist
<1>5. ASSUME NEW w \in Workers, AddVectors(w) PROVE Tame
  BY <1>5 DEF AddVectors
<1>6. ASSUME NEW w \in Workers, Commit(w) PROVE Tame
  BY <1>6 DEF Commit, Goto
<1>7. ASSUME NEW w \in Workers, Refresh(w) PROVE Tame
  BY <1>7 DEF Refresh
<1>8. ASSUME NEW w \in Workers, SaveIndex(w) PROVE Tame
  BY <1>8 DEF SaveIndex
<1>9. ASSUME NEW w \in Workers, Respond(w) PROVE Tame
  BY <1>9 DEF Respond
<1>10. ASSUME NEW w \in Workers, FailPurge(w) PROVE Tame
  BY <1>10 DEF FailPurge
<1>11. ASSUME NEW w \in Workers, FailSave(w) PROVE Tame
  BY <1>11 DEF FailSave
<1>12. ASSUME NEW w \in Workers, FailMark(w) PROVE Tame
  BY <1>12 DEF FailMark, Return
<1>13. ASSUME NEW w \in Workers, DeletePurge(w) PROVE Tame
  BY <1>13 DEF DeletePurge
<1>14. ASSUME NEW w \in Workers, DeleteSave(w) PROVE Tame
  BY <1>14 DEF DeleteSave
<1>15. ASSUME NEW w \in Workers, DeleteRows(w) PROVE Tame
  BY <1>15 DEF DeleteRows, Return
<1>16. ASSUME NEW w \in Workers, Reread(w) PROVE Tame
  BY <1>16 DEF Reread
<1> QED
  BY <1>1, <1>2, <1>3, <1>4, <1>5, <1>6, <1>7, <1>8, <1>9, <1>10,
     <1>11, <1>12, <1>13, <1>14, <1>15, <1>16
     DEF Serve, IngestStep, DeleteStep

\* Every document there ever was has one place in the order.
OrderKept ==
  /\ order \in Seq(Docs)
  /\ \A j, k \in DOMAIN order : order[j] = order[k] => j = k
  /\ \A d \in Docs : status[d] # "none" <=> \E k \in DOMAIN order : order[k] = d

\* e was created after d.
Newer(e, d) == \E j, k \in DOMAIN order : j < k /\ order[j] = d /\ order[k] = e

\* A document that comes late may take any place; the others keep theirs to
\* each other.
LEMMA ServingKeepsOrder ==
  ASSUME Settled, OrderKept, Serving
  PROVE  OrderKept' /\ \A d, e \in Docs : Newer(e, d) => Newer(e, d)'
<1> DEFINE new == {d \in Docs : status[d] = "none" /\ status'[d] # "none"}
<1>1. Tame
  BY ServingIsTame DEF Serving, Settled
<1>2. CASE new = {} /\ UNCHANGED order
  BY <1>1, <1>2 DEF OrderKept, Newer, Tame
<1>3. ASSUME NEW e \in new, NEW k \in 1..(Len(order) + 1), order' = InsertAt(order, k, e)
      PROVE  OrderKept' /\ \A d, x \in Docs : Newer(x, d) => Newer(x, d)'
  <2> DEFINE g(i) == IF i < k THEN i ELSE i + 1
             n == Len(order)
  <2>1. order \in Seq(Docs) /\ n \in Nat /\ DOMAIN order = 1..n /\ e \in Docs
    BY DEF OrderKept
  <2>2. /\ order' \in Seq(Docs) /\ Len(order') = n + 1 /\ order'[k] = e
        /\ \A i \in 1..n : order'[g(i)] = order[i]
    BY <1>3, <2>1, InsertionMoves
  <2> HIDE DEF n
  <2>3. DOMAIN order' = 1..(n + 1) /\ k \in 1..(n + 1)
    BY <1>3, <2>1, <2>2 DEF n
  <2>4. \A i \in 1..n : g(i) \in 1..(n + 1) /\ g(i) # k
    BY <2>1, <2>3
  <2>5. \A i, j \in 1..n : i < j => g(i) < g(j)
    BY <2>1, <2>3
  <2>6. \A m \in 1..(n + 1) : m = k \/ \E i \in 1..n : g(i) = m
    <3> SUFFICES ASSUME NEW m \in 1..(n + 1), m # k
                 PROVE  \E i \in 1..n : g(i) = m
      OBVIOUS
    <3>1. CASE m < k
      BY <3>1, <2>1, <2>3
    <3>2. CASE k < m
      <4>1. m - 1 \in 1..n /\ g(m - 1) = m
        BY <3>2, <2>1, <2>3
      <4>2. QED
        BY <4>1
    <3>3. QED
      BY <3>1, <3>2, <2>3
  <2> HIDE DEF g
  <2>7. \A i \in 1..n : order[i] # e
    BY <1>3, <2>1 DEF OrderKept
  <2>8. \A i, j \in DOMAIN order' : order'[i] = order'[j] => i = j
    <3> SUFFICES ASSUME NEW i \in 1..(n + 1), NEW j \in 1..(n + 1), order'[i] = order'[j]
                 PROVE  i = j
      BY <2>3
    <3>1. \A a, b \in 1..n : order[a] = order[b] => a = b
      BY <2>1 DEF OrderKept
    <3>2. QED
      BY <3>1, <2>2, <2>6, <2>7
  <2>9. \A d \in Docs : status'[d] # "none" <=> d = e \/ status[d] # "none"
    BY <1>1, <1>3 DEF Tame
  <2>10. \A d \in Docs : (\E i \in DOMAIN order' : order'[i] = d)
                           <=> d = e \/ \E i \in DOMAIN order : order[i] = d
    <3> SUFFICES ASSUME NEW d \in Docs
                 PROVE  (\E m \in 1..(n + 1) : order'[m] = d)
                          <=> d = e \/ \E i \in 1..n : order[i] = d
      BY <2>1, <2>3
    <3>1. ASSUME NEW m \in 1..(n + 1), order'[m] = d
          PROVE  d = e \/ \E i \in 1..n : order[i] = d
      BY <3>1, <2>2, <2>6
    <3>2. ASSUME d = e PROVE \E m \in 1..(n + 1) : order'[m] = d
      BY <3>2, <2>2, <2>3
    <3>3. ASSUME NEW i \in 1..n, order[i] = d
          PROVE  \E m \in 1..(n + 1) : order'[m] = d
      BY <3>3, <2>2, <2>4
    <3>4. QED
      BY <3>1, <3>2, <3>3
  <2>11. \A d \in Docs : status[d] # "none" <=> \E i \in DOMAIN order : order[i] = d
    BY DEF OrderKept
  <2>12. OrderKept'
    BY <2>2, <2>8, <2>9, <2>10, <2>11 DEF OrderKept
  <2>13. ASSUME NEW d \in Docs, NEW x \in Docs, Newer(x, d)
         PROVE  Newer(x, d)'
    <3>1. PICK i \in 1..n, j \in 1..n : i < j /\ order[i] = d /\ order[j] = x
      BY <2>1, <2>13 DEF Newer
    <3>2. /\ g(i) \in DOMAIN order' /\ g(j) \in DOMAIN order' /\ g(i) < g(j)
          /\ order'[g(i)] = d /\ order'[g(j)] = x
      BY <3>1, <2>2, <2>3, <2>4, <2>5
    <3>3. QED
      BY <3>2 DEF Newer
  <2>14. QED
    BY <2>12, <2>13
<1>4. QED
  BY <1>2, <1>3 DEF Serving

\* A reading leaves the documents alone.
LEMMA ReadingIsLooking ==
  ASSUME NEW c \in Clients, ReadStep(c)
  PROVE  UNCHANGED <<vars, order>>
BY DEF ReadStep, Get, Start, GetOwned, GetCount, GetDocument, GetRefresh, List,
       ListPage, ListCounts, ListTotal, ReplyRead

LEMMA OrderInvariant == ViewsSpec => []OrderKept
<1>1. ViewsInit => OrderKept
  BY DEF ViewsInit, Init, OrderKept
<1>2. Settled /\ OrderKept /\ [ViewsNext]_viewVars => OrderKept'
  <2> SUFFICES ASSUME Settled, OrderKept, [ViewsNext]_viewVars
               PROVE  OrderKept'
    OBVIOUS
  <2>1. ASSUME Serving PROVE OrderKept'
    BY <2>1, ServingKeepsOrder
  <2>2. ASSUME UNCHANGED <<vars, order>> PROVE OrderKept'
    BY <2>2 DEF OrderKept, vars
  <2>3. QED
    BY <2>1, <2>2, ReadingIsLooking DEF ViewsNext, viewVars
<1>3. QED
  BY <1>1, <1>2, SettledBeside, PTL DEF ViewsSpec

\* The documents listed before d.
Above(d) == {e \in Docs : Exists(e) /\ Newer(e, d)}

\* d is the i-th row there is, newest first.
IsAt(d, i) ==
  /\ i \in 1..Len(Newest) /\ Newest[i] = d
  /\ IsFiniteSet(Above(d)) /\ Cardinality(Above(d)) = i - 1

\* Only documents there are, and a document is listed after those above it.
LEMMA NewestIsOrdered ==
  ASSUME OrderKept, NEW d \in Docs, Exists(d)
  PROVE  Newest \in Seq(Docs) /\ \E i : IsAt(d, i)
<1> DEFINE P == {k \in DOMAIN order : Exists(order[k])}
           there == Selected(order, P)
           L == Len(there)
           n == Len(order)
<1>1. order \in Seq(Docs) /\ n \in Nat /\ DOMAIN order = 1..n
  BY DEF OrderKept
<1>2. there \in Seq(Docs)
  BY <1>1, SelectedPicks
<1>3. PICK f : Picks(f, there, order, P, n)
  BY <1>1, SelectedPicks
<1>4. Newest = [k \in 1..L |-> there[L + 1 - k]]
  BY DEF Newest
<1>5. \A k \in 1..n : k \in P <=> Exists(order[k])
  BY <1>1
<1> HIDE DEF P, there
<1>6. L \in Nat /\ DOMAIN there = 1..L
  BY <1>2
<1>7. Newest \in Seq(Docs) /\ Len(Newest) = L
  <2>1. \A k \in 1..L : L + 1 - k \in 1..L
    BY <1>6
  <2>2. \A k \in 1..L : there[L + 1 - k] \in Docs
    BY <1>2, <1>6, <2>1
  <2> HIDE DEF L
  <2>3. Newest \in [1..L -> Docs]
    BY <1>4, <2>2
  <2>4. QED
    BY <2>3, <1>6
<1> HIDE DEF L, n
<1>8. /\ \A j \in 1..L : f[j] \in 1..n /\ there[j] = order[f[j]] /\ Exists(there[j])
      /\ \A i, j \in 1..L : i < j => f[i] < f[j]
      /\ \A k \in 1..n : Exists(order[k]) => \E j \in 1..L : f[j] = k
  BY <1>3, <1>5 DEF Picks, L
<1>9. \A j, k \in 1..n : order[j] = order[k] => j = k
  BY <1>1 DEF OrderKept
<1>10. PICK p \in 1..n : order[p] = d
  BY <1>1 DEF OrderKept, Exists, Row
<1>11. PICK j \in 1..L : f[j] = p
  BY <1>8, <1>10
<1> DEFINE i == L + 1 - j
           M == 1..(i - 1)
           h == [m \in M |-> Newest[m]]
<1>12. i \in 1..L /\ L + 1 - i = j /\ M \subseteq 1..L /\ i - 1 \in Nat
  BY <1>6, <1>11
<1>13. \A m \in M : L + 1 - m \in 1..L /\ j < L + 1 - m
  BY <1>6, <1>12
<1>14. Newest[i] = d
  BY <1>4, <1>12, <1>8, <1>10, <1>11
<1>15. \A m \in M : h[m] \in Above(d)
  <2> SUFFICES ASSUME NEW m \in M PROVE Newest[m] \in Above(d)
    OBVIOUS
  <2> DEFINE q == L + 1 - m
  <2>1. q \in 1..L /\ j < q /\ m \in 1..L
    BY <1>13, <1>12
  <2>2. Newest[m] = there[q]
    BY <2>1, <1>4
  <2> HIDE DEF q
  <2>3. f[j] < f[q] /\ there[q] = order[f[q]] /\ f[q] \in 1..n /\ Exists(there[q])
    BY <2>1, <1>8
  <2>4. Newer(there[q], d) /\ there[q] \in Docs
    BY <2>3, <1>1, <1>10, <1>11 DEF Newer, n
  <2>5. QED
    BY <2>2, <2>3, <2>4 DEF Above
<1>16. \A a, b \in M : h[a] = h[b] => a = b
  <2> SUFFICES ASSUME NEW a \in M, NEW b \in M, Newest[a] = Newest[b]
               PROVE  a = b
    OBVIOUS
  <2>1. a \in 1..L /\ b \in 1..L /\ L + 1 - a \in 1..L /\ L + 1 - b \in 1..L
    BY <1>12, <1>13
  <2>2. there[L + 1 - a] = there[L + 1 - b]
    BY <2>1, <1>4
  <2>3. f[L + 1 - a] = f[L + 1 - b]
    BY <2>1, <2>2, <1>8, <1>9
  <2>4. \A x, y \in 1..L : x # y => f[x] # f[y]
    <3> SUFFICES ASSUME NEW x \in 1..L, NEW y \in 1..L, x # y PROVE f[x] # f[y]
      OBVIOUS
    <3>1. x < y \/ y < x
      BY <1>6
    <3>2. f[x] \in Int /\ f[y] \in Int
      BY <1>8
    <3>3. QED
      BY <3>1, <3>2, <1>8
  <2>5. L + 1 - a = L + 1 - b
    BY <2>1, <2>3, <2>4
  <2>6. QED
    BY <2>1, <2>5, <1>6
<1>17. \A e \in Above(d) : \E m \in M : h[m] = e
  <2> SUFFICES ASSUME NEW e \in Above(d) PROVE \E m \in M : h[m] = e
    OBVIOUS
  <2>1. PICK x \in 1..n, y \in 1..n : x < y /\ order[x] = d /\ order[y] = e
    BY <1>1 DEF Above, Newer
  <2>2. x = p /\ Exists(order[y])
    BY <2>1, <1>9, <1>10 DEF Above
  <2>3. PICK q \in 1..L : f[q] = y
    BY <2>2, <1>8
  <2>4. j < q
    <3>1. f[j] < f[q] /\ f[j] \in Int /\ f[q] \in Int
      BY <2>1, <2>2, <2>3, <1>11
    <3>2. j # q
      BY <3>1
    <3>3. ~(q < j)
      BY <3>1, <1>8
    <3>4. QED
      BY <3>2, <3>3, <1>6
  <2> DEFINE m == L + 1 - q
  <2>5. m \in M /\ m \in 1..L /\ L + 1 - m = q
    BY <2>4, <1>6
  <2> HIDE DEF m
  <2>6. Newest[m] = e
    BY <2>5, <2>1, <2>3, <1>4, <1>8
  <2>7. QED
    BY <2>5, <2>6
<1> HIDE DEF h
<1>18. h \in Bijection(M, Above(d))
  <2>1. h \in [M -> Above(d)]
    BY <1>15 DEF h
  <2>2. QED
    BY <2>1, <1>16, <1>17, Fun_IsBij
<1>19. IsFiniteSet(Above(d)) /\ Cardinality(Above(d)) = i - 1
  <2>1. ExistsBijection(1..(i - 1), Above(d)) /\ i - 1 \in Nat
    BY <1>12, <1>18 DEF ExistsBijection
  <2> HIDE DEF i
  <2>2. QED
    BY <2>1, FS_CountingElements, FS_NatBijection
<1> HIDE DEF i
<1>20. IsAt(d, i)
  BY <1>7, <1>12, <1>14, <1>19 DEF IsAt
<1>21. QED
  BY <1>7, <1>20

\* The documents there are have a place in the list.
Placed == \A d \in Docs : Exists(d) => \E i : IsAt(d, i)

LEMMA PlacedInvariant == ViewsSpec => []Placed
<1>1. OrderKept => Placed
  BY NewestIsOrdered DEF Placed
<1>2. QED
  BY <1>1, OrderInvariant, PTL

\* A page shows a document that is not above its offset, unless the page is
\* full and the document is not above the next offset either.
LEMMA PageShows ==
  ASSUME OrderKept, NEW d \in Docs, Exists(d), NEW n \in Nat, Cardinality(Above(d)) >= n
  PROVE  \/ \E k \in DOMAIN PageFrom(n) : PageFrom(n)[k] = d
         \/ Len(PageFrom(n)) = PageSize /\ Cardinality(Above(d)) >= n + PageSize
<1> DEFINE L == Len(Newest)
           last == IF n + PageSize <= L THEN n + PageSize ELSE L
<1>1. Newest \in Seq(Docs) /\ L \in Nat /\ PageSize \in Nat
  BY NewestIsOrdered, PageSizeAssumption
<1>2. PICK i : i \in 1..L /\ Newest[i] = d /\ Cardinality(Above(d)) = i - 1
  BY NewestIsOrdered DEF IsAt
<1>3. PageFrom(n) = SubSeq(Newest, n + 1, last)
  BY <1>1 DEF PageFrom, PageBetween
<1> HIDE DEF L
<1>4. i \in Int /\ n + 1 <= i /\ i <= L
  BY <1>1, <1>2
<1>5. last \in Nat /\ n + 1 <= last /\ last <= L
  BY <1>1, <1>4, PageSizeAssumption
<1> HIDE DEF last
<1>6. /\ DOMAIN PageFrom(n) = 1..(last - n) /\ Len(PageFrom(n)) = last - n
      /\ \A k \in 1..(last - n) : PageFrom(n)[k] = Newest[n + k]
  <2>1. ASSUME NEW s \in Seq(Docs), NEW a \in 1..Len(s), NEW b \in a..Len(s)
        PROVE  /\ DOMAIN SubSeq(s, a, b) = 1..(b - a + 1) /\ Len(SubSeq(s, a, b)) = b - a + 1
               /\ \A k \in 1..(b - a + 1) : SubSeq(s, a, b)[k] = s[a + k - 1]
    OBVIOUS
  <2>2. n + 1 \in 1..Len(Newest) /\ last \in (n + 1)..Len(Newest) /\ last - (n + 1) + 1 = last - n
    BY <1>1, <1>4, <1>5 DEF L
  <2>3. \A k \in 1..(last - n) : n + 1 + k - 1 = n + k
    BY <1>5
  <2>4. QED
    BY <2>1, <2>2, <2>3, <1>1, <1>3
<1>7. CASE i <= last
  <2>1. i - n \in 1..(last - n) /\ n + (i - n) = i
    BY <1>4, <1>5, <1>7
  <2>2. PageFrom(n)[i - n] = d
    BY <2>1, <1>2, <1>6
  <2>3. QED
    BY <2>1, <2>2, <1>6
<1>8. CASE ~(i <= last)
  <2>1. last = n + PageSize
    BY <1>1, <1>4, <1>8 DEF last
  <2>2. last - n = PageSize /\ i - 1 >= n + PageSize
    BY <2>1, <1>1, <1>4, <1>8
  <2>3. QED
    BY <2>2, <1>2, <1>6
<1>9. QED
  BY <1>7, <1>8

\* What goes from above a document goes for good.
LEMMA AboveStays ==
  ASSUME Settled, Settled', OrderKept, Serving, NEW d \in Docs, NEW e \in Above(d)
  PROVE  \/ e \in Above(d)'
         \/ Newer(e, d)' /\ status[e] # "deleted" /\ status'[e] = "deleted"
<1>1. e \in Docs /\ Newer(e, d)' /\ status[e] \in Row
  BY ServingKeepsOrder DEF Above, Exists
<1>2. status'[e] # "none" /\ status'[e] \in Status
  BY <1>1, ServingIsTame DEF Serving, Settled, WellFormed, TypeOK, Tame, Row
<1>3. QED
  BY <1>1, <1>2 DEF Above, Exists, Status, Row

\* What a client has of its own no other client touches.
LEMMA ReadingIsOnesOwn ==
  ASSUME Reading, NEW c \in Clients, ReadStep(c), NEW v \in Clients, v # c,
         skip \in [Clients -> Nat], promised \in [Clients -> SUBSET Docs],
         removed \in [Clients -> SUBSET Docs]
  PROVE  /\ stage'[v] = stage[v] /\ subject'[v] = subject[v] /\ page'[v] = page[v]
         /\ skip'[v] = skip[v] /\ shown'[v] = shown[v] /\ counted'[v] = counted[v]
         /\ promised'[v] = promised[v] /\ removed'[v] = removed[v]
BY DEF Reading, Proceed, ReadStep, Get, Start, GetOwned, GetCount, GetDocument,
       GetRefresh, List, ListPage, ListCounts, ListTotal, ReplyRead

\* A reading was promised what was acknowledged, and is as long as nobody asks
\* it to go; one that has not begun was promised nothing.
Promises ==
  /\ skip \in [Clients -> Nat]
  /\ promised \in [Clients -> SUBSET Docs]
  /\ removed \in [Clients -> SUBSET Docs]
  /\ \A c \in Clients :
       /\ stage[c] = "idle" => promised[c] = {} /\ skip[c] = 0
       /\ \A d \in promised[c] : asked[d] = "no" => reply[d] = "ok"

LEMMA PromisesKept == ViewsSpec => []Promises
<1> USE NoDocAssumption DEF Promises
<1>1. ViewsInit => Promises
  BY DEF ViewsInit
<1>2. Settled /\ Reading /\ Promises /\ [ViewsNext]_viewVars => Promises'
  <2> SUFFICES ASSUME Settled, Reading, Promises, [ViewsNext]_viewVars
               PROVE  Promises'
    OBVIOUS
  <2> USE DEF Reading
  <2>1. ASSUME NEW c \in Clients, NEW d \in Docs, Get(c, d) PROVE Promises'
    BY <2>1 DEF Get, Start, Proceed, Acknowledged, vars
  <2>2. ASSUME NEW c \in Clients, GetOwned(c) PROVE Promises'
    BY <2>2 DEF GetOwned, Proceed, vars
  <2>3. ASSUME NEW c \in Clients, GetCount(c) PROVE Promises'
    BY <2>3 DEF GetCount, Proceed, vars
  <2>4. ASSUME NEW c \in Clients, GetDocument(c) PROVE Promises'
    BY <2>4 DEF GetDocument, Proceed, vars
  <2>5. ASSUME NEW c \in Clients, GetRefresh(c) PROVE Promises'
    BY <2>5 DEF GetRefresh, Proceed, vars
  <2>6. ASSUME NEW c \in Clients, List(c) PROVE Promises'
    BY <2>6 DEF List, Start, Proceed, Acknowledged, vars
  <2>7. ASSUME NEW c \in Clients, ListPage(c) PROVE Promises'
    BY <2>7 DEF ListPage, Proceed, vars
  <2>8. ASSUME NEW c \in Clients, ListCounts(c) PROVE Promises'
    BY <2>8 DEF ListCounts, Proceed, vars
  <2>9. ASSUME NEW c \in Clients, ListTotal(c) PROVE Promises'
    <3>1. skip' \in [Clients -> Nat]
      <4>1. skip[c] + PageSize \in Nat
        BY PageSizeAssumption
      <4>2. skip' = skip \/ skip' = [skip EXCEPT ![c] = skip[c] + PageSize]
        BY <2>9 DEF ListTotal
      <4>3. QED
        BY <4>1, <4>2
    <3>2. /\ stage'[c] \in {"over", "listPage"}
          /\ \A v \in Clients : v # c => stage'[v] = stage[v] /\ skip'[v] = skip[v]
      BY <2>9 DEF ListTotal, Proceed
    <3>3. UNCHANGED <<promised, removed, asked, reply>>
      BY <2>9 DEF ListTotal, vars
    <3>4. QED
      BY <3>1, <3>2, <3>3
  <2>10. ASSUME NEW c \in Clients, ReplyRead(c) PROVE Promises'
    BY <2>10 DEF ReplyRead, Proceed, vars
  <2>11. ASSUME Serving PROVE Promises'
    <3>1. \A d \in Docs : Considerate(d)
      BY <2>11, OthersAreConsiderate DEF Serving, Settled, Known
    <3>2. UNCHANGED <<skip, promised, stage>>
      BY <2>11 DEF Serving, reading
    <3>3. UNCHANGED skip /\ removed' \in [Clients -> SUBSET Docs]
      BY <2>11 DEF Serving, viewVars, reading
    <3>4. QED
      BY <3>1, <3>2, <3>3 DEF Considerate
  <2>12. CASE UNCHANGED viewVars
    BY <2>12 DEF viewVars, reading, vars
  <2> QED
    BY <2>1, <2>2, <2>3, <2>4, <2>5, <2>6, <2>7, <2>8, <2>9, <2>10, <2>11, <2>12
    DEF ViewsNext, ReadStep
<1>3. QED
  BY <1>1, <1>2, SettledBeside, ReadingKept, PTL DEF ViewsSpec

\* What a client was promised is there while nobody asks it to go.
Owed(c) == {d \in promised[c] : asked[d] = "no"}

OwedIsThere ==
  \A c \in Clients, d \in Docs : d \in Owed(c) =>
    /\ status[d] = "ready"
    /\ d \in chunked => d \in rows
    /\ IsFiniteSet(Above(d)) /\ Cardinality(Above(d)) \in Nat

LEMMA OwedStays == ViewsSpec => []OwedIsThere
<1>1. Settled /\ Placed /\ Promises => OwedIsThere
  <2> SUFFICES ASSUME Settled, Placed, Promises, NEW c \in Clients, NEW d \in Docs, d \in Owed(c)
               PROVE  /\ status[d] = "ready"
                      /\ d \in chunked => d \in rows
                      /\ IsFiniteSet(Above(d)) /\ Cardinality(Above(d)) \in Nat
    BY DEF OwedIsThere
  <2>1. status[d] = "ready" /\ (d \in chunked => d \in rows)
    BY DEF Owed, Promises, Settled, AckedInv, AckedIsDurable
  <2>2. PICK i : IsAt(d, i)
    BY <2>1 DEF Placed, Exists, Row
  <2>3. IsFiniteSet(Above(d)) /\ Cardinality(Above(d)) = i - 1 /\ i \in Int /\ 1 <= i
    BY <2>2 DEF IsAt
  <2>4. QED
    BY <2>1, <2>3
<1>2. QED
  BY <1>1, SettledBeside, PlacedInvariant, PromisesKept, PTL

\* While a get is under way it has counted the chunks of what it was promised
\* once it has counted, and shows it as ready when it ends.
Gets ==
  \A c \in Clients : IsGet(c) /\ subject[c] \in Owed(c) =>
    /\ stage[c] \in {"getDocument", "getRefresh", "over"} /\ subject[c] \in chunked =>
         subject[c] \in counted[c]
    /\ stage[c] = "over" => shown[c][subject[c]] = "ready"

LEMMA GetsShowWhatIsOwed == ViewsSpec => []Gets
<1> USE NoDocAssumption DEF Gets, IsGet, Owed
<1>1. ViewsInit => Gets
  BY DEF ViewsInit
<1>2. Settled /\ Reading /\ Promises /\ OwedIsThere /\ Gets /\ [ViewsNext]_viewVars => Gets'
  <2> SUFFICES ASSUME Settled, Reading, Promises, OwedIsThere, Gets, [ViewsNext]_viewVars
               PROVE  Gets'
    OBVIOUS
  <2>0. \A c \in Clients, d \in Docs : d \in promised[c] /\ asked[d] = "no" =>
          status[d] = "ready" /\ Exists(d) /\ (d \in chunked => d \in rows)
    BY DEF OwedIsThere, Exists, Row
  <2> USE DEF Reading, Promises
  <2>1. ASSUME NEW c \in Clients, NEW d \in Docs, Get(c, d) PROVE Gets'
    BY <2>1 DEF Get, Start, Proceed, vars
  <2>2. ASSUME NEW c \in Clients, GetOwned(c) PROVE Gets'
    BY <2>0, <2>2 DEF GetOwned, Proceed, vars
  <2>3. ASSUME NEW c \in Clients, GetCount(c) PROVE Gets'
    BY <2>0, <2>3 DEF GetCount, Proceed, vars
  <2>4. ASSUME NEW c \in Clients, GetDocument(c) PROVE Gets'
    BY <2>0, <2>4 DEF GetDocument, Proceed, vars
  <2>5. ASSUME NEW c \in Clients, GetRefresh(c) PROVE Gets'
    BY <2>0, <2>5 DEF GetRefresh, Proceed, vars
  <2>6. ASSUME NEW c \in Clients, List(c) PROVE Gets'
    BY <2>6 DEF List, Start, Proceed, vars
  <2>7. ASSUME NEW c \in Clients, ListPage(c) PROVE Gets'
    BY <2>7 DEF ListPage, Proceed, vars
  <2>8. ASSUME NEW c \in Clients, ListCounts(c) PROVE Gets'
    BY <2>8 DEF ListCounts, Proceed, vars
  <2>9. ASSUME NEW c \in Clients, ListTotal(c) PROVE Gets'
    BY <2>9 DEF ListTotal, Proceed, vars
  <2>10. ASSUME NEW c \in Clients, ReplyRead(c) PROVE Gets'
    BY <2>10 DEF ReplyRead, Proceed, vars
  <2>11. ASSUME Serving PROVE Gets'
    <3>1. \A d \in Docs : Gentle(d)
      BY <2>11, ServingIsGentle DEF Serving
    <3>2. UNCHANGED <<stage, subject, shown, counted, promised>>
      BY <2>11 DEF Serving, reading
    <3>3. \A c \in Clients, d \in Docs : d \in promised[c] /\ asked'[d] = "no" =>
            asked[d] = "no" /\ (d \in chunked' => d \in chunked)
      BY <2>0, <3>1 DEF Gentle, Past
    <3>4. QED
      BY <3>2, <3>3
  <2>12. CASE UNCHANGED viewVars
    BY <2>12 DEF viewVars, reading, vars
  <2> QED
    BY <2>1, <2>2, <2>3, <2>4, <2>5, <2>6, <2>7, <2>8, <2>9, <2>10, <2>11, <2>12
    DEF ViewsNext, ReadStep
<1>3. QED
  BY <1>1, <1>2, SettledBeside, ReadingKept, PromisesKept, OwedStays, PTL DEF ViewsSpec

\* A newer document went away since the reading began.
MovedUp(c, d) == \E e \in removed[c] : Newer(e, d)

\* d has been shown to the client as ready, or is still to come: it is not
\* above the offset of the page the client reads, or asks for next.
Ahead(c, d) ==
  \/ shown[c][d] = "ready"
  \/ stage[c] = "listPage" /\ Cardinality(Above(d)) >= skip[c]
  \/ /\ stage[c] \in {"listCounts", "listTotal"}
     /\ Len(page[c]) = PageSize
     /\ Cardinality(Above(d)) >= skip[c] + PageSize

Walks ==
  \A c \in Clients, d \in Docs :
    ~IsGet(c) /\ d \in Owed(c) => MovedUp(c, d) \/ Ahead(c, d)

\* No walk through the pages skips what it was promised.
LEMMA WalksSkipNothing == ViewsSpec => []Walks
<1> USE NoDocAssumption DEF Walks, IsGet, Owed
<1>1. ViewsInit => Walks
  BY DEF ViewsInit
<1>2. /\ Settled /\ Settled' /\ OrderKept /\ Reading /\ Promises
      /\ OwedIsThere /\ OwedIsThere' /\ Walks /\ [ViewsNext]_viewVars
      => Walks'
  <2> SUFFICES ASSUME Settled, Settled', OrderKept, Reading, Promises,
                      OwedIsThere, OwedIsThere', Walks, [ViewsNext]_viewVars
               PROVE  Walks'
    OBVIOUS
  <2>0. \A c \in Clients, d \in Docs : d \in promised[c] /\ asked[d] = "no" =>
          /\ status[d] = "ready" /\ Exists(d)
          /\ Cardinality(Above(d)) \in Nat
    BY DEF OwedIsThere, Exists, Row
  \* A step of one client: what it means for the others, and for itself.
  <2>1. ASSUME NEW c \in Clients, ReadStep(c),
               \A d \in Docs : ~IsGet(c)' /\ d \in promised'[c] /\ asked[d] = "no" =>
                 MovedUp(c, d)' \/ Ahead(c, d)'
        PROVE  Walks'
    <3>1. UNCHANGED <<order, status, asked>>
      BY <2>1, ReadingIsLooking DEF vars
    <3>2. ASSUME NEW v \in Clients, v # c, NEW d \in Docs, ~IsGet(v)', d \in Owed(v)'
          PROVE  MovedUp(v, d)' \/ Ahead(v, d)'
      <4>1. /\ stage'[v] = stage[v] /\ subject'[v] = subject[v] /\ page'[v] = page[v]
            /\ skip'[v] = skip[v] /\ shown'[v] = shown[v]
            /\ promised'[v] = promised[v] /\ removed'[v] = removed[v]
        BY <2>1, <3>2, ReadingIsOnesOwn DEF Promises
      <4>2. MovedUp(v, d) \/ Ahead(v, d)
        BY <3>1, <3>2, <4>1
      <4>3. QED
        BY <3>1, <4>1, <4>2 DEF MovedUp, Ahead, Above, Newer, Exists
    <3>3. QED
      BY <2>1, <3>1, <3>2
  <2> USE DEF Reading, Promises
  <2>2. ASSUME NEW c \in Clients, NEW d \in Docs, Get(c, d) PROVE Walks'
    <3>1. IsGet(c)'
      BY <2>2 DEF Get
    <3>2. QED
      BY <2>1, <2>2, <3>1 DEF ReadStep
  <2>3. ASSUME NEW c \in Clients, GetOwned(c) \/ GetCount(c) \/ GetDocument(c) \/ GetRefresh(c)
        PROVE  Walks'
    <3>1. IsGet(c)'
      BY <2>3 DEF GetOwned, GetCount, GetDocument, GetRefresh, Proceed
    <3>2. QED
      BY <2>1, <2>3, <3>1 DEF ReadStep
  <2>4. ASSUME NEW c \in Clients, List(c) PROVE Walks'
    <3>1. /\ stage[c] = "idle" /\ stage'[c] = "listPage" /\ skip'[c] = 0
          /\ promised'[c] = Acknowledged /\ UNCHANGED <<order, vars>>
      BY <2>4 DEF List, Start, Proceed
    <3>2. ASSUME NEW d \in Docs, d \in promised'[c], asked[d] = "no"
          PROVE  Ahead(c, d)'
      <4>1. (Cardinality(Above(d)) \in Nat)'
        BY <3>1, <3>2 DEF OwedIsThere, vars
      <4>2. QED
        BY <3>1, <4>1 DEF Ahead
    <3>3. QED
      BY <2>1, <2>4, <3>2 DEF ReadStep
  <2>5. ASSUME NEW c \in Clients, ListPage(c) PROVE Walks'
    <3>1. /\ stage[c] = "listPage" /\ stage'[c] = "listCounts"
          /\ page'[c] = PageFrom(skip[c]) /\ skip'[c] = skip[c]
          /\ \A d \in Docs : shown'[c][d] = IF d \in Listed(c)' THEN status[d] ELSE shown[c][d]
          /\ UNCHANGED <<order, vars, subject, promised, removed>>
      BY <2>5 DEF ListPage, Proceed
    <3>2. ASSUME NEW d \in Docs, ~IsGet(c)', d \in promised'[c], asked[d] = "no"
          PROVE  MovedUp(c, d)' \/ Ahead(c, d)'
      <4>1. MovedUp(c, d) \/ Ahead(c, d)
        BY <3>1, <3>2
      <4>2. status[d] = "ready" /\ Exists(d)
        BY <2>0, <3>1, <3>2
      <4>3. CASE MovedUp(c, d)
        BY <3>1, <4>3 DEF MovedUp, Newer
      <4>4. CASE shown[c][d] = "ready"
        BY <3>1, <4>2, <4>4 DEF Ahead
      <4>5. CASE Cardinality(Above(d)) >= skip[c]
        <5>1. \/ \E k \in DOMAIN page'[c] : page'[c][k] = d
              \/ Len(page'[c]) = PageSize /\ Cardinality(Above(d)) >= skip[c] + PageSize
          BY <3>1, <4>2, <4>5, PageShows
        <5>2. CASE \E k \in DOMAIN page'[c] : page'[c][k] = d
          BY <3>1, <4>2, <5>2 DEF Ahead, Listed
        <5>3. CASE Len(page'[c]) = PageSize /\ Cardinality(Above(d)) >= skip[c] + PageSize
          BY <3>1, <5>3 DEF Ahead, Above, Newer, Exists, vars
        <5>4. QED
          BY <5>1, <5>2, <5>3
      <4>6. QED
        BY <3>1, <4>1, <4>3, <4>4, <4>5 DEF Ahead
    <3>3. QED
      BY <2>1, <2>5, <3>2 DEF ReadStep
  <2>6. ASSUME NEW c \in Clients, ListCounts(c) PROVE Walks'
    <3>1. /\ stage[c] = "listCounts" /\ stage'[c] = "listTotal"
          /\ UNCHANGED <<order, vars, subject, page, skip, shown, promised, removed>>
      BY <2>6 DEF ListCounts, Proceed
    <3>2. ASSUME NEW d \in Docs, ~IsGet(c)', d \in promised'[c], asked[d] = "no"
          PROVE  MovedUp(c, d)' \/ Ahead(c, d)'
      <4>1. MovedUp(c, d) \/ Ahead(c, d)
        BY <3>1, <3>2
      <4>2. QED
        BY <3>1, <4>1 DEF MovedUp, Ahead, Above, Newer, Exists, vars
    <3>3. QED
      BY <2>1, <2>6, <3>2 DEF ReadStep
  <2>7. ASSUME NEW c \in Clients, ListTotal(c) PROVE Walks'
    <3>1. /\ stage[c] = "listTotal"
          /\ UNCHANGED <<order, vars, subject, page, shown, promised, removed>>
      BY <2>7 DEF ListTotal, Proceed
    <3>2. \/ Len(page[c]) < PageSize
          \/ stage'[c] = "listPage" /\ skip'[c] = skip[c] + PageSize
      BY <2>7 DEF ListTotal, Proceed
    <3>3. ASSUME NEW d \in Docs, ~IsGet(c)', d \in promised'[c], asked[d] = "no"
          PROVE  MovedUp(c, d)' \/ Ahead(c, d)'
      <4>1. MovedUp(c, d) \/ Ahead(c, d)
        BY <3>1, <3>3
      <4>2. CASE MovedUp(c, d) \/ shown[c][d] = "ready"
        BY <3>1, <4>2 DEF MovedUp, Newer, Ahead
      <4>3. CASE Len(page[c]) = PageSize /\ Cardinality(Above(d)) >= skip[c] + PageSize
        <5>1. stage'[c] = "listPage" /\ skip'[c] = skip[c] + PageSize
          BY <3>2, <4>3, PageSizeAssumption
        <5>2. QED
          BY <3>1, <4>3, <5>1 DEF Ahead, Above, Newer, Exists, vars
      <4>4. QED
        BY <3>1, <4>1, <4>2, <4>3 DEF Ahead
    <3>4. QED
      BY <2>1, <2>7, <3>3 DEF ReadStep
  <2>8. ASSUME NEW c \in Clients, ReplyRead(c) PROVE Walks'
    <3>1. promised'[c] = {}
      BY <2>8 DEF ReplyRead
    <3>2. QED
      BY <2>1, <2>8, <3>1 DEF ReadStep
  <2>9. ASSUME Serving PROVE Walks'
    <3> SUFFICES ASSUME NEW c \in Clients, NEW d \in Docs, ~IsGet(c)', d \in Owed(c)'
                 PROVE  MovedUp(c, d)' \/ Ahead(c, d)'
      OBVIOUS
    <3>1. UNCHANGED <<stage, subject, page, skip, shown, promised>>
      BY <2>9 DEF Serving, reading
    <3>2. ~IsGet(c) /\ d \in Owed(c) /\ d \in promised[c]
      BY <2>9, <3>1, ServingIsGentle DEF Serving, Gentle
    <3>3. /\ IsFiniteSet(Above(d)) /\ Cardinality(Above(d)) \in Nat
          /\ (IsFiniteSet(Above(d)) /\ Cardinality(Above(d)) \in Nat)'
      BY <3>2 DEF OwedIsThere
    <3>4. removed'[c] = removed[c] \cup {e \in Docs : status[e] # "deleted" /\ status'[e] = "deleted"}
      BY <2>9, <3>2 DEF Serving
    <3>5. CASE MovedUp(c, d)
      <4>1. PICK e \in removed[c] : Newer(e, d)
        BY <3>5 DEF MovedUp
      <4>2. Newer(e, d)' /\ e \in removed'[c]
        BY <2>9, <3>4, <4>1, ServingKeepsOrder
      <4>3. QED
        BY <4>2 DEF MovedUp
    <3>6. CASE Ahead(c, d) /\ Above(d) \subseteq Above(d)'
      <4>1. Cardinality(Above(d)') >= Cardinality(Above(d))
        <5>1. ASSUME NEW S, NEW T, IsFiniteSet(T), S \subseteq T PROVE Cardinality(S) <= Cardinality(T)
          BY <5>1, FS_Subset
        <5>2. Cardinality(Above(d)) <= Cardinality(Above(d)')
          BY <3>3, <3>6, <5>1
        <5>3. QED
          BY <3>3, <5>2
      <4>2. QED
        BY <3>1, <3>3, <3>6, <4>1, PageSizeAssumption DEF Ahead
    <3>7. ASSUME NEW e \in Above(d), e \notin Above(d)'
          PROVE  MovedUp(c, d)'
      <4>1. e \in Docs /\ Newer(e, d)' /\ status[e] # "deleted" /\ status'[e] = "deleted"
        BY <2>9, <3>7, AboveStays DEF Above
      <4>2. QED
        BY <3>4, <4>1 DEF MovedUp
    <3>8. MovedUp(c, d) \/ Ahead(c, d)
      BY <3>2
    <3>9. QED
      BY <3>5, <3>6, <3>7, <3>8
  <2>10. CASE UNCHANGED viewVars
    <3>1. UNCHANGED <<order, vars, stage, subject, page, skip, shown, promised, removed>>
      BY <2>10 DEF viewVars, reading
    <3>2. ASSUME NEW c \in Clients, NEW d \in Docs, ~IsGet(c)', d \in Owed(c)'
          PROVE  MovedUp(c, d)' \/ Ahead(c, d)'
      <4>1. MovedUp(c, d) \/ Ahead(c, d)
        BY <3>1, <3>2 DEF vars
      <4>2. QED
        BY <3>1, <4>1 DEF MovedUp, Ahead, Above, Newer, Exists, vars
    <3>3. QED
      BY <3>2
  <2> QED
    BY <2>2, <2>3, <2>4, <2>5, <2>6, <2>7, <2>8, <2>9, <2>10 DEF ViewsNext, ReadStep
<1>3. QED
  BY <1>1, <1>2, SettledBeside, OrderInvariant, ReadingKept, PromisesKept, OwedStays, PTL
  DEF ViewsSpec

\* What an ingest acknowledged is shown to every reading that begins later,
\* ready and with its chunks: to a get of it, and to a walk through the pages
\* in which no newer document goes away.  Documents that arrive push it towards
\* pages still to come, however late their transactions commit.
THEOREM AcknowledgedStaysShown == ViewsSpec => []AcknowledgedIsShown
<1>1. OrderKept /\ Reading /\ Promises /\ Gets /\ Walks /\ ListsWhole => AcknowledgedIsShown
  <2> SUFFICES ASSUME OrderKept, Reading, Promises, Gets, Walks, ListsWhole,
                      NEW c \in Clients, stage[c] = "over",
                      NEW d \in promised[c], asked[d] = "no"
               PROVE  \/ IsGet(c) /\ subject[c] # d
                      \/ ~IsGet(c) /\ \E e \in removed[c] : Position(e) > Position(d)
                      \/ shown[c][d] = "ready" /\ (d \in chunked => d \in counted[c])
    BY DEF AcknowledgedIsShown
  <2>1. d \in Docs /\ d \in Owed(c)
    BY DEF Promises, Owed
  <2>2. CASE IsGet(c)
    BY <2>1, <2>2 DEF Gets
  <2>3. CASE ~IsGet(c) /\ MovedUp(c, d)
    <3>1. PICK e, j, k : /\ e \in removed[c] /\ j \in DOMAIN order /\ k \in DOMAIN order
                         /\ j < k /\ order[j] = d /\ order[k] = e
      BY <2>3 DEF MovedUp, Newer
    <3>2. Position(d) = j /\ Position(e) = k
      BY <3>1 DEF Position, OrderKept
    <3>3. j \in Int /\ k \in Int
      BY <3>1 DEF OrderKept
    <3>4. Position(e) > Position(d)
      BY <3>1, <3>2, <3>3
    <3>5. QED
      BY <2>3, <3>1, <3>4
  <2>4. CASE ~IsGet(c) /\ ~MovedUp(c, d)
    <3>1. shown[c][d] = "ready"
      BY <2>1, <2>4 DEF Walks, Ahead
    <3>2. QED
      BY <2>1, <2>4, <3>1 DEF ListsWhole
  <2>5. QED
    BY <2>2, <2>3, <2>4
<1>2. QED
  BY <1>1, OrderInvariant, ReadingKept, PromisesKept, GetsShowWhatIsOwed, WalksSkipNothing,
     ListsShownWhole, PTL

-----------------------------------------------------------------------------
(* Type correctness of the readings *)

\* A page lists documents that are there.
LEMMA PageIsThere ==
  ASSUME OrderKept, NEW n \in Nat
  PROVE  PageFrom(n) \in Seq({d \in Docs : Exists(d)})
<1> DEFINE P == {k \in DOMAIN order : Exists(order[k])}
           there == Selected(order, P)
           D == {d \in Docs : Exists(d)}
           L == Len(there)
           last == IF n + PageSize <= L THEN n + PageSize ELSE L
<1>1. order \in Seq(Docs) /\ there \in Seq(Docs)
  BY SelectedPicks DEF OrderKept
<1>2. PICK f : Picks(f, there, order, P, Len(order))
  BY <1>1, SelectedPicks
<1>3. Newest = [k \in 1..L |-> there[L + 1 - k]]
  BY DEF Newest
<1>4. \A k \in P : order[k] \in D
  BY <1>1
<1> HIDE DEF P, there, D
<1>5. L \in Nat /\ DOMAIN there = 1..L /\ PageSize \in Nat
  BY <1>1, PageSizeAssumption
<1>6. \A k \in 1..L : there[k] \in D
  BY <1>2, <1>4 DEF Picks
<1>7. \A k \in 1..L : L + 1 - k \in 1..L
  BY <1>5
<1> HIDE DEF L
<1>8. \A k \in 1..L : Newest[k] \in D
  BY <1>3, <1>6, <1>7
<1>9. Len(Newest) = L
  BY <1>3, <1>5
<1>10. PageFrom(n) = SubSeq(Newest, n + 1, last)
  BY <1>9 DEF PageFrom, PageBetween
<1>11. last \in Nat /\ last <= L
  BY <1>5
<1> HIDE DEF last
<1>12. Newest \in Seq(D)
  <2>1. Newest \in [1..L -> D]
    BY <1>3, <1>8
  <2>2. QED
    BY <2>1, <1>5
<1>13. ASSUME NEW s \in Seq(D), NEW a \in Nat, NEW b \in Nat, b <= Len(s)
       PROVE  SubSeq(s, a + 1, b) \in Seq(D)
  BY <1>13
<1>14. QED
  BY <1>9, <1>10, <1>11, <1>12, <1>13 DEF D

\* Readings keep their types, whatever happens to the documents meanwhile.
THEOREM ViewsTypeCorrect ==
  ASSUME IsFiniteSet(Docs)
  PROVE  ViewsSpec => []ViewsTypeOK
<1> USE DEF Stage, Unread
<1>1. ViewsInit => ViewsTypeOK
  <2> SUFFICES ASSUME ViewsInit PROVE ViewsTypeOK
    OBVIOUS
  <2>1. 0 \in 0..Cardinality(Docs)
    BY FS_CardinalityType
  <2>2. QED
    BY <2>1 DEF ViewsInit, ViewsTypeOK, Nothing
<1>2. Settled /\ OrderKept /\ OrderKept' /\ Reading /\ ViewsTypeOK /\ [ViewsNext]_viewVars
      => ViewsTypeOK'
  <2> SUFFICES ASSUME Settled, OrderKept, OrderKept', Reading, ViewsTypeOK, [ViewsNext]_viewVars
               PROVE  ViewsTypeOK'
    OBVIOUS
  <2>0. rows \subseteq Docs /\ reply \in [Docs -> {"none", "ok", "error"}]
    BY DEF Settled, WellFormed, TypeOK
  <2> USE DEF ViewsTypeOK
  <2>1. ASSUME NEW c \in Clients, NEW d \in Docs, Get(c, d) PROVE ViewsTypeOK'
    BY <2>1 DEF Get, Start, Proceed, Acknowledged
  <2>2. ASSUME NEW c \in Clients, GetOwned(c) PROVE ViewsTypeOK'
    BY <2>2 DEF GetOwned, Proceed, End
  <2>3. ASSUME NEW c \in Clients, GetCount(c) PROVE ViewsTypeOK'
    BY <2>0, <2>3 DEF GetCount, Proceed
  <2>4. ASSUME NEW c \in Clients, GetDocument(c) PROVE ViewsTypeOK'
    BY <2>4 DEF GetDocument, Proceed, End
  <2>5. ASSUME NEW c \in Clients, GetRefresh(c) PROVE ViewsTypeOK'
    <3>1. shown' \in [Clients -> [Docs -> Row \cup {Unread}]]
      <4>1. CASE shown' = shown
        BY <4>1
      <4>2. CASE Exists(subject[c]) /\ shown' = [shown EXCEPT ![c][subject[c]] = status[subject[c]]]
        <5>1. [shown[c] EXCEPT ![subject[c]] = status[subject[c]]] \in [Docs -> Row \cup {Unread}]
          BY <4>2 DEF Exists
        <5>2. QED
          BY <4>2, <5>1
      <4>3. QED
        BY <2>5, <4>1, <4>2 DEF GetRefresh
    <3>2. /\ stage' \in [Clients -> Stage]
          /\ outcome' \in [Clients -> {"none", "shown", "missing", "error"}]
          /\ UNCHANGED <<order, subject, page, skip, counted, total, promised, removed>>
      BY <2>5 DEF GetRefresh, Proceed, End
    <3>3. QED
      BY <3>1, <3>2
  <2>6. ASSUME NEW c \in Clients, List(c) PROVE ViewsTypeOK'
    BY <2>6 DEF List, Start, Proceed, Acknowledged
  <2>7. ASSUME NEW c \in Clients, ListPage(c) PROVE ViewsTypeOK'
    <3>1. PageFrom(skip[c]) \in Seq({d \in Docs : Exists(d)})
      BY PageIsThere
    <3>2. page' \in [Clients -> Seq(Docs)] /\ page'[c] = PageFrom(skip[c])
      BY <2>7, <3>1 DEF ListPage
    <3>3. \A d \in Listed(c)' : Exists(d)
      BY <3>1, <3>2 DEF Listed
    <3>4. [d \in Docs |-> IF d \in Listed(c)' THEN status[d] ELSE shown[c][d]]
            \in [Docs -> Row \cup {Unread}]
      BY <3>3 DEF Exists
    <3>5. shown' \in [Clients -> [Docs -> Row \cup {Unread}]]
      BY <2>7, <3>4 DEF ListPage
    <3>6. QED
      BY <2>7, <3>2, <3>5 DEF ListPage, Proceed
  <2>8. ASSUME NEW c \in Clients, ListCounts(c) PROVE ViewsTypeOK'
    BY <2>0, <2>8 DEF ListCounts, Proceed
  <2>9. ASSUME NEW c \in Clients, ListTotal(c) PROVE ViewsTypeOK'
    <3>1. Cardinality({d \in Docs : Exists(d)}) \in 0..Cardinality(Docs)
      BY FS_Subset, FS_CardinalityType
    <3>2. total' \in [Clients -> 0..Cardinality(Docs)]
      BY <2>9, <3>1 DEF ListTotal
    <3>3. skip[c] + PageSize \in Nat
      BY PageSizeAssumption
    <3>4. skip' \in [Clients -> Nat]
      BY <2>9, <3>3 DEF ListTotal
    <3>5. QED
      BY <2>9, <3>2, <3>4 DEF ListTotal, Proceed, End
  <2>10. ASSUME NEW c \in Clients, ReplyRead(c) PROVE ViewsTypeOK'
    <3>1. 0 \in 0..Cardinality(Docs)
      BY FS_CardinalityType
    <3>2. QED
      BY <2>10, <3>1 DEF ReplyRead, Proceed, Nothing
  <2>11. ASSUME Serving PROVE ViewsTypeOK'
    <3>1. order' \in Seq(Docs)
      BY DEF OrderKept
    <3>2. UNCHANGED <<stage, subject, page, skip, shown, counted, total, outcome, promised>>
      BY <2>11 DEF Serving, reading
    <3>3. removed' \in [Clients -> SUBSET Docs]
      BY <2>11 DEF Serving
    <3>4. QED
      BY <3>1, <3>2, <3>3
  <2>12. CASE UNCHANGED viewVars
    BY <2>12 DEF viewVars, reading
  <2> QED
    BY <2>1, <2>2, <2>3, <2>4, <2>5, <2>6, <2>7, <2>8, <2>9, <2>10, <2>11, <2>12
    DEF ViewsNext, ReadStep
<1>3. QED
  BY <1>1, <1>2, SettledBeside, OrderInvariant, ReadingKept, PTL DEF ViewsSpec
=============================================================================
