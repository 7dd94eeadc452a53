-------------------------- MODULE RetrievalService --------------------------
(***************************************************************************)
(* Queries running beside ingestion and deletion.  retrieve searches the   *)
(* shared index, then reads the chunk rows of the hits, then the documents *)
(* of those chunks that belong to the user: three moments, with any number *)
(* of other requests' steps in between.                                    *)
(*                                                                         *)
(* As in IngestionService a document stands for all of its chunks.  Which  *)
(* documents are nearest to a query is abstracted: when the index holds    *)
(* more than the candidate limit, any of them may be the ones returned.    *)
(* The ranking, module HybridRanking, is left open too: when more hits are *)
(* left than asked for, any of them may be the best.                       *)
(***************************************************************************)
EXTENDS IngestionService, FiniteSets, Integers

CONSTANTS Users,     \* accounts
          NoUser,    \* the user of an idle query thread
          Readers,   \* threads serving queries
          TopK,      \* hits asked for
          Limit      \* candidates: top_k times the dense oversampling

ASSUME LimitAssumption == TopK \in Nat \ {0} /\ Limit \in Nat /\ TopK <= Limit

VARIABLES uploader,  \* documents.uploader_id
          phase,     \* where each query is
          asker,     \* the user it is for
          hits,      \* documents it has found so far
          due,       \* history: acknowledged to its user when it began
          seen       \* history: of its documents, the ones retrievable meanwhile

queries == <<phase, asker, hits, due>>
allVars == <<vars, uploader, queries, seen>>

-----------------------------------------------------------------------------

Phase == {"idle", "search", "chunks", "documents", "rank", "answered"}

QueriesTypeOK ==
  /\ uploader \in [Docs -> Users]
  /\ phase \in [Readers -> Phase]
  /\ asker \in [Readers -> Users \cup {NoUser}]
  /\ hits \in [Readers -> SUBSET Docs]
  /\ due \in [Readers -> SUBSET Docs]
  /\ seen \in [Readers -> SUBSET Docs]

QueriesInit ==
  /\ Init
  /\ uploader \in [Docs -> Users]
  /\ phase = [r \in Readers |-> "idle"]
  /\ asker = [r \in Readers |-> NoUser]
  /\ hits = [r \in Readers |-> {}]
  /\ due = [r \in Readers |-> {}]
  /\ seen = [r \in Readers |-> {}]

-----------------------------------------------------------------------------

Retrievable == mem \cap rows

Advance(r, from, to) ==
  /\ phase[r] = from
  /\ phase' = [phase EXCEPT ![r] = to]

\* A query begins; until it is over its user is owed what was acknowledged.
Ask(r, u) ==
  /\ Advance(r, "idle", "search")
  /\ asker' = [asker EXCEPT ![r] = u]
  /\ due' = [due EXCEPT ![r] =
       {d \in chunked : /\ reply[d] = "ok" /\ asked[d] = "no" /\ damage[d] # "index"
                       /\ uploader[d] = u}]
  /\ seen' = [seen EXCEPT ![r] = Retrievable]
  /\ UNCHANGED <<vars, uploader, hits>>

\* The nearest entries of the whole index, whoever they belong to; a search
\* cut short by the limit owes nothing.
Search(r) ==
  /\ Advance(r, "search", "chunks")
  /\ \E H \in SUBSET mem :
       /\ H = mem \/ Cardinality(H) = Limit
       /\ Cardinality(H) <= Limit
       /\ hits' = [hits EXCEPT ![r] = H]
       /\ seen' = [seen EXCEPT ![r] = @ \cap H]
       /\ due' = [due EXCEPT ![r] = IF H = mem THEN @ ELSE {}]
  /\ UNCHANGED <<vars, uploader, asker>>

\* Mutant: the hits are taken from the index alone.
ReadChunksSkipped(r) ==
  /\ Advance(r, "chunks", "documents")
  /\ UNCHANGED <<vars, uploader, asker, hits, due, seen>>

\* get_many: hits whose chunk rows are not (or no longer) committed go.
ReadChunks(r) ==
  /\ Advance(r, "chunks", "documents")
  /\ hits' = [hits EXCEPT ![r] = @ \cap rows]
  /\ seen' = [seen EXCEPT ![r] = @ \cap rows]
  /\ UNCHANGED <<vars, uploader, asker, due>>

\* get_many_for_user: only documents of the user that still exist.
ReadDocuments(r) ==
  /\ Advance(r, "documents", "rank")
  /\ hits' = [hits EXCEPT ![r] = {d \in @ : Exists(d) /\ uploader[d] = asker[r]}]
  /\ seen' = [seen EXCEPT ![r] = @ \cap hits'[r]]
  /\ UNCHANGED <<vars, uploader, asker, due>>

\* The hits are ranked, and of the ranking the first top_k are the answer.
Rank(r) ==
  /\ Advance(r, "rank", "answered")
  /\ \E H \in SUBSET hits[r] :
       /\ H = hits[r] \/ Cardinality(H) = TopK
       /\ Cardinality(H) <= TopK
       /\ hits' = [hits EXCEPT ![r] = H]
       /\ seen' = [seen EXCEPT ![r] = @ \cap H]
  /\ UNCHANGED <<vars, uploader, asker, due>>

\* The answer goes out, the ranking raises, or a failing read ends the query
\* without an answer.
Over(r) ==
  /\ \/ phase[r] \in {"rank", "answered"}
     \/ phase[r] \in {"chunks", "documents"} /\ "db" \in Faults
  /\ phase' = [phase EXCEPT ![r] = "idle"]
  /\ asker' = [asker EXCEPT ![r] = NoUser]
  /\ hits' = [hits EXCEPT ![r] = {}]
  /\ due' = [due EXCEPT ![r] = {}]
  /\ seen' = [seen EXCEPT ![r] = {}]
  /\ UNCHANGED <<vars, uploader>>

\* What the query may still return.
Candidates(r) ==
  CASE phase[r] = "search" -> Docs
    [] phase[r] \in {"chunks", "documents", "rank"} -> hits[r]
    [] OTHER -> {}

\* The other requests go on; what they make retrievable is noted, and a
\* document whose delete is requested is owed no longer.
Others ==
  /\ Serve
  /\ seen' = [r \in Readers |-> seen[r] \cup (Candidates(r) \cap mem' \cap rows')]
  /\ due' = [r \in Readers |-> {d \in due[r] : asked'[d] = "no"}]
  /\ UNCHANGED <<uploader, phase, asker, hits>>

\* A restart loses the queries too.
Restart ==
  /\ Crash
  /\ phase' = [r \in Readers |-> "idle"]
  /\ asker' = [r \in Readers |-> NoUser]
  /\ hits' = [r \in Readers |-> {}]
  /\ due' = [r \in Readers |-> {}]
  /\ seen' = [r \in Readers |-> {}]
  /\ UNCHANGED uploader

QueryStep(r) ==
  \/ \E u \in Users : Ask(r, u)
  \/ Search(r) \/ ReadChunks(r) \/ ReadDocuments(r) \/ Rank(r) \/ Over(r)

QueriesNext == Others \/ Restart \/ \E r \in Readers : QueryStep(r)

QueriesSpec == QueriesInit /\ [][QueriesNext]_allVars

-----------------------------------------------------------------------------

Answered(r) == phase[r] = "answered"

\* An answer with room left lacks nothing that an ingest had acknowledged
\* before the query began, unless its delete was requested, a save cut short
\* had taken its vectors, or the search was cut short by other documents:
\* uncommitted, failing and restarted requests of others cannot hide it.
AcknowledgedIsRetrieved ==
  \A r \in Readers : Answered(r) /\ Cardinality(hits[r]) < TopK => due[r] \subseteq hits[r]

\* Every document in an answer was retrievable, in index and rows at once, at
\* some moment of the query, although the two are read one after the other: a
\* query never sees a state of a document that did not exist.  (Not claimed
\* once its delete is requested: the purge may come between the two reads.)
AnswersWereRetrievable ==
  \A r \in Readers : Answered(r) =>
    \A d \in hits[r] : asked[d] = "no" => d \in seen[r]
=============================================================================
