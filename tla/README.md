# TLA+ models of Research-Assistant

This directory specifies the backend of Research-Assistant (`src/backend/app`)
in TLA+: what its components promise, how concurrent requests, failing saves,
lost transactions and restarts affect them, and which of the promises hold. TLC
checks the models on small instances; TLAPS proves the theorems of
`IngestionProofs`, `PipelineProofs`, `FaissProofs`, `AgentProofs`, `AuthProofs`,
`ServerProofs` and `StorageProofs` for every value of the constants. Paths below
are relative to `src/backend/app`.

## The system

A FastAPI process serves requests from an event loop and a pool of threads. All
threads share one container (`core/container.py`), and so one vector store and
one instance of each service. Every use-case opens its own database session, a transaction
under READ COMMITTED with `expire_on_commit=False`.

| component | state | operations | interacts with |
|---|---|---|---|
| ingestion (`modules/rag/services.py`) | `documents`, `document_chunks`, `embeddings` rows | ingest, its failure path, delete; get, list, chunk_count read | storage, loaders, embedder, vector store, database |
| pipeline of one document (`loaders.py`, `splitters.py`, `chunking.py`, `embeddings.py` in `modules/rag`) | none between documents; units, chunks and vectors of the one in hand | load, split, chunk, embed, write rows and vectors | the step in the middle of ingestion |
| vector store (`modules/rag/vectorstore.py`) | faiss index, Python copy of its vectors, id list; two files | add, search, delete_by_prefix, save, load at start | called by ingestion and retrieval threads, no lock |
| retrieval (`modules/rag/retrieval.py`, `citations.py`) | none | retrieve: rewrite, search, two reads, rank, cite | vector store, database, LLM |
| auth (`modules/auth`) | `users`, `sessions` rows | register, login, refresh, logout, logout-all; access-token check only reads | database |
| agent (`modules/agent`) | one run: plan, results, scratchpad, trace | plan, execute with retries and timeouts, compose the answer | LLM, tools (retrieval) |
| shared (`shared/`) | engine, session factory; files of the object storage | sessions, repositories that flush and never commit; put, get, head, delete | everything |
| LLM providers (`modules/llm`) | none | complete | remote service |
| server (`main.py`, `core/middleware.py`, `core/context.py`, `core/exceptions.py`, `api/routers/health.py`) | trace id of each request, event loop, thread and connection pools | name, run, answer and log a request; the two health probes | every endpoint |
| wiring (`core/config.py`, `core/container.py`, the factories) | the container's fields | Settings, build statement by statement | what earlier starts left on disk and in the database |
| alembic | - | migrations | - |

The uploads package is imported by the code and absent from the source tree.
`chat`, `workspaces`, `documents`, `storage`, `vision`, `nlp`, `workers` and
others are empty packages; `frontend`, `ml` and `deployment` hold placeholders.

### What is hard

* ingest and delete cross two stores (database, vector index with its file)
  without a common transaction: vectors are added before the commit, the file is
  saved after it, and the save of any thread writes everybody's vectors.
* A delete may be admitted while the same document is being ingested. The chunk
  inserts hold a key-share lock on the document row that the delete of the row
  waits for, after it has purged the index.
* Cleaning up after a failure can itself fail.
* A query reads the index, then chunks, then documents, at three moments.
* The vector store rewrites three lists one after the other without a lock, a
  search reads two of them at different moments, and a save truncates and writes
  two files one after the other, over the save before.
* Refresh-token rotation reads a row, decides, and writes later; bulk
  revocations update rows that other open transactions hold.
* Tool calls that time out go on running in threads nobody waits for.
* What a client reads in several statements (a document and its chunk count, a
  page of documents, their counts and the total) changes between them.
* Threads, connections and the event loop are waited for by the same requests,
  and the readiness probe waits for a connection on the loop itself.
* The index on disk outlives the settings it was written under.
* Lists are joined by position, with a `zip` that ends with the shorter one:
  chunks with their vectors and vector ids, hits with their scores. Blank
  pieces, empty pages and overlapping cuts sit in between. BM25 divides by an
  average length that can be zero.

`PROJECT.json` lists these as hazards at their lines, with the properties that
are about each of them.

### What makes each component correct

* **Ingestion**: a failed or deleted document leaves no vectors; an acknowledged
  one keeps rows, vectors and saved vectors as long as no save is cut short; a
  document becomes retrievable
  exactly when it becomes ready; every request returns, every document leaves
  `processing`, every delete takes effect.
* **Pipeline**: every chunk is cited with its true page and heading; chunks number
  themselves in the order of the text and lose none of it but the tables of a
  DOCX; a vector's id names the row of the chunk that was embedded.
* **Vector store**: position *k* of the index belongs to id *k*; each call is
  atomic for its callers; a search returns a vector under its own id.
* **Retrieval**: an answer with room left holds all that was acknowledged before,
  and no answer what was never retrievable; ranking respects both scores and
  ignores other users' documents.
* **Reads**: a document is shown in one of the states it had; what was
  acknowledged is found in a get and in a walk through the pages.
* **Server**: every request is answered, and replies and log lines name their own
  request.
* **Wiring**: what serves is complete and shared; what was ingested is found
  after any starts in between, under its own name.
* **Object storage**: both backends are a map from keys to objects for calls
  that do not meet a change of their object.
* **Auth**: rotation revokes the old row together with issuing the new one; a
  bulk revocation revokes every row it selected; an account comes with a session.
* **Agent**: a step starts after its dependencies; results are final; the trace
  tells what happened; a run ends and fails only if its plan is unusable; the
  answer cites what successful steps found, each chunk once.

## Modules

| module | models | role |
|---|---|---|
| `IngestionService` | `services.py` with `router.py`, `repositories.py`, `models.py` | core |
| `DocumentIndex` | the promise of the API for one document at a time | abstract specification |
| `IngestionProofs` | - | theorems about `IngestionService`, `RetrievalService` and `DocumentViews` |
| `DocumentPipeline` | `loaders.py`, `splitters.py`, `chunking.py`, `embeddings.py`, `services.py:100-139` | what the step `Load` to `AddVectors` of `IngestionService` does to one document |
| `PipelineProofs` | - | theorems about `DocumentPipeline` |
| `RetrievalService` | `retrieval.py:152-193`, `215-218` | extends `IngestionService` with queries |
| `DocumentViews` | `services.py:152-181`, `router.py:56-92`, `repositories.py:43-111` | extends `IngestionService` with gets and lists |
| `HybridRanking` | `retrieval.py:74-226` | the computation between the reads and the answer |
| `FaissVectorStore` | `vectorstore.py:42-132` without `search` | statement level |
| `VectorSearch` | `vectorstore.py:89-102` | extends `FaissVectorStore` with searches |
| `FaissProofs` | - | theorems about `FaissVectorStore`, `VectorSearch`, `VectorIndex` and `HybridRanking` |
| `Selection` | Python's `[x for x in xs if ...]`, as in `vectorstore.py:108-111`, and `sorted(..., reverse=True)`, as in `retrieval.py:215` | used by `FaissVectorStore`, `AgentRun`, `Container`, `HybridRanking` and `DocumentViews` |
| `SelectionProofs` | - | lemmas about `Selection` |
| `VectorIndex` | what callers take the store for; add and delete of `InMemoryVectorStore` are its own | abstract specification |
| `AuthService` | `auth/services.py`, `auth/repositories.py` | |
| `AuthProofs` | - | theorems about `AuthService` |
| `AgentRun` | `agent/planner.py`, `executor.py`, `orchestrator.py`, `decision_trace.py`, `tools/` | |
| `AgentProofs` | - | theorems about `AgentRun` |
| `HttpServer` | `main.py`, `core/middleware.py`, `core/context.py`, `core/exceptions.py`, `api/routers/health.py`, `core/container.py:152-172` | one process seen from its resources |
| `ServerProofs` | - | theorems about `HttpServer` and `Container` |
| `Container` | `core/config.py`, `core/container.py`, the factories, and the vector store across starts | |
| `ObjectStorage` | `shared/storage.py` | both backends |
| `ObjectStore` | the port of `shared/storage.py:36-49` | abstract specification |
| `StorageProofs` | - | theorems about `ObjectStorage` |
| `MCIngestion`, `MCRetrieval`, `MCViews`, `MCRanking`, `MCFaiss` | - | symmetry sets for TLC |
| `MCAgent` | - | what retrieval may find in a run |
| `MCContainer` | - | the settings of the starts |

Definitions named after a mistake and preceded by "Mutant:" are variants of the
definition that follows them. They are part of no specification: put in its
place, each makes the property it belongs to fail, which shows that the property
depends on that code (`PROJECT.json`, `mutants`).

### IngestionService

One step is one effect that others can see. `status` and `rows` are what is
committed in the database; `mem` and `disk` are the index held by the process
and the one last saved; a worker's `pc` is its place in `ingest`,
`_pipeline`, `_mark_failed` or `delete`, and `doc` the document it works on.

| action | code |
|---|---|
| `BeginIngest`, `Reread`, `Load`, `Persist`, `AddVectors`, `Commit`, `Refresh`, `SaveIndex`, `Respond` | services.py:67-139 and 97, router.py:44-53 |
| `FailPurge`, `FailSave`, `FailMark` | services.py:141-150 |
| `BeginDelete`, `DeletePurge`, `DeleteSave`, `DeleteRows` | services.py:183-194 |
| `Crash` | the process ends and starts again: requests and open transactions are lost, the index is loaded from disk |

Abstractions: a document stands for all of its chunks, which are added, purged
and committed together. `Load` keeps the outcomes of fetching, parsing, chunking
and embedding: an error, some chunks, or none. A vector-store call is one step
(`FaissVectorStore` looks inside). A save writes over the files of the save
before: it is completed (`Saved`), or it raises (`CutShort`) or the process ends
in it (`Crash`), and then the files hold any part of what they held, of
whichever request. `damage` is history: whose vectors a save cut short has taken
from the files, and whose are gone from the index as well since a start had to
load them. A start that cannot read a torn file fails; it is one more case of
vectors that are gone, once somebody has taken the file away. That names and
vectors may be of different saves then is seen in `FaissVectorStore`, and two
saves that overlap are two steps here. The row lock is `RowLocked`: a delete
waits while an ingest of the same document has inserted chunks and not
committed. Deleting a row that another request has deleted is a warning of
SQLAlchemy and not an error. `Reread` is the refresh of the committed row at
line 89: it stands before the `try`, so that a document deleted by then, or a
database error, ends the request with nobody marking the document failed. A
request that is rejected at admission (404, 409) changes nothing and is not a
step. `reply` and `asked` are history variables, read by properties only;
`asked` tells a delete admitted before the vectors were added ("racing") from
one admitted after ("settled").

`DocumentIndex` is the promise: `retrievable` (mapped to `mem \cap rows`)
grows only in the step in which the document becomes ready, and a document that
is reported failed or deleted is not in it. `ImplementsPromise` says that every
step of the threads is a step of `DocumentIndex` or changes neither variable.
It needs the process to stay up: a restart takes unsaved vectors away.

### DocumentPipeline

One object from the storage to its vectors, line by line. A line is `blank`,
`body`, a `heading` (a paragraph in a heading style), a row of a `table` (both
text to the other loaders) or a page `break` (white space to all but the PDF
loader). The DOCX loader goes through `document.paragraphs`, which has no
tables: `ReadDocx` skips them, and what `ParagraphsReachChunks` promises is
without them. A text is the sequence of its line numbers, so that properties can
say which line came from where. `stage` is the place in `_pipeline`; `pos`,
`page`, `heading` and `lines` are the loader's loop; `units` the
`LoadedDocument`s; `unit`, `at`, `index` and `chunks` the chunk manager's loop.
`vectors` is what the embedder returned, seen as the text each vector is of;
`rows` and `vectorIds` are what the loop over `zip(chunks, vectors)` has written
so far, and `stored` the two lists the vector store is given: three lists with
nothing but their order in common. How the splitter libraries cut is left open:
`NextPiece` takes any next piece that skips nothing, overlaps the piece before
by at most `ChunkOverlap` and is no longer than `ChunkSize`. Embedding raises or
returns a list of vectors: one per text in order if `OnePerText`, otherwise also
one that is too short or too long, which nothing in the code checks.

### RetrievalService

Extends `IngestionService` with query threads: `Ask`, `Search`, `ReadChunks`,
`ReadDocuments`, `Rank`, `Over`. `Others` are the steps of ingestion and deletion.
Which entries are nearest to a query is abstracted: any subset of the index up to
`Limit`, the number of candidates. Which of the hits that are left rank first is
too: `Rank` keeps any `TopK` of them. An answer that is full may therefore lack a
document for good reasons, and `AcknowledgedIsRetrieved` is about answers with room
left. `due` and `seen` are history variables: what was acknowledged
when the query began (nothing once the candidate limit has cut the search short,
no document whose delete is requested, and none whose vectors a save cut short had
taken), and which of the documents the query
may still return were retrievable at some moment of it.

### DocumentViews

Extends `IngestionService` with clients that read. A get is two transactions:
`GetOwned` and `GetCount` (`chunk_count`), then `GetDocument` and `GetRefresh`
(`get`); the router calls them in this order. A list is three statements,
`ListPage`, `ListCounts`, `ListTotal`, each of which sees what is committed when it
runs; a client that got a full page asks for the next offset. `order` is the
order of `created_at`, where a document committed late may take its place below
newer ones. All documents belong to the one user who reads. `promised` and `removed`
are history: what was acknowledged when the reading began, and what went away
since. A page is cut from the part of `order` whose rows exist (`Selected`),
newest first. The order is strict: the query sorts by `created_at` alone
(repositories.py:49), so that documents of the same microsecond may change places
between pages, which the model leaves out.

### HttpServer

`place` is where a request is: waiting for the loop, for a thread or for a
connection, inside a database call, or answered. The loop runs one coroutine at
a time; `loop` names the one that blocks it, which is only ever the readiness
probe, as `readyz` is an async function that calls the checks directly. API
requests are seen through the sessions they open, one at a time inside a thread
call, in one call or in several (the current user, then the endpoint). That they
are one at a time is read off the code, where no service is called inside a
`with self._session_factory()` block of another, and not a result. `context`
is the context variable of each request's task, `sent` what its client can
read, `accessLog` the ids of its log lines. `RespondCrash` is the handler of
`Exception`, which Starlette installs outside of every middleware, and does not call
in debug mode (`Debug`): the reply is its traceback then.

### Container

A start is `Start` (Settings), then one action per statement of
`Container.build`, each of which may raise and end the process as its factory does
(the S3 client refuses a malformed endpoint, storage.py:118); `objects` are the
container's fields with what each holds, `lists` the inside of the vector store.
While the application serves, documents are ingested and deleted one at a time,
with what raises when the dimensions of the settings, of the model and of the
loaded index differ: `DeleteRaises` publishes ids and vectors before faiss
refuses the rebuild. `Stop` keeps the index file and the rows, and the next start
may have other settings. `home` is history: the store each document went into.
`UpgradeSpec` is `ContainerSpec` without starts that lower the dimensions.

### ObjectStorage

The local backend step by step, from one system call to the next, without a lock
(`Open` cuts the file, `Write` fills it, a deleted file takes what is written to
it with it); the S3 backend one request per call, which may fail with or without
effect. `settled` and `quiet` are history: what the last undisturbed change of a
key achieved, and whether a call met no other change of its key. The module is
used by no other one, because the code that calls the storage (the uploads
package) is not in the tree; ingestion only reads.

### HybridRanking

The computation of `retrieve` from hits, rows, ownership and lexical scores to
the ranked answer. Min-max and max normalisations are multiplied out, so fused
scores of integers compare exactly as the code's quotients do. The sort is
`Descending` of the module `Selection`: the order of the positions in which the
higher key comes first, and of equal keys the one that was first. The BM25 formula
(logarithms) is replaced by any lexical score per chunk, with one exception: its
division by the average text length. `_TOKEN_RE` knows ASCII letters, digits
and `_`; a text in another script has no token (`wordless`). When no candidate
has one and the query has (`terms`), the average is zero and the retrieval fails
(`Undefined`, `status`); no text of the repository promises otherwise, so this is
listed as a hazard (retrieval.py:105) and not as a divergence.

### FaissVectorStore

Each statement of `add`, `delete` and `save` is a step, so that threads and
restarts can come in between. `self._vectors` and the `keep_vectors` of a
running delete may be the same Python list (`listOwner`). A vector is named by
the id it was added with: the lists agree when they are equal. `Crashes` says
whether restarts happen never, between saves, or anywhere; a file that was
opened for writing and not written is `Torn`, and a start that meets one fails.
The comprehensions of `delete` are `Selected(list, positions)` of the module
`Selection`: the condition is the set of positions it holds at, because the
provers cannot look into the operator that `SelectSeq` takes.

### VectorSearch

Searches beside the statements of `FaissVectorStore` (`Beside`): the index returns
a position and the vector there (`SearchIndex`), the position is compared with the
length of the id list (`CheckPosition`), and the id is read (`ReadName`), which
raises if the list has become shorter. One position stands for all that a search
returns. `calm` is history: no delete has been between its assignments of the ids
and of the index (`Replacing`) since the search began.

### AuthService

A session row stands for its refresh token. A transaction's inserted row is
`fresh`, the rows it has marked revoked are `held`: both are invisible to others
until `Commit` and gone at `Abort`. `cleared` is history: the rows a bulk `UPDATE` has
selected. A write to a row that another transaction
holds waits; a bulk `UPDATE` selects its rows at its start, waits, and skips
those revoked meanwhile; a second insert of an e-mail waits for the first
transaction (`Registering`). Accounts are active throughout (nothing clears
`is_active`), and an expired token is a rejection, which changes nothing.

### AgentRun

One run from the query to its end. Items of the LLM's answer are seen by what
the planner checks: an id, whether the item is kept, and its dependencies. A
timeout leaves a thread in `late`, which ends at any later moment. A step's tool
is retrieval, which succeeds with one of the lists of chunks in `Hits` or fails,
or one of the placeholders, which always fail (`Tool`, `ToolResults`). `found`
keeps the chunks of each step's result. `Compose` is the answer: the last step
of the plan speaks, a note is added if a step failed, and the citations are
merged in plan order by chunk. A citation keeps the number it has in its own
step, so numbers may repeat in an answer.

## Runs

| run | expects | properties | bounds |
|---|---|---|---|
| `ingest_clean` | pass | ErrorMeansFailed, ImplementsPromise, IngestSettles, DeleteTakesEffect | 2 documents, 2 workers, no faults, the process stays up |
| `ingest_delete_race` | violation | DeleteRemovesVectors | 1 document, 2 workers, no faults |
| `retrieve_beside` | pass | FailedLeavesNoVectors, DeletedLeavesNoVectors, AckedIsDurable, AcknowledgedIsRetrieved, AnswersWereRetrievable | 2 documents, 2 workers, 1 query thread, 2 users, 1 hit asked for, 2 candidates; failing transactions and reads, restarts, in saves too |
| `document_views` | pass | GetShowsOneLife, ReadyIsListedWhole, AcknowledgedIsShown | 2 documents, 2 workers, 1 client, pages of 1, no faults |
| `hybrid_ranking` | pass | AnswerIsComplete, BetterComesFirst, OthersDoNotMatter | 3 chunks, scores 0..2, weights 7 and 3, up to 2 hits asked for |
| `document_pipeline` | pass | PagesAreTruthful, HeadingsAreTruthful, IndicesFollowTheText, ParagraphsReachChunks, VectorsNameTheirRows | objects of up to 5 lines, chunks of 2 lines, overlap of 1, a vector per text |
| `auth_sessions` | pass | RotationRevokesParent, BulkRevokesAll, RequestReturns | 1 user, 3 session rows, 2 workers |
| `faiss_serial` | pass | ListsAgree, SearchNamesItsVector, ImplementsContract | 3 documents of 2 chunks, 1 thread that calls, 1 that searches, restarts between saves |
| `faiss_threads` | violation | ListsAgree | 2 documents of 1 chunk, 2 threads |
| `agent_run` | pass | DependenciesFirst, EndsAsThePlanAllows, TraceTellsTheRun, CitationsAreMerged, ResultsAreFinal, RunEnds | 3 items of up to 2 dependencies, 1 retry, timeouts, 1 placeholder tool, 2 chunks |
| `http_requests` | pass | RepliesNameTheirRequest, EveryRequestAnswered | 3 requests, 2 threads, 1 connection, up to 2 sessions each, 1 id that clients send, not in debug mode |
| `container_starts` | pass | WiredTogether, ReadyIsFoundAgain, AnswersNameTheirVectors | 4 starts, 3 documents, dimensions 2 and 3, never lowered |

The runs keep to what could go wrong: type invariants are theorems where a module
has proofs, and hold in the state spaces of the runs as well.

Further configurations answer one question each, outside the regular set:

| configuration (module) | shows |
|---|---|
| `ingest_faults` (`MCIngestion`) | the three vector invariants with every fault, failing saves included; holds, and is proved in `IngestionProofs` |
| `object_storage` (`ObjectStorage`) | SettledIsStored, QuietCallsAgree, ImplementsPort with 3 threads, 2 keys; holds, and is proved in `StorageProofs` |
| `ingest_save_raises` (`MCIngestion`) | ErrorMeansFailed fails when saves raise |
| `ingest_torn_save` (`MCIngestion`) | AckedIsNeverLost fails when the process ends in a save |
| `faiss_torn` (`VectorSearch`) | ListsAgree fails when the process ends between the two files |
| `faiss_search` (`VectorSearch`) | SearchNamesAlways fails beside a delete |
| `pipeline_embedder` (`DocumentPipeline`) | VectorsNameTheirRows fails with an embedder that returns too few or too many vectors |
| `auth_family` (`AuthService`) | RevokesTheFamily fails beside a refresh |
| `http_debug` (`HttpServer`) | ErrorsCarryTheTraceId fails in debug mode |
| `agent_answers` (`MCAgent`) | AlwaysAnswers fails |
| `http_probe` (`HttpServer`) | HealthzAnswers fails when the database hangs |
| `http_echo`, `http_access_log` (`HttpServer`) | TraceIdIsEchoed and EveryRequestIsLogged fail |
| `container_dims` (`MCContainer`) | AnswersNameTheirVectors fails when dimensions change and change back |
| `container_key` (`MCContainer`) | BootsWithoutAPIKey fails with the rewriter enabled |

Why the bounds are enough. The properties of ingestion speak of one document;
the second is there because a save writes everybody's vectors, so that two
workers can overlap on one document or on two; the theorems cover any number.
One reader suffices because queries change nothing that others read, and pages
of one of two documents are enough for an offset that a deletion shifts. With
one connection and two threads every request can meet a pool that is used up; a
third request finds both threads taken while the readiness probe holds the loop.
Four starts are enough to raise the dimensions, delete under them and start
twice more. Two candidates of two documents, of which one is asked for, cover an
answer that is cut and one with room left; that the candidates themselves are
cut is left to the theorem. One searching thread is enough, as a search changes
nothing. Three session rows are the fewest in which two refreshes of one token
overlap. Three steps are the fewest with a circle that is neither a pair nor has
every step in it, and a dependency over two waves. Two chunks that two steps
find in different order are enough for a citation whose number differs between
steps. Five lines hold two pages or sections of more than one chunk, or an empty
one between two others; a chunk of two lines with an overlap of one has cuts
with and without overlap and pieces that are blank, half blank and full.
Documents, session rows, lines and answers are finite pools that are used up,
and a run of the agent ends: the configurations therefore switch the deadlock
check off, and the liveness properties say what must not get stuck instead.

### Divergences

Shown by runs of the regular set:

* `ingest_delete_race`: "Delete a document and its index entries"
  (router.py:98), but a delete that purges before a running ingest adds its
  vectors leaves them in the index of a document that no longer exists.
* `faiss_threads`: positions of the index are ids (vectorstore.py:45-46), but
  two threads in the store at once put the lists out of step for good.

Shown by the further configurations:

* `ingest_save_raises`: "failures mark the document `failed`"
  (services.py:7-8), but a raising save at line 97 leaves the document ready and
  one at line 143 leaves it processing.
* `ingest_torn_save`: failures "leave no orphan vectors" (services.py:7-8) is kept,
  but at the price of everybody's: a save truncates the files it replaces
  (vectorstore.py:130-132), and if it is cut short, documents acknowledged long ago
  have lost their vectors at the next start. `faiss_torn` looks inside: after a
  crash between the two files positions are not ids (vectorstore.py:45-46).
* `faiss_search`: nor are they for a search that meets the assignments of a delete
  (lines 112-121): it names another chunk, or raises.
* `auth_family`: "Revoke every refresh session for the current user"
  (auth/router.py:120), and reuse of a token "revokes the whole session family"
  (auth/services.py:5-7, "kill the whole family" at 116), but the successor that a
  concurrent refresh has inserted and not committed is no row the `UPDATE` sees,
  and it stays valid.
* `http_debug`: "All error responses ... always carry the request trace_id" and the
  catch-all handler "never leaks internals" (core/exceptions.py:4-6), but with
  `DEBUG=true`, as in `.env.example:8`, main.py:48 makes the framework answer an
  unhandled error with a traceback that has no trace id.
* `agent_answers`: "the agent always has a path to an answer" (planner.py:6-9),
  but a plan with a repeated id or a circle makes the run fail.
* `http_probe`: the liveness probe has "no dependencies" (core/health.py:3), but
  a readiness probe that waits for a database that does not answer holds the
  event loop, and with it every other request.
* `http_echo`, `http_access_log`: the trace id is echoed "in the response"
  (middleware.py:23) and there is one access-log line per request
  (middleware.py:38), but an exception without a handler passes the middleware as
  an exception: its reply has neither.
* `container_dims`: positions are ids (vectorstore.py:45-46), but a delete under
  dimensions other than the index's leaves ids and index of different lengths,
  and after the settings are changed back searches name the wrong documents.
* `container_key`: the app "boots without an API key" (container.py:132-133), but
  not with the query rewriter enabled.

Other limits of the code that the properties leave room for are named at the
hazards: a restart, or a refresh that raises at line 89, leaves a document
processing for ever although "failures mark the document `failed`"
(services.py:7-8); a restart between a commit and the save that follows it; an
embedder that returns another number of vectors than texts (`pipeline_embedder`);
the text of DOCX tables; scores zipped past ids that do not parse; overlapping
refreshes of one token; the error the loser of two registrations gets;
dependencies on dropped steps; repeated citation numbers; and a retrieval over
texts without a token.

### Fairness

* `IngestionService` (in `ingest_clean`): weak fairness of each worker's admitted
  request. A thread runs on; file and database calls return or raise; the lock a
  delete waits for is released by a worker that is itself fair and waits for
  nobody.
* `AuthService`: strong fairness of each worker, because a waiter may see the
  row free and taken again by others; the database queues waiters and serves
  them in turn.
* `AgentRun`: weak fairness of the request thread. This includes that a
  provider, and a tool without a timeout, returns in the end. Abandoned threads
  are not assumed to end.
* `HttpServer`: weak fairness of the loop for each request that is ready to run
  (`LoopFairness`, asyncio's queue), and in `FairSpec` of the database calls and of
  the hand-over of a free connection. The pool's timeouts are not relied on, as
  they would hide a circle of waiting. `http_probe` assumes the loop only.

`Container`, `RetrievalService`, `DocumentViews` and `ObjectStorage` state no
liveness: their steps return or raise by themselves.

## Proofs

Nothing is assumed but the named assumptions of the modules on their constants.
Each safety theorem follows from an inductive invariant; TLC has checked each of
them on the instance of the component's run.

`IngestionProofs` assumes only that the idle marker is no document and that the
faults are among the three. `WellFormed` (the types, and that a busy worker has
a document and an idle one has none) is the base. What makes the safety
properties inductive is knowing, for every place a worker can be in, what holds
of its document:

* `FailureLeavesNoVectors`: from `failSave` on the document is out of `mem`,
  and at `failMark` out of `disk` too; a document that is failing or failed is
  being added by nobody, since only the worker that admitted it adds it.
* `DeletionLeavesNoVectors`: a settled delete past its purge, or a deleted
  document, has no vectors in `mem`, and past its save none in `disk`.
* `AcknowledgedIsDurable`: an ingest past its commit that nobody asked to delete
  has rows and vectors, past its save also saved ones. Saves by others copy `mem`,
  which keeps them. A save cut short takes what it takes from `disk`, and that is
  noted; a crash replaces `mem` by a `disk` that has whatever was not noted.
* `PromiseKept`: without "crash" among the faults, each action maps to one
  action of `DocumentIndex` or to a stutter. `RowsArePublished` shows that rows
  exist only for documents that have been ready. The theorem covers failing
  saves and transactions; the run checks the instance without them.
* `ErrorIsFailure` and `ReadyStaysSearchable` are about requests without injected
  faults. The first is inductive with `WellFormed`: a document is answered for by
  the worker that admitted it only, and a status is never changed after an error
  except to deleted. The second uses the invariant of the acknowledged case
  (`AckedInv`) and that an unpublished document has no rows: a committed document
  stays in `mem` until its own failure path or a requested delete purges it.
  `ProcessingIsTended`, under the same condition: a document in processing is in
  the hands of a thread that has still to mark it ready or failed. Each of the
  three faults, allowed, refutes it.

About queries it makes no further assumptions. `Beside` shows that a run with
queries is a run of `IngestionService`, so its theorems hold beside queries, and
`OthersAreConsiderate` what a step of another request may do to a document: an
acknowledgement is not taken back, and rows of a document nobody deletes appear
only when its vectors are there. `AcknowledgedIsFound` carries durability along
the three reads (`Owing`) to the ranking, where an answer that has room left is the
whole of it; `AnswersWereThere` rests on a hit being noted at the
latest when its rows appear (`Witnessed`). They cover failing saves and any number
of documents, readers and candidates, which the run does not.

Readings (`DocumentViews`) run beside ingestion in the same way
(`ReadingBeside`). A ready document nobody deletes has its rows (`ReadyIsWhole`),
and no step of a request takes such rows away or turns a row that a reader has
counted into one of a document still processing (`ServingIsGentle`); with what a
client has read so far (`ReadingKept`) this gives `GetsShowOneLife` and
`ListsShowReadyWhole`, for any faults, documents, clients and positive page size.

`AcknowledgedStaysShown` is about a walk through pages while documents come and
go. Its measure is the number of documents above one (`Above`: those that exist
and are newer). `OrderKept` says that every document there ever was has one place
in the order; a document that comes late may take any place, but the others keep
theirs to each other (`InsertionMoves`, `ServingKeepsOrder`). A row stands in the
list right after those above it (`NewestIsOrdered`), so a page shows it unless it
is above the offset, or the page is full and it comes later (`PageShows`). Hence
the invariant `Walks`: a promised document has been shown as ready, or as many
documents are above it as the offset of the page that is read or asked for next,
or one that was above it went away since the reading began. An arrival only adds
to `Above`; what leaves it is deleted (`AboveStays`) and then in `removed`. Gets
need `Gets` only, which follows them from statement to statement. The property
alone is not inductive: it is about readings that are over. `ViewsTypeCorrect`
assumes finitely many documents, as a total counts them.

`AuthProofs` assumes only that the idle marker is no user and no session row.
`RotationIsRevocation` rests on a rotation holding the old row from its mark to
its commit; `SelectedAreRevoked` on a bulk update holding, at its commit,
every selected row that is not revoked yet; `RegistrationIsAtomic` on whoever
issues a session having an account or committing one with it.
`NobodyWaitsInACircle` assumes finitely many threads and session rows: who holds a
row waits for none (`HoldersDoNotWait`), and who is to insert a session row finds
one, because there are as many left as workers with one to insert (`RowsAreLeft`,
`IssueFindsRow`). It is about rows that a bulk update locks together; that two bulk
updates may lock the same rows in different orders is below this model.

`PipelineProofs` assumes that the chunk size is positive and the overlap at most
as large; neither limits the length of the object. `PagesTruthful` and
`HeadingsTruthful` follow from `PlacesKnown`, which says of each stage what the
property says of chunks: the loader has counted the page breaks before `pos` and
its collected lines lie after the last of them (or after the last heading, which
it remembers), every line of a unit and of a chunk is under the unit's or the
chunk's place. Lemmas show that each loader's step and each cut keeps this.
`VectorsNamed` assumes an embedder that returns a vector per text (`OnePerText`). It
follows from `RowsMatch`, which says of each stage what the three lists have in
common: the vectors are the texts of the chunks, rows and ids are their beginnings,
and the loop ends with the last of them.
`ChunksFollowTheText` and `EveryParagraphIsFound` rest on four invariants:
`TextsInOrder` (loaders keep the order of the object within and between units),
`NothingUnread` (a line the loader is past is in a unit or in its hands),
`Numbered` (the last chunk ends on a line that is covered, so that a cut which
overlaps it cannot end before it) and `Covered` (what the cuts have covered is in
a chunk, if it is not blank). `PieceTaken` and `CutEnds` say what a cut can be.

`FaissProofs` is about one thread at a time and restarts outside a save: its
theorems name these two conditions (`Workers = {w}`, `Crashes # "anywhere"`),
since without the first `faiss_threads` refutes them, and without the second a
start meets two files of different saves. The invariant `Serial` says where the
three lists stand at each statement (`ListsAt`), that the locals of a delete hold
first what the registry will be and then what it is (`LocalsAt`), that a document
being added has no id yet (`DocAt`), and when the two files are the same list
(`FilesAt`). `StoreImplementsContract` maps the contract's entries to the ids: add
takes effect when the registry is extended, delete when the kept ids are
assigned, save when the sidecar is opened, and `OthersStutter` shows that nothing
else can be seen. `SearchesNameTheirVectors` holds for any number of searches
beside that thread. Outside a delete's assignments ids and index agree as far as
the shorter of them goes (`ShorterAgree`), statements that are not such an
assignment only extend them (`ListsOnlyGrow`), so what a search has seen at a
position stays there (`StepUndisturbed`).

The ranking of `HybridRanking` assumes finitely many chunks and weights that are
not negative. What holds of a question from beginning to end is `RankingInv`: the
hits are results of the index and the outcome is the one that follows from them;
what has to be shown is what the sequence of steps does. `SortExists` builds a
stable order by insertion, so that `Descending` is one (`DescendingSorts`) and, as
the keys with their positions are distinct, each candidate has one place in it.
`Completeness` counts the candidates: distinct chunks, eligible ones all of them,
and a beginning of their ranking. `Dominance` rests on fused scores growing with
both scores when they are multiplied by ranges that are positive
(`FusedIsMonotonic`), and on higher keys coming first (`HigherIsBefore`).
`Independence` is that selecting in two steps selects the same as in one
(`SelectedThrough`): taking other users' chunks out before or after changes
nothing of what is normalised.

`AgentProofs` assumes that ids of the fallback and of the planner differ as in
the code and that the lists retrieval returns have no chunk twice.
`RunsEndAsThePlanAllows` needs `Bookkeeping`: the wave holds steps that are ready
and have no result, and the steps of a circle are never ready (`CirclesRemain`), so
a wave is empty only if a circle is left. `DependentStepsWait` and `TraceIsTrue` use
`TraceBooks`, which ties every result to the event that settled it and every
retry to the attempts made. `CitationsOfTheAnswer` goes through the steps of the
plan one by one (`Cited`): a list merged so far has each chunk found so far once,
under the number of the first step that found it. `RunsAreBounded` gives each run a
number of steps it has left (`StepsLeft`): some for each step of the plan that
remains, fewer with every attempt. A plan has `MaxSteps` steps at most
(`ParsedIsShort`), so a run has `MaxSteps * (Retries + 4) + 4` steps at most.

`SelectionProofs` says what a comprehension returns: the elements at the given
positions, all of them, in order (`SelectedPicks`), and no other sequence
(`SelectedIsUnique`); and that a stable descending order exists (`SortExists`).
These are inductions over the length. The induction theorems of the library take
an operator, which no backend can instantiate; instead `LeastNat` gives a least
counterexample, as a fact about sets, and `UpToInduction` follows. The defining
equation of a recursive function is itself such an induction
(`SelectedUpToDef`), because the function is the one that is chosen and has to
be shown to exist.

`ServerProofs`: for `HttpServer` it assumes positive pool sizes and that clients
do not send the generated id of a request. `RepliesAreNamed` adds that the
context of a request is its own trace id from its arrival on, and that its log
lines are of that id; it covers debug mode, where an error body need not name
anybody. `NeverStuck` and `StepsCount` are why every request is answered. The
first spells out the guards of `Loop` and `Database` (`CanGoOn`). Who holds a
connection is querying, and whoever is querying can go on; if nobody is, all
connections are free, then so is the loop, and then a thread. The second counts
what a request can still do (`ToDo`): four steps for each session it has not
opened, and those from its place to its reply.

For `Container` it assumes that settings have a positive number of dimensions and
that the mark of a missing object is not one. `BuiltSoFar` says, statement by
statement, what a container that is being built holds; `ServesWhole` follows for
any settings and any starts before. The theorems about the store hold for
`UpgradeSpec`: when dimensions are lowered, `container_dims` refutes them. `Found`
is what a start can rely on. Lists and files hold vectors of one number of
dimensions, at most that of the settings (`ListsFit`, `DiskFits`). Where it is
equal, names and vectors agree. Where it is less they may not, because a failed
deletion takes names off and leaves the index, but then nothing is added or
searched, and a deletion rebuilds such lists only when nothing of them remains
(`DeleteFinds`). A ready document has a home of no more dimensions than the
settings, and if it has as many its name is on disk (`HomesKnow`). TLC has checked
`Found` on the instance of `container_starts`.

`StorageProofs` assumes nothing of keys, data and threads, except that
`BackendsAgree` and `SettledStays` need contents that cannot be mistaken for a status
word (`Told`). The invariant: a quiet call on a key is the only one that changes
it, what a key is settled to is what its file holds, and a quiet writer past
`Open` has the only handle.

Only model-checked: the liveness properties `IngestSettles`, `DeleteTakesEffect`,
`RequestReturns`, `RunEnds` and `EveryRequestAnswered`, since TLAPS does not prove
liveness under fairness. What they rest on apart from fairness is proved for four
of them: `ProcessingIsTended`, `NobodyWaitsInACircle`, `RunsAreBounded`, `NeverStuck`
and `StepsCount`. Every invariant and action property of the passing runs is a
theorem, under the conditions named above.

## Not modelled

PyMuPDF, python-docx, the splitter libraries and the embedding model (their
outcomes only); the LLM providers (outcomes, and the factory, only) and the
conversion of messages for their SDK; token and password cryptography; the wording
of citations and of the composed answer; the BM25 formula; compression, CORS, the
timing header and the log format; presigned URLs, keys that are directories of
other keys and the check of keys that leave the root; saves of two threads at once, beyond
`faiss_threads`; documents created in the same microsecond; the migrations other than
their constraints; the uploads package, which is not in the tree; the empty
packages. `PROJECT.json` gives the reason for each.

## Plan

1. Done: ingestion and its promise, the pipeline of a document, the vector store
   and its contract, auth, the agent run with its answer, queries and reads beside
   ingestion, ranking, the server's resources and trace ids, the starts of the
   application, object storage; theorems about all of them.
2. Next: a composition of `IngestionService` with the statements of
   `FaissVectorStore` (which steps of two requests put the lists out of step, and
   what a query then cites), and session lifetimes against a clock.
3. Then proofs about that composition.
