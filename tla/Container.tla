----------------------------- MODULE Container -----------------------------
(***************************************************************************)
(* Starting the application: Settings, then Container.build, one statement *)
(* after the other, any of which may raise and so end the process.  What   *)
(* outlives a process is the vector index on disk and the database, so the *)
(* store of one start meets the files of another, with other settings.     *)
(*                                                                         *)
(* While the application serves, documents are ingested and deleted one at *)
(* a time (IngestionService has them at the same time); a document is one  *)
(* vector, written with the number of its dimensions.                      *)
(***************************************************************************)
EXTENDS Integers, Sequences, Selection

CONSTANTS Settings,   \* the settings a process may be started with
          Docs,       \* documents
          ModelDims,  \* dimensions the embedding model produces
          MaxStarts,  \* bound on the number of starts
          None        \* not built, no file

ASSUME SettingsAssumption == \A s \in Settings :
  /\ {s.production, s.strongKey, s.rewrite, s.apiKey} \subseteq BOOLEAN
  /\ s.database \in {"none", "url", "malformed"}
  /\ s.dims \in Nat \ {0}

ASSUME BoundsAssumption == ModelDims \in Nat \ {0} /\ MaxStarts \in Nat

Vector == [doc : Docs, dims : Nat]
Unknown == "unknown"   \* "unknown:<position>"
File == [dims : Nat, index : Seq(Vector), ids : Seq(Docs \cup {Unknown})]

\* The objects a field of the container may hold.
Storages   == [is : {"local", "s3"}]
Embedders  == [is : {"sentence_transformers", "memory"}, dims : Nat]
Stores     == [is : {"faiss", "memory"}, dims : Nat]
Retrievals == [embedder : Embedders, store : Stores, rewriter : {"llm", "passthrough"}]
Object ==
  [is : {"engine", "auth"}] \cup Storages \cup Embedders \cup Stores \cup Retrievals
    \cup [storage : Storages]
    \cup [storage : Storages, embedder : Embedders, store : Stores]
    \cup [retrieval : Retrievals, provider : {"gemini", None}]

ASSUME NoneAssumption == None \notin Object \cup File \cup Settings /\ None # "gemini"

VARIABLES settings,   \* of the process that runs or ran last
          stage,      \* the statement of create_app that is next
          objects,    \* the fields of Container, with what each object holds
          lists,      \* inside the vector store: index, vectors, ids
          disk,       \* the saved index and ids, or None
          documents,  \* the rows of the documents
          home,       \* history: the store each document was added to
          starts

process == <<settings, stage, objects>>
stored == <<disk, documents, home>>
containerVars == <<process, lists, stored, starts>>

-----------------------------------------------------------------------------

Field == {"engine", "storage", "auth", "upload", "embedder", "store",
          "ingestion", "retrieval", "agent"}
Stage == {"stopped", "database", "storage", "embedder", "store", "ingestion",
          "retrieval", "agent", "serving"}

Nothing == [f \in Field |-> None]
NoLists == [dims |-> 0, index |-> <<>>, vectors |-> <<>>, ids |-> <<>>]
Lists == [dims : Nat, index : Seq(Vector), vectors : Seq(Vector),
          ids : Seq(Docs \cup {Unknown})]
Elements(seq) == {seq[n] : n \in DOMAIN seq}

ContainerTypeOK ==
  /\ settings \in Settings \cup {None}
  /\ stage \in Stage
  /\ objects \in [Field -> Object \cup {None}]
  /\ stage = "stopped" => objects = Nothing /\ lists = NoLists
  /\ lists \in Lists
  /\ disk \in File \cup {None}
  /\ documents \in [Docs -> {"none", "ready", "error", "deleted"}]
  /\ home \in [Docs -> Stores \cup {None}]
  /\ \A d \in Docs : documents[d] = "ready" => home[d] # None
  /\ starts \in 0..MaxStarts

ContainerInit ==
  /\ settings = None
  /\ stage = "stopped"
  /\ objects = Nothing
  /\ lists = NoLists
  /\ disk = None
  /\ documents = [d \in Docs |-> "none"]
  /\ home = [d \in Docs |-> None]
  /\ starts = 0

-----------------------------------------------------------------------------
(* Container.build *)

\* Settings(): production with a short key refuses to start.
Start(s) ==
  /\ stage = "stopped"
  /\ starts < MaxStarts
  /\ starts' = starts + 1
  /\ settings' = s
  /\ stage' = IF s.production /\ ~s.strongKey THEN "stopped" ELSE "database"
  /\ UNCHANGED <<objects, lists, stored>>

Assign(at, fields, next) ==
  /\ stage = at
  /\ stage' = next
  /\ objects' = [f \in Field |-> IF f \in DOMAIN fields THEN fields[f] ELSE objects[f]]
  /\ UNCHANGED <<settings, stored, starts>>

\* The exception leaves create_app: nothing of the process remains.
Raise(at) ==
  /\ stage = at
  /\ stage' = "stopped"
  /\ objects' = Nothing
  /\ lists' = NoLists
  /\ UNCHANGED <<settings, stored, starts>>

\* Without a URL nothing is wired; an unreachable database is no error here.
WireDatabase ==
  \/ /\ Assign("database", [engine |-> [is |-> "engine"]], "storage")
     /\ settings.database = "url"
     /\ UNCHANGED lists
  \/ /\ Assign("database", [engine |-> None], "serving")
     /\ settings.database = "none"
     /\ UNCHANGED lists
  \/ Raise("database") /\ settings.database = "malformed"

\* Whatever is not "s3" is local.  boto3.client raises on a malformed endpoint
\* or half a pair of credentials; which of these there are is left open.
BuildStorage ==
  \/ LET storage == [is |-> IF settings.storage = "s3" THEN "s3" ELSE "local"] IN
     /\ Assign("storage", [storage |-> storage, auth |-> [is |-> "auth"],
                          upload |-> [storage |-> storage]], "embedder")
     /\ UNCHANGED lists
  \/ Raise("storage") /\ settings.storage = "s3"

Embedder(kind) == [is |-> kind, dims |-> settings.dims]

BuildEmbedder ==
  \/ /\ Assign("embedder", [embedder |-> Embedder(settings.embedder)], "store")
     /\ settings.embedder \in {"sentence_transformers", "memory"}
     /\ UNCHANGED lists
  \/ /\ Raise("embedder")
     /\ settings.embedder \notin {"sentence_transformers", "memory"}

\* _load: the index decides on the dimensions, the settings do not.
Loaded(file) ==
  [dims |-> file.dims, index |-> file.index, vectors |-> file.index,
   ids |-> file.ids \o [n \in 1..(Len(file.index) - Len(file.ids)) |-> Unknown]]

Empty == [NoLists EXCEPT !.dims = settings.dims]

BuildVectorStore ==
  \/ /\ Assign("store", [store |-> [is |-> settings.store, dims |-> settings.dims]],
               "ingestion")
     /\ settings.store \in {"faiss", "memory"}
     /\ lists' = IF settings.store = "faiss" /\ disk # None THEN Loaded(disk) ELSE Empty
  \/ Raise("store") /\ settings.store \notin {"faiss", "memory"}

Held(fields) == [f \in fields |-> objects[f]]

WireIngestion ==
  \/ /\ Assign("ingestion",
          [ingestion |-> Held({"storage", "embedder", "store"})], "retrieval")
     /\ settings.splitter \in {"langchain", "llamaindex"}
     /\ UNCHANGED lists
  \/ Raise("ingestion") /\ settings.splitter \notin {"langchain", "llamaindex"}

\* build_llm_provider raises unless the name is known and has its key.
ProviderBuilds == settings.provider = "gemini" /\ settings.apiKey

\* Mutant: retrieval embeds queries its own way.
WireRetrievalApart ==
  /\ Assign("retrieval",
       [retrieval |-> [embedder |-> Embedder("memory"), store |-> objects.store,
                       rewriter |-> IF settings.rewrite THEN "llm" ELSE "passthrough"]],
       "agent")
  /\ UNCHANGED lists

\* The provider of the rewriter is not optional, unlike that of the planner.
WireRetrieval ==
  \/ /\ Assign("retrieval",
          [retrieval |-> [embedder |-> objects.embedder, store |-> objects.store,
                          rewriter |-> IF settings.rewrite THEN "llm" ELSE "passthrough"]],
          "agent")
     /\ settings.rewrite => ProviderBuilds
     /\ UNCHANGED lists
  \/ Raise("retrieval") /\ settings.rewrite /\ ~ProviderBuilds

WireAgent ==
  /\ Assign("agent",
       [agent |-> [retrieval |-> objects.retrieval,
                   provider |-> IF ProviderBuilds THEN "gemini" ELSE None]],
       "serving")
  /\ UNCHANGED lists

-----------------------------------------------------------------------------
(* Serving *)

Serves == stage = "serving" /\ objects.store # None

Save(l) == IF objects.store.is = "faiss"
           THEN [dims |-> l.dims, index |-> l.index, ids |-> l.ids]
           ELSE disk

\* The model is loaded, and its dimensions compared, at the first use; faiss
\* takes vectors of the dimensions of its index only.
EmbedRaises == objects.embedder.is = "sentence_transformers"
               /\ objects.embedder.dims # ModelDims
AddRaises == objects.store.is = "faiss" /\ lists.dims # objects.store.dims

Added(d) ==
  LET v == [doc |-> d, dims |-> objects.embedder.dims]
  IN  [lists EXCEPT !.index = Append(@, v), !.vectors = Append(@, v),
                    !.ids = Append(@, d)]

Ingested(d) ==
  /\ ~EmbedRaises /\ ~AddRaises
  /\ lists' = Added(d)
  /\ documents' = [documents EXCEPT ![d] = "ready"]
  /\ home' = [home EXCEPT ![d] = objects.store]

\* _mark_failed removes nothing here, and saves what there is.
Failed(d) ==
  /\ EmbedRaises \/ AddRaises
  /\ documents' = [documents EXCEPT ![d] = "error"]
  /\ UNCHANGED <<lists, home>>

\* Mutant: saved before the document is in.
IngestSavedFirst(d) ==
  /\ Serves /\ documents[d] = "none"
  /\ Ingested(d) \/ Failed(d)
  /\ disk' = Save(lists)
  /\ UNCHANGED <<process, starts>>

Ingest(d) ==
  /\ Serves /\ documents[d] = "none"
  /\ Ingested(d) \/ Failed(d)
  /\ disk' = Save(lists')
  /\ UNCHANGED <<process, starts>>

\* [v for i, v in zip(ids, vectors) if i not in remove]
Others(d) == {n \in DOMAIN lists.ids : lists.ids[n] # d}
Kept(d) == Selected(lists.vectors, Others(d))

KeptIds(d) == Selected(lists.ids, Others(d))

Present(d) == d \in Elements(lists.ids)

\* faiss refuses vectors loaded from an index of other dimensions.
RebuildRaises(d) ==
  /\ objects.store.is = "faiss"
  /\ \E v \in Elements(Kept(d)) : v.dims # objects.store.dims

Rebuilt(d) ==
  IF Present(d)
  THEN [dims |-> objects.store.dims, index |-> Kept(d), vectors |-> Kept(d),
        ids |-> KeptIds(d)]
  ELSE lists

\* Deletion as it should go: vectors, save, rows.
Delete(d) ==
  /\ Serves /\ documents[d] \in {"ready", "error"}
  /\ ~(Present(d) /\ RebuildRaises(d))
  /\ lists' = Rebuilt(d)
  /\ disk' = Save(lists')
  /\ documents' = [documents EXCEPT ![d] = "deleted"]
  /\ UNCHANGED <<process, home, starts>>

\* Mutant: the index is replaced before the vectors are added to it.
DeleteRaisesEmptied(d) ==
  /\ Serves /\ documents[d] \in {"ready", "error"}
  /\ Present(d) /\ RebuildRaises(d)
  /\ lists' = [dims |-> objects.store.dims, index |-> <<>>,
               vectors |-> Kept(d), ids |-> KeptIds(d)]
  /\ UNCHANGED <<process, stored, starts>>

\* The rebuild raises: the new ids and vectors are published, the index is the
\* old one, nothing is saved and the transaction rolls back.
DeleteRaises(d) ==
  /\ Serves /\ documents[d] \in {"ready", "error"}
  /\ Present(d) /\ RebuildRaises(d)
  /\ lists' = [lists EXCEPT !.vectors = Kept(d), !.ids = KeptIds(d)]
  /\ UNCHANGED <<process, stored, starts>>

Stop ==
  /\ stage = "serving"
  /\ stage' = "stopped"
  /\ objects' = Nothing
  /\ lists' = NoLists
  /\ UNCHANGED <<settings, stored, starts>>

Wire ==
  \/ WireDatabase \/ BuildStorage \/ BuildEmbedder \/ BuildVectorStore
  \/ WireIngestion \/ WireRetrieval \/ WireAgent

ContainerNext ==
  \/ \E s \in Settings : Start(s)
  \/ Wire
  \/ \E d \in Docs : Ingest(d) \/ Delete(d) \/ DeleteRaises(d)
  \/ Stop

ContainerSpec == ContainerInit /\ [][ContainerNext]_containerVars

\* Dimensions are raised between starts but not lowered again.
UpgradeSpec ==
  ContainerInit
    /\ [][ContainerNext /\ (starts > 0 => settings'.dims >= settings.dims)]_containerVars

-----------------------------------------------------------------------------

\* What serves is wired as a whole or, without a database, not at all; the
\* services work on one storage, one embedder and one store of equal
\* dimensions, of the kinds the settings name.
WiredTogether ==
  stage = "serving" =>
    \/ settings.database = "none" /\ objects = Nothing
    \/ /\ settings.database = "url"
       /\ \A f \in Field : objects[f] # None
       /\ objects.embedder.is = settings.embedder
       /\ objects.store.is = settings.store
       /\ objects.embedder.dims = objects.store.dims
       /\ objects.upload.storage = objects.ingestion.storage
       /\ objects.ingestion.embedder = objects.retrieval.embedder
       /\ objects.ingestion.store = objects.retrieval.store
       /\ objects.agent.retrieval = objects.retrieval
       /\ objects.retrieval.rewriter = "llm" => objects.agent.provider # None

\* A document that was ingested into the store on disk is known to it whenever
\* the application serves from there again with the same dimensions, after any
\* starts in between.
ReadyIsFoundAgain ==
  Serves /\ objects.store.is = "faiss" =>
    \A d \in Docs : documents[d] = "ready" /\ home[d] = objects.store => Present(d)

\* "Positions in the flat index double as sequence ids; self._ids maps each
\* position back to its id" (vectorstore.py:45-46): wherever a search does not
\* raise for its dimensions, a vector is found under its own name.
AnswersNameTheirVectors ==
  Serves /\ ~AddRaises =>
    /\ Len(lists.ids) = Len(lists.index)
    /\ \A n \in DOMAIN lists.index : lists.ids[n] = lists.index[n].doc

\* "so the app boots without an API key" (container.py:133): when everything
\* else is as it should be, a missing key ends no start.
BootsWithoutAPIKey == [][
  stage # "stopped" /\ stage' = "stopped" /\ stage # "serving" =>
    \/ settings.apiKey
    \/ settings.database = "malformed"
    \/ settings.storage = "s3"
    \/ settings.embedder \notin {"sentence_transformers", "memory"}
    \/ settings.store \notin {"faiss", "memory"}
    \/ settings.splitter \notin {"langchain", "llamaindex"}]_containerVars
=============================================================================
