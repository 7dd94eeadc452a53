---------------------------- MODULE DocumentViews ----------------------------
(***************************************************************************)
(* What a client reads of its documents while ingestion and deletion run.  *)
(* GET /documents/{id} reads the chunk count in one transaction and the    *)
(* document in the next; GET /documents reads a page of documents, their   *)
(* chunk counts and the total in three statements, each of which sees what *)
(* is committed when it runs.  A client walks through the list page by     *)
(* page.  All documents belong to the one user who asks.                   *)
(***************************************************************************)
EXTENDS IngestionService, Selection, FiniteSets, SequencesExt, Integers

CONSTANTS Clients,   \* request threads that read
          PageSize   \* the limit a client asks for

ASSUME PageSizeAssumption == PageSize \in Nat \ {0}

VARIABLES order,     \* documents by created_at, oldest first
          stage,     \* where each reading is
          subject,   \* the document of a get
          page,      \* documents of the page being read, newest first
          skip,      \* offset of that page
          shown,     \* the status shown of each document
          counted,   \* documents shown with their chunks
          total,     \* the total of the last page
          outcome,   \* how the reading ended
          promised,  \* history: acknowledged when it began
          removed    \* history: documents that went away since it began

\* What one reading has of its own.
reading == <<stage, subject, page, skip, shown, counted, total, outcome, promised>>
viewVars == <<vars, order, reading, removed>>

-----------------------------------------------------------------------------

Stage == {"idle", "getOwned", "getCount", "getDocument", "getRefresh",
          "listPage", "listCounts", "listTotal", "over"}
Unread == "unread"

ViewsTypeOK ==
  /\ order \in Seq(Docs)
  /\ stage \in [Clients -> Stage]
  /\ subject \in [Clients -> Docs \cup {NoDoc}]
  /\ page \in [Clients -> Seq(Docs)]
  /\ skip \in [Clients -> Nat]
  /\ shown \in [Clients -> [Docs -> Row \cup {Unread}]]
  /\ counted \in [Clients -> SUBSET Docs]
  /\ total \in [Clients -> 0..Cardinality(Docs)]
  /\ outcome \in [Clients -> {"none", "shown", "missing", "error"}]
  /\ promised \in [Clients -> SUBSET Docs]
  /\ removed \in [Clients -> SUBSET Docs]

Nothing == [d \in Docs |-> Unread]

ViewsInit ==
  /\ Init
  /\ order = <<>>
  /\ stage = [c \in Clients |-> "idle"]
  /\ subject = [c \in Clients |-> NoDoc]
  /\ page = [c \in Clients |-> <<>>]
  /\ skip = [c \in Clients |-> 0]
  /\ shown = [c \in Clients |-> Nothing]
  /\ counted = [c \in Clients |-> {}]
  /\ total = [c \in Clients |-> 0]
  /\ outcome = [c \in Clients |-> "none"]
  /\ promised = [c \in Clients |-> {}]
  /\ removed = [c \in Clients |-> {}]

-----------------------------------------------------------------------------

Proceed(c, from, to) ==
  /\ stage[c] = from
  /\ stage' = [stage EXCEPT ![c] = to]

End(c, how) == outcome' = [outcome EXCEPT ![c] = how]

\* Documents whose ingest was answered 201 and that nobody asked to delete.
Acknowledged == {d \in Docs : reply[d] = "ok" /\ asked[d] = "no"}

Start(c, to) ==
  /\ Proceed(c, "idle", to)
  /\ promised' = [promised EXCEPT ![c] = Acknowledged]
  /\ UNCHANGED <<vars, order, page, skip, shown, counted, total, outcome, removed>>

-----------------------------------------------------------------------------
(* GET /documents/{document_id} *)

Get(c, d) ==
  /\ status[d] # "none"
  /\ Start(c, "getOwned")
  /\ subject' = [subject EXCEPT ![c] = d]

\* chunk_count: the document is looked up, or the reply is 404 ...
GetOwned(c) ==
  /\ \/ Proceed(c, "getOwned", "getCount") /\ Exists(subject[c]) /\ UNCHANGED outcome
     \/ Proceed(c, "getOwned", "over") /\ ~Exists(subject[c]) /\ End(c, "missing")
  /\ UNCHANGED <<vars, order, subject, page, skip, shown, counted, total, promised, removed>>

\* ... then its chunks are counted.
GetCount(c) ==
  /\ Proceed(c, "getCount", "getDocument")
  /\ counted' = [counted EXCEPT ![c] = {subject[c]} \cap rows]
  /\ UNCHANGED <<vars, order, subject, page, skip, shown, total, outcome, promised, removed>>

\* get, in a transaction of its own: looked up again ...
GetDocument(c) ==
  /\ \/ Proceed(c, "getDocument", "getRefresh") /\ Exists(subject[c]) /\ UNCHANGED outcome
     \/ Proceed(c, "getDocument", "over") /\ ~Exists(subject[c]) /\ End(c, "missing")
  /\ UNCHANGED <<vars, order, subject, page, skip, shown, counted, total, promised, removed>>

\* Mutant: the status is read first and the chunks are counted after it.
GetRefreshFirst(c) ==
  /\ \/ /\ Proceed(c, "getRefresh", "getCount")
        /\ shown[c][subject[c]] = Unread
        /\ Exists(subject[c])
        /\ shown' = [shown EXCEPT ![c][subject[c]] = status[subject[c]]]
        /\ UNCHANGED outcome
     \/ /\ Proceed(c, "getRefresh", "over")
        /\ shown[c][subject[c]] # Unread
        /\ End(c, "shown")
        /\ UNCHANGED shown
  /\ UNCHANGED <<vars, order, subject, page, skip, counted, total, promised, removed>>

\* ... and refreshed, which raises when the row is gone by now.
GetRefresh(c) ==
  /\ Proceed(c, "getRefresh", "over")
  /\ \/ /\ Exists(subject[c])
        /\ End(c, "shown")
        /\ shown' = [shown EXCEPT ![c][subject[c]] = status[subject[c]]]
     \/ ~Exists(subject[c]) /\ End(c, "error") /\ UNCHANGED shown
  /\ UNCHANGED <<vars, order, subject, page, skip, counted, total, promised, removed>>

-----------------------------------------------------------------------------
(* GET /documents?skip=..&limit=.. *)

List(c) == Start(c, "listPage") /\ UNCHANGED subject

\* The rows there are, newest first.  No two are of the same microsecond: for
\* equal created_at the code's ORDER BY leaves the order open.
Newest == LET there == Selected(order, {k \in DOMAIN order : Exists(order[k])})
          IN  [k \in 1..Len(there) |-> there[Len(there) + 1 - k]]

PageBetween(first, last) ==
  SubSeq(Newest, first, IF last <= Len(Newest) THEN last ELSE Len(Newest))

\* Mutant: the offset counts from one.
PageFromShifted(n) == PageBetween(n + 2, n + 1 + PageSize)

PageFrom(n) == PageBetween(n + 1, n + PageSize)

Listed(c) == {page[c][k] : k \in DOMAIN page[c]}

ListPage(c) ==
  /\ Proceed(c, "listPage", "listCounts")
  /\ page' = [page EXCEPT ![c] = PageFrom(skip[c])]
  /\ shown' = [shown EXCEPT ![c] =
       [d \in Docs |-> IF d \in Listed(c)' THEN status[d] ELSE @[d]]]
  /\ UNCHANGED <<vars, order, subject, skip, counted, total, outcome, promised, removed>>

ListCounts(c) ==
  /\ Proceed(c, "listCounts", "listTotal")
  /\ counted' = [counted EXCEPT ![c] = (@ \ Listed(c)) \cup (Listed(c) \cap rows)]
  /\ UNCHANGED <<vars, order, subject, page, skip, shown, total, outcome, promised, removed>>

\* The total; a client that got a full page asks for the next one.
ListTotal(c) ==
  /\ total' = [total EXCEPT ![c] = Cardinality({d \in Docs : Exists(d)})]
  /\ \/ /\ Len(page[c]) < PageSize
        /\ Proceed(c, "listTotal", "over")
        /\ End(c, "shown")
        /\ UNCHANGED skip
     \/ /\ Len(page[c]) = PageSize
        /\ Proceed(c, "listTotal", "listPage")
        /\ skip' = [skip EXCEPT ![c] = @ + PageSize]
        /\ UNCHANGED outcome
  /\ UNCHANGED <<vars, order, subject, page, shown, counted, promised, removed>>

-----------------------------------------------------------------------------

\* The reply has been read.
ReplyRead(c) ==
  /\ Proceed(c, "over", "idle")
  /\ subject' = [subject EXCEPT ![c] = NoDoc]
  /\ page' = [page EXCEPT ![c] = <<>>]
  /\ skip' = [skip EXCEPT ![c] = 0]
  /\ shown' = [shown EXCEPT ![c] = Nothing]
  /\ counted' = [counted EXCEPT ![c] = {}]
  /\ total' = [total EXCEPT ![c] = 0]
  /\ outcome' = [outcome EXCEPT ![c] = "none"]
  /\ promised' = [promised EXCEPT ![c] = {}]
  /\ removed' = [removed EXCEPT ![c] = {}]
  /\ UNCHANGED <<vars, order>>

\* Ingestion and deletion go on.  created_at is when the transaction began:
\* a document committed late may take its place below newer ones.
Serving ==
  /\ Serve
  /\ LET new == {d \in Docs : status[d] = "none" /\ status'[d] # "none"}
         old == {d \in Docs : status[d] # "deleted" /\ status'[d] = "deleted"}
     IN  /\ \/ new = {} /\ UNCHANGED order
            \/ \E d \in new, k \in 1..Len(order) + 1 : order' = InsertAt(order, k, d)
         /\ removed' = [c \in Clients |->
                          IF stage[c] = "idle" THEN {} ELSE removed[c] \cup old]
  /\ UNCHANGED reading

ReadStep(c) ==
  \/ \E d \in Docs : Get(c, d)
  \/ GetOwned(c) \/ GetCount(c) \/ GetDocument(c) \/ GetRefresh(c)
  \/ List(c) \/ ListPage(c) \/ ListCounts(c) \/ ListTotal(c) \/ ReplyRead(c)

ViewsNext == Serving \/ \E c \in Clients : ReadStep(c)

ViewsSpec == ViewsInit /\ [][ViewsNext]_viewVars

-----------------------------------------------------------------------------

Shown(c) == stage[c] = "over" /\ outcome[c] = "shown"
IsGet(c) == subject[c] # NoDoc
Position(d) == CHOOSE k \in DOMAIN order : order[k] = d

\* A document shown with chunks is not shown as processing: get counts before
\* it reads the status, and both were committed together.
GetShowsOneLife ==
  \A c \in Clients : Shown(c) /\ IsGet(c) =>
    \A d \in counted[c] : shown[c][d] # "processing"

\* A document listed as ready is listed with its chunks, although they are
\* counted by a later statement, unless it is being deleted.
ReadyIsListedWhole ==
  \A c \in Clients : Shown(c) /\ ~IsGet(c) =>
    \A d \in chunked : shown[c][d] = "ready" /\ asked[d] = "no" => d \in counted[c]

\* What an ingest acknowledged is there for every later reading, ready and
\* with its chunks: in a get, and in a walk through the pages unless a newer
\* document went away meanwhile, which moves this one up past the offset.
AcknowledgedIsShown ==
  \A c \in Clients : stage[c] = "over" =>
    \A d \in promised[c] : asked[d] = "no" =>
      \/ IsGet(c) /\ subject[c] # d
      \/ ~IsGet(c) /\ \E e \in removed[c] : Position(e) > Position(d)
      \/ shown[c][d] = "ready" /\ (d \in chunked => d \in counted[c])
=============================================================================
