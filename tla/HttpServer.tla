----------------------------- MODULE HttpServer -----------------------------
(***************************************************************************)
(* One server process seen from its resources: an event loop that runs     *)
(* every coroutine, a pool of threads for the synchronous endpoints and    *)
(* dependencies, a pool of database connections, and a trace id per        *)
(* request that logs and error bodies read from the request's context.     *)
(*                                                                         *)
(* The services are seen through the sessions they open: one at a time,    *)
(* opened and closed inside one thread call, as services and endpoints are *)
(* written: none calls another service inside a session of its own.  The   *)
(* framework (Starlette, anyio, SQLAlchemy's pool) is external and kept to *)
(* what main.py, middleware.py and database.py rely on.  A database is     *)
(* configured.                                                             *)
(***************************************************************************)
EXTENDS Integers, FiniteSets

CONSTANTS Requests,    \* requests, each also its own generated trace id
          NoRequest,   \* no request: the loop is free
          Supplied,    \* ids that clients send as X-Request-ID
          Kinds,       \* which of "live", "ready", "api" are sent
          Threads,     \* size of the thread pool
          Connections, \* size of the connection pool, overflow included
          Debug,       \* settings.debug
          MaxSessions  \* bound: sessions one request opens

ASSUME NoRequestAssumption == NoRequest \notin Requests
ASSUME SuppliedAssumption == Supplied \cap (Requests \cup {NoRequest}) = {}
ASSUME KindsAssumption == Kinds \subseteq {"live", "ready", "api"}
ASSUME DebugAssumption == Debug \in BOOLEAN
ASSUME SizesAssumption == Threads \in Nat \ {0} /\ Connections \in Nat \ {0} /\ MaxSessions \in Nat \ {0}

VARIABLES kind,        \* what each request is for
          traceId,     \* the id its client sent, or its own
          context,     \* the trace id in the context of its task
          place,       \* where it is
          sessions,    \* sessions it has still to open
          holding,     \* requests holding a connection
          loop,        \* the request whose coroutine blocks the loop
          outcome,     \* how its handler ended
          sent,        \* the reply: what the client can read
          accessLog    \* trace ids of the access-log lines of each request

pools == <<sessions, holding>>
results == <<outcome, sent, accessLog>>
identity == <<kind, traceId, context>>
vars == <<identity, place, pools, loop, results>>

-----------------------------------------------------------------------------

TraceIds == Requests \cup Supplied
InThread == {"connecting", "querying"}
Probing  == {"probeConnecting", "probeQuerying"}
Place    == {"away", "live", "ready", "queued", "back", "done", "answered"}
              \cup InThread \cup Probing

\* "fine": a regular reply.  "problem": an exception that a registered handler
\* turns into a reply.  "crash": any other exception.
Outcome  == {"none", "fine", "problem", "crash"}
NoReply  == [header |-> NoRequest, body |-> NoRequest]
Reply    == [header : TraceIds \cup {NoRequest}, body : TraceIds \cup {NoRequest}]

TypeOK ==
  /\ kind \in [Requests -> Kinds \cup {"none"}]
  /\ traceId \in [Requests -> TraceIds]
  /\ context \in [Requests -> TraceIds]
  /\ place \in [Requests -> Place]
  /\ sessions \in [Requests -> 0..MaxSessions]
  /\ holding \subseteq Requests
  /\ loop \in Requests \cup {NoRequest}
  /\ outcome \in [Requests -> Outcome]
  /\ sent \in [Requests -> Reply]
  /\ accessLog \in [Requests -> SUBSET TraceIds]

Init ==
  /\ kind = [r \in Requests |-> "none"]
  /\ traceId = [r \in Requests |-> r]
  /\ context = [r \in Requests |-> r]
  /\ place = [r \in Requests |-> "away"]
  /\ sessions = [r \in Requests |-> 0]
  /\ holding = {}
  /\ loop = NoRequest
  /\ outcome = [r \in Requests |-> "none"]
  /\ sent = [r \in Requests |-> NoReply]
  /\ accessLog = [r \in Requests |-> {}]

-----------------------------------------------------------------------------

Move(r, from, to) ==
  /\ place[r] = from
  /\ place' = [place EXCEPT ![r] = to]

\* Coroutines run one at a time; a blocking one keeps the others off the loop.
LoopIsFree == loop = NoRequest

End(r, how) == outcome' = [outcome EXCEPT ![r] = how]

-----------------------------------------------------------------------------
(* The way in *)

\* Mutant: the trace id is a global of the process.
SetTraceIdGlobally(r) == context' = [q \in Requests |-> traceId'[r]]

\* set_trace_id in the request's own task: nobody else's context changes.
SetTraceId(r) == context' = [context EXCEPT ![r] = traceId'[r]]

\* The request passes the middleware.  An API request opens one session or
\* more, in one thread call or in several (current user, then the endpoint).
Arrive(r, k) ==
  /\ LoopIsFree
  /\ kind' = [kind EXCEPT ![r] = k]
  /\ \E id \in Supplied \cup {r} : traceId' = [traceId EXCEPT ![r] = id]
  /\ SetTraceId(r)
  /\ IF k = "api"
     THEN /\ Move(r, "away", "queued")
          /\ \E n \in 1..MaxSessions : sessions' = [sessions EXCEPT ![r] = n]
     ELSE /\ Move(r, "away", k)
          /\ UNCHANGED sessions
  /\ UNCHANGED <<holding, loop, results>>

\* healthz: no dependencies.
Healthz(r) ==
  /\ LoopIsFree
  /\ Move(r, "live", "done")
  /\ End(r, "fine")
  /\ UNCHANGED <<identity, pools, loop, sent, accessLog>>

-----------------------------------------------------------------------------
(* Thread calls *)

StartCall(r) ==
  /\ LoopIsFree
  /\ Cardinality({q \in Requests : place[q] \in InThread}) < Threads
  /\ Move(r, "queued", "connecting")
  /\ UNCHANGED <<identity, pools, loop, results>>

\* The call raises before it opens a session: no valid token, an LLM error.
Refuse(r) ==
  /\ Move(r, "connecting", "back")
  /\ End(r, "problem") \/ End(r, "crash")
  /\ UNCHANGED <<identity, pools, loop, sent, accessLog>>

\* A session takes its connection at its first statement.
Connect(r) ==
  /\ Cardinality(holding) < Connections
  /\ Move(r, "connecting", "querying")
  /\ holding' = holding \cup {r}
  /\ sessions' = [sessions EXCEPT ![r] = @ - 1]
  /\ UNCHANGED <<identity, loop, results>>

\* The pool gives up: an exception no handler is registered for.
PoolTimeout(r) ==
  /\ Cardinality(holding) >= Connections
  /\ Move(r, "connecting", "back")
  /\ End(r, "crash")
  /\ UNCHANGED <<identity, pools, loop, sent, accessLog>>

\* Mutant: a session without the context manager, which nobody closes.
CloseForgotten(r) == UNCHANGED holding

\* "with self._session_factory() as session": left on every way out.
Close(r) == holding' = holding \ {r}

\* The session ends: the same call opens the next one, or it returns to the
\* loop, with its result or an exception of either sort.
Transact(r) ==
  /\ \/ Move(r, "querying", "connecting") /\ sessions[r] > 0 /\ UNCHANGED outcome
     \/ /\ Move(r, "querying", "back")
        /\ UNCHANGED outcome \/ End(r, "problem") \/ End(r, "crash")
  /\ Close(r)
  /\ UNCHANGED <<identity, sessions, loop, sent, accessLog>>

\* The loop takes up the task again: the next call, or the end.
Resume(r) ==
  /\ LoopIsFree
  /\ \/ Move(r, "back", "queued") /\ outcome[r] = "none" /\ sessions[r] > 0 /\ UNCHANGED outcome
     \/ Move(r, "back", "done") /\ outcome[r] = "none" /\ sessions[r] = 0 /\ End(r, "fine")
     \/ Move(r, "back", "done") /\ outcome[r] # "none" /\ UNCHANGED outcome
  /\ UNCHANGED <<identity, pools, loop, sent, accessLog>>

-----------------------------------------------------------------------------
(* readyz: an async function that calls the checks directly, on the loop *)

Readyz(r) ==
  /\ LoopIsFree
  /\ Move(r, "ready", "probeConnecting")
  /\ loop' = r
  /\ UNCHANGED <<identity, pools, results>>

\* engine.connect() takes a connection of the pool like any session.
CheckConnect(r) ==
  /\ Cardinality(holding) < Connections
  /\ Move(r, "probeConnecting", "probeQuerying")
  /\ holding' = holding \cup {r}
  /\ UNCHANGED <<identity, sessions, loop, results>>

\* The pool gives up; the check catches that and reports it.
CheckTimeout(r) ==
  /\ Cardinality(holding) >= Connections
  /\ Move(r, "probeConnecting", "done")
  /\ loop' = NoRequest
  /\ End(r, "fine")
  /\ UNCHANGED <<identity, pools, sent, accessLog>>

\* SELECT 1 answers or raises; either way the reply is a regular one.
CheckQuery(r) ==
  /\ Move(r, "probeQuerying", "done")
  /\ holding' = holding \ {r}
  /\ loop' = NoRequest
  /\ End(r, "fine")
  /\ UNCHANGED <<identity, sessions, sent, accessLog>>

-----------------------------------------------------------------------------
(* The way out *)

Answered(r, reply) ==
  /\ LoopIsFree
  /\ Move(r, "done", "answered")
  /\ sent' = [sent EXCEPT ![r] = reply]
  /\ UNCHANGED <<identity, pools, loop, outcome>>

Logged(r) == accessLog' = [accessLog EXCEPT ![r] = @ \cup {context[r]}]

\* A reply passes the middleware: it is logged and named.
RespondFine(r) ==
  /\ outcome[r] = "fine"
  /\ Answered(r, [header |-> traceId[r], body |-> NoRequest])
  /\ Logged(r)

\* Registered handlers run inside the middleware, so their replies pass it.
RespondProblem(r) ==
  /\ outcome[r] = "problem"
  /\ Answered(r, [header |-> traceId[r], body |-> context[r]])
  /\ Logged(r)

\* The handler of Exception is the server's outermost: the exception has gone
\* through all of the middleware by then, and none of it has seen a reply.  In
\* debug mode it is not called: the reply is a traceback without a trace id.
RespondCrash(r) ==
  /\ outcome[r] = "crash"
  /\ Answered(r, [header |-> NoRequest, body |-> IF Debug THEN NoRequest ELSE context[r]])
  /\ UNCHANGED accessLog

-----------------------------------------------------------------------------

Loop(r) ==
  \/ Healthz(r) \/ StartCall(r) \/ Resume(r) \/ Readyz(r)
  \/ RespondFine(r) \/ RespondProblem(r) \/ RespondCrash(r)

Database(r) == Connect(r) \/ Transact(r) \/ CheckConnect(r) \/ CheckQuery(r)

Next == \E r \in Requests : (\E k \in Kinds : Arrive(r, k)) \/ Loop(r) \/ Database(r) \/ Refuse(r)
                          \/ PoolTimeout(r) \/ CheckTimeout(r)

Spec == Init /\ [][Next]_vars

\* The loop runs what is ready to run; the database may never answer.
LoopFairness == \A r \in Requests : WF_vars(Loop(r))
HungSpec == Spec /\ LoopFairness

\* The database answers too, and a free connection goes to who waits for one.
\* (The timeouts of the pool are not relied on: they would hide a circle.)
FairSpec == HungSpec /\ \A r \in Requests : WF_vars(Database(r))

-----------------------------------------------------------------------------

\* Whatever else runs on the loop, what a reply and the access log name is the
\* request they belong to, and an error body does name it, unless it is the
\* traceback of debug mode.
RepliesNameTheirRequest ==
  \A r \in Requests : place[r] = "answered" =>
    /\ sent[r].header \in {traceId[r], NoRequest}
    /\ sent[r].body \in {traceId[r], NoRequest}
    /\ outcome[r] = "problem" \/ (outcome[r] = "crash" /\ ~Debug) => sent[r].body = traceId[r]
    /\ accessLog[r] \subseteq {traceId[r]}

\* "All error responses ... always carry the request trace_id": not with DEBUG
\* set, as the repository's .env.example has it.
ErrorsCarryTheTraceId ==
  \A r \in Requests : place[r] = "answered" /\ outcome[r] \in {"problem", "crash"} =>
    sent[r].body = traceId[r]

\* Threads, connections and the loop wait for one another without a circle:
\* every request that has arrived is answered.
EveryRequestAnswered == \A r \in Requests : place[r] # "away" ~> place[r] = "answered"

\* "/healthz is the liveness probe (no dependencies)": it is answered even if
\* the database never answers anybody again.
HealthzAnswers == \A r \in Requests : place[r] = "live" ~> place[r] = "answered"

\* "Assigns/forwards a trace id for the request and echoes it in the response."
TraceIdIsEchoed ==
  \A r \in Requests : place[r] = "answered" => sent[r].header = traceId[r]

\* "Emits one structured access-log line per request."
EveryRequestIsLogged ==
  \A r \in Requests : place[r] = "answered" => accessLog[r] = {traceId[r]}
=============================================================================
