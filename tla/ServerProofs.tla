---------------------------- MODULE ServerProofs ----------------------------
(***************************************************************************)
(* Theorems about the process of the server: HttpServer, for any number of *)
(* requests and any sizes of the two pools, and Container, for any         *)
(* settings, documents and number of starts.                               *)
(***************************************************************************)
EXTENDS HttpServer, Container, SelectionProofs, FiniteSetTheorems, TLAPS

\* A request that has arrived runs in a context with its own trace id, and
\* one that has not has left no line in the log.
ContextIsOwn ==
  \A r \in Requests :
    /\ place[r] # "away" => context[r] = traceId[r]
    /\ place[r] = "away" => accessLog[r] = {}
    /\ accessLog[r] \subseteq {traceId[r]}

\* A request that is to open a session, or waits for its connection, has one
\* left to open.
SessionsLeft ==
  \A r \in Requests : place[r] \in {"queued", "connecting"} => sessions[r] > 0

-----------------------------------------------------------------------------

\* What an arriving request is about.
LEMMA Arrival ==
  ASSUME TypeOK, NEW r \in Requests, NEW k \in Kinds, Arrive(r, k)
  PROVE  /\ place[r] = "away"
         /\ k \in {"live", "ready", "api"}
         /\ place' = [place EXCEPT ![r] = IF k = "api" THEN "queued" ELSE k]
         /\ \/ sessions' = sessions /\ k # "api"
            \/ \E n \in 1..MaxSessions : sessions' = [sessions EXCEPT ![r] = n]
         /\ \E id \in TraceIds : /\ traceId' = [traceId EXCEPT ![r] = id]
                                /\ context' = [context EXCEPT ![r] = id]
         /\ kind' = [kind EXCEPT ![r] = k]
         /\ UNCHANGED <<holding, loop, outcome, sent, accessLog>>
<1> USE DEF TypeOK, TraceIds
<1>1. PICK id \in Supplied \cup {r} : traceId' = [traceId EXCEPT ![r] = id]
  BY DEF Arrive
<1>2. context' = [context EXCEPT ![r] = id]
  BY <1>1 DEF Arrive, SetTraceId
<1>3. k \in {"live", "ready", "api"}
  BY KindsAssumption
<1>4. /\ place[r] = "away"
      /\ place' = [place EXCEPT ![r] = IF k = "api" THEN "queued" ELSE k]
      /\ \/ sessions' = sessions /\ k # "api"
         \/ \E n \in 1..MaxSessions : sessions' = [sessions EXCEPT ![r] = n]
  BY DEF Arrive, Move
<1>5. kind' = [kind EXCEPT ![r] = k] /\ UNCHANGED <<holding, loop, outcome, sent, accessLog>>
  BY DEF Arrive, results
<1> QED
  BY <1>1, <1>2, <1>3, <1>4, <1>5

\* Types, and the sessions still to be opened.
LEMMA WellFormedness == Spec => [](TypeOK /\ SessionsLeft)
<1> USE SizesAssumption DEF TypeOK, SessionsLeft,
            TraceIds, InThread, Probing, Place, Outcome, NoReply, Reply,
            pools, results, identity
<1>1. Init => TypeOK /\ SessionsLeft
  BY DEF Init
<1>2. TypeOK /\ SessionsLeft /\ [Next]_vars => (TypeOK /\ SessionsLeft)'
  <2> SUFFICES ASSUME TypeOK, SessionsLeft, [Next]_vars PROVE (TypeOK /\ SessionsLeft)'
    OBVIOUS
  <2>1. ASSUME NEW r \in Requests, NEW k \in Kinds, Arrive(r, k) PROVE (TypeOK /\ SessionsLeft)'
    <3>1. UNCHANGED <<holding, loop, outcome, sent, accessLog>>
      BY <2>1, Arrival
    <3>2. kind' \in [Requests -> Kinds \cup {"none"}]
      BY <2>1, Arrival
    <3>3. traceId' \in [Requests -> TraceIds] /\ context' \in [Requests -> TraceIds]
      BY <2>1, Arrival
    <3>4. place' \in [Requests -> Place]
      BY <2>1, Arrival
    <3>5. CASE sessions' = sessions /\ k # "api"
      BY <2>1, <3>1, <3>2, <3>3, <3>4, <3>5, Arrival
    <3>6. CASE \E n \in 1..MaxSessions : sessions' = [sessions EXCEPT ![r] = n]
      BY <2>1, <3>1, <3>2, <3>3, <3>4, <3>6, Arrival
    <3> QED
      BY <2>1, <3>5, <3>6, Arrival
  <2>2. ASSUME NEW r \in Requests, Healthz(r) PROVE (TypeOK /\ SessionsLeft)'
    BY <2>2 DEF Healthz, Move, End, LoopIsFree
  <2>3. ASSUME NEW r \in Requests, StartCall(r) PROVE (TypeOK /\ SessionsLeft)'
    BY <2>3 DEF StartCall, Move, LoopIsFree
  <2>4. ASSUME NEW r \in Requests, Refuse(r) PROVE (TypeOK /\ SessionsLeft)'
    BY <2>4 DEF Refuse, Move, End
  <2>5. ASSUME NEW r \in Requests, Connect(r) PROVE (TypeOK /\ SessionsLeft)'
    BY <2>5 DEF Connect, Move
  <2>6. ASSUME NEW r \in Requests, PoolTimeout(r) PROVE (TypeOK /\ SessionsLeft)'
    BY <2>6 DEF PoolTimeout, Move, End
  <2>7. ASSUME NEW r \in Requests, Transact(r) PROVE (TypeOK /\ SessionsLeft)'
    BY <2>7 DEF Transact, Move, End, Close
  <2>8. ASSUME NEW r \in Requests, Resume(r) PROVE (TypeOK /\ SessionsLeft)'
    BY <2>8 DEF Resume, Move, End, LoopIsFree
  <2>9. ASSUME NEW r \in Requests, Readyz(r) PROVE (TypeOK /\ SessionsLeft)'
    BY <2>9 DEF Readyz, Move, LoopIsFree
  <2>10. ASSUME NEW r \in Requests, CheckConnect(r) PROVE (TypeOK /\ SessionsLeft)'
    BY <2>10 DEF CheckConnect, Move
  <2>11. ASSUME NEW r \in Requests, CheckTimeout(r) PROVE (TypeOK /\ SessionsLeft)'
    BY <2>11 DEF CheckTimeout, Move, End
  <2>12. ASSUME NEW r \in Requests, CheckQuery(r) PROVE (TypeOK /\ SessionsLeft)'
    BY <2>12 DEF CheckQuery, Move, End
  <2>13. ASSUME NEW r \in Requests, RespondFine(r) PROVE (TypeOK /\ SessionsLeft)'
    BY <2>13 DEF RespondFine, Answered, Move, Logged
  <2>14. ASSUME NEW r \in Requests, RespondProblem(r) PROVE (TypeOK /\ SessionsLeft)'
    BY <2>14 DEF RespondProblem, Answered, Move, Logged
  <2>15. ASSUME NEW r \in Requests, RespondCrash(r) PROVE (TypeOK /\ SessionsLeft)'
    BY <2>15 DEF RespondCrash, Answered, Move
  <2>16. CASE UNCHANGED vars
    BY <2>16 DEF vars
  <2> QED
    BY <2>1, <2>2, <2>3, <2>4, <2>5, <2>6, <2>7, <2>8,
       <2>9, <2>10, <2>11, <2>12, <2>13, <2>14, <2>15, <2>16
       DEF Next, Loop, Database
<1> QED
  BY <1>1, <1>2, PTL DEF Spec

\* The variables stay in their types: a place, an outcome and a reply belong
\* to a request, and a request never has sessions to open below none.
THEOREM TypeCorrect == Spec => []TypeOK
  BY WellFormedness, PTL

\* A connection is held during a query only, as sessions are opened one at a
\* time.
HoldersQuery == \A r \in holding : place[r] \in {"querying", "probeQuerying"}

LEMMA NobodyWaitsHolding == Spec => []HoldersQuery
<1> USE DEF TypeOK, HoldersQuery,
            TraceIds, InThread, Probing, Place, Outcome, NoReply, Reply,
            pools, results, identity
<1>1. Init => HoldersQuery
  BY DEF Init
<1>2. TypeOK /\ HoldersQuery /\ [Next]_vars => HoldersQuery'
  <2> SUFFICES ASSUME TypeOK, HoldersQuery, [Next]_vars PROVE HoldersQuery'
    OBVIOUS
  <2>1. ASSUME NEW r \in Requests, NEW k \in Kinds, Arrive(r, k) PROVE HoldersQuery'
    BY <2>1, Arrival
  <2>2. ASSUME NEW r \in Requests, Healthz(r) PROVE HoldersQuery'
    BY <2>2 DEF Healthz, Move, End, LoopIsFree
  <2>3. ASSUME NEW r \in Requests, StartCall(r) PROVE HoldersQuery'
    BY <2>3 DEF StartCall, Move, LoopIsFree
  <2>4. ASSUME NEW r \in Requests, Refuse(r) PROVE HoldersQuery'
    BY <2>4 DEF Refuse, Move, End
  <2>5. ASSUME NEW r \in Requests, Connect(r) PROVE HoldersQuery'
    BY <2>5 DEF Connect, Move
  <2>6. ASSUME NEW r \in Requests, PoolTimeout(r) PROVE HoldersQuery'
    BY <2>6 DEF PoolTimeout, Move, End
  <2>7. ASSUME NEW r \in Requests, Transact(r) PROVE HoldersQuery'
    BY <2>7 DEF Transact, Move, End, Close
  <2>8. ASSUME NEW r \in Requests, Resume(r) PROVE HoldersQuery'
    BY <2>8 DEF Resume, Move, End, LoopIsFree
  <2>9. ASSUME NEW r \in Requests, Readyz(r) PROVE HoldersQuery'
    BY <2>9 DEF Readyz, Move, LoopIsFree
  <2>10. ASSUME NEW r \in Requests, CheckConnect(r) PROVE HoldersQuery'
    BY <2>10 DEF CheckConnect, Move
  <2>11. ASSUME NEW r \in Requests, CheckTimeout(r) PROVE HoldersQuery'
    BY <2>11 DEF CheckTimeout, Move, End
  <2>12. ASSUME NEW r \in Requests, CheckQuery(r) PROVE HoldersQuery'
    BY <2>12 DEF CheckQuery, Move, End
  <2>13. ASSUME NEW r \in Requests, RespondFine(r) PROVE HoldersQuery'
    BY <2>13 DEF RespondFine, Answered, Move, Logged
  <2>14. ASSUME NEW r \in Requests, RespondProblem(r) PROVE HoldersQuery'
    BY <2>14 DEF RespondProblem, Answered, Move, Logged
  <2>15. ASSUME NEW r \in Requests, RespondCrash(r) PROVE HoldersQuery'
    BY <2>15 DEF RespondCrash, Answered, Move
  <2>16. CASE UNCHANGED vars
    BY <2>16 DEF vars
  <2> QED
    BY <2>1, <2>2, <2>3, <2>4, <2>5, <2>6, <2>7, <2>8,
       <2>9, <2>10, <2>11, <2>12, <2>13, <2>14, <2>15, <2>16
       DEF Next, Loop, Database
<1> QED
  BY <1>1, <1>2, TypeCorrect, PTL DEF Spec

Named == ContextIsOwn /\ RepliesNameTheirRequest

\* Error bodies, echoed headers and access-log lines name no request but the
\* one they belong to, also when several clients send the same id, and error
\* bodies do name it, the tracebacks of debug mode excepted.
THEOREM RepliesAreNamed == Spec => []RepliesNameTheirRequest
<1> USE DebugAssumption DEF TypeOK, Named, ContextIsOwn, RepliesNameTheirRequest,
            TraceIds, InThread, Probing, Place, Outcome, NoReply, Reply,
            pools, results, identity
<1>1. Init => Named
  BY DEF Init
<1>2. TypeOK /\ Named /\ [Next]_vars => Named'
  <2> SUFFICES ASSUME TypeOK, Named, [Next]_vars PROVE Named'
    OBVIOUS
  <2>1. ASSUME NEW r \in Requests, NEW k \in Kinds, Arrive(r, k) PROVE Named'
    BY <2>1, Arrival
  <2>2. ASSUME NEW r \in Requests, Healthz(r) PROVE Named'
    BY <2>2 DEF Healthz, Move, End, LoopIsFree
  <2>3. ASSUME NEW r \in Requests, StartCall(r) PROVE Named'
    BY <2>3 DEF StartCall, Move, LoopIsFree
  <2>4. ASSUME NEW r \in Requests, Refuse(r) PROVE Named'
    BY <2>4 DEF Refuse, Move, End
  <2>5. ASSUME NEW r \in Requests, Connect(r) PROVE Named'
    BY <2>5 DEF Connect, Move
  <2>6. ASSUME NEW r \in Requests, PoolTimeout(r) PROVE Named'
    BY <2>6 DEF PoolTimeout, Move, End
  <2>7. ASSUME NEW r \in Requests, Transact(r) PROVE Named'
    BY <2>7 DEF Transact, Move, End, Close
  <2>8. ASSUME NEW r \in Requests, Resume(r) PROVE Named'
    BY <2>8 DEF Resume, Move, End, LoopIsFree
  <2>9. ASSUME NEW r \in Requests, Readyz(r) PROVE Named'
    BY <2>9 DEF Readyz, Move, LoopIsFree
  <2>10. ASSUME NEW r \in Requests, CheckConnect(r) PROVE Named'
    BY <2>10 DEF CheckConnect, Move
  <2>11. ASSUME NEW r \in Requests, CheckTimeout(r) PROVE Named'
    BY <2>11 DEF CheckTimeout, Move, End
  <2>12. ASSUME NEW r \in Requests, CheckQuery(r) PROVE Named'
    BY <2>12 DEF CheckQuery, Move, End
  <2>13. ASSUME NEW r \in Requests, RespondFine(r) PROVE Named'
    BY <2>13 DEF RespondFine, Answered, Move, Logged
  <2>14. ASSUME NEW r \in Requests, RespondProblem(r) PROVE Named'
    BY <2>14 DEF RespondProblem, Answered, Move, Logged
  <2>15. ASSUME NEW r \in Requests, RespondCrash(r) PROVE Named'
    BY <2>15 DEF RespondCrash, Answered, Move
  <2>16. CASE UNCHANGED vars
    BY <2>16 DEF vars
  <2> QED
    BY <2>1, <2>2, <2>3, <2>4, <2>5, <2>6, <2>7, <2>8,
       <2>9, <2>10, <2>11, <2>12, <2>13, <2>14, <2>15, <2>16
       DEF Next, Loop, Database
<1>3. Named => RepliesNameTheirRequest
  OBVIOUS
<1> QED
  BY <1>1, <1>2, <1>3, TypeCorrect, PTL DEF Spec

-----------------------------------------------------------------------------
(* HttpServer: why every request is answered, if the database answers *)

\* The request whose coroutine blocks the loop is a readiness probe on its way,
\* and a request whose handler has ended has an outcome.
LoopIsProbed ==
  /\ loop # NoRequest => place[loop] \in Probing
  /\ \A r \in Requests : place[r] \in Probing => loop = r
  /\ \A r \in Requests : place[r] = "done" => outcome[r] # "none"

LEMMA LoopKept == Spec => []LoopIsProbed
<1> USE NoRequestAssumption
    DEF TypeOK, LoopIsProbed, TraceIds, InThread, Probing, Place, Outcome, NoReply, Reply,
        pools, results, identity, LoopIsFree
<1>1. Init => LoopIsProbed
  BY DEF Init
<1>2. TypeOK /\ LoopIsProbed /\ [Next]_vars => LoopIsProbed'
  <2> SUFFICES ASSUME TypeOK, LoopIsProbed, [Next]_vars PROVE LoopIsProbed'
    OBVIOUS
  <2>1. ASSUME NEW r \in Requests, NEW k \in Kinds, Arrive(r, k) PROVE LoopIsProbed'
    <3>1. /\ place' = [place EXCEPT ![r] = IF k = "api" THEN "queued" ELSE k]
          /\ k \in {"live", "ready", "api"}
          /\ loop' = loop /\ outcome' = outcome
          /\ place[r] = "away"
      BY <2>1, Arrival
    <3>2. place'[r] \in {"queued", "live", "ready"} /\ \A q \in Requests \ {r} : place'[q] = place[q]
      BY <3>1
    <3>3. QED
      BY <3>1, <3>2
  <2>2. ASSUME NEW r \in Requests, Healthz(r) PROVE LoopIsProbed'
    BY <2>2 DEF Healthz, Move, End
  <2>3. ASSUME NEW r \in Requests, StartCall(r) PROVE LoopIsProbed'
    BY <2>3 DEF StartCall, Move
  <2>4. ASSUME NEW r \in Requests, Refuse(r) PROVE LoopIsProbed'
    BY <2>4 DEF Refuse, Move, End
  <2>5. ASSUME NEW r \in Requests, Connect(r) PROVE LoopIsProbed'
    BY <2>5 DEF Connect, Move
  <2>6. ASSUME NEW r \in Requests, PoolTimeout(r) PROVE LoopIsProbed'
    BY <2>6 DEF PoolTimeout, Move, End
  <2>7. ASSUME NEW r \in Requests, Transact(r) PROVE LoopIsProbed'
    BY <2>7 DEF Transact, Move, End, Close
  <2>8. ASSUME NEW r \in Requests, Resume(r) PROVE LoopIsProbed'
    BY <2>8 DEF Resume, Move, End
  <2>9. ASSUME NEW r \in Requests, Readyz(r) PROVE LoopIsProbed'
    BY <2>9 DEF Readyz, Move
  <2>10. ASSUME NEW r \in Requests, CheckConnect(r) PROVE LoopIsProbed'
    BY <2>10 DEF CheckConnect, Move
  <2>11. ASSUME NEW r \in Requests, CheckTimeout(r) PROVE LoopIsProbed'
    BY <2>11 DEF CheckTimeout, Move, End
  <2>12. ASSUME NEW r \in Requests, CheckQuery(r) PROVE LoopIsProbed'
    BY <2>12 DEF CheckQuery, Move, End
  <2>13. ASSUME NEW r \in Requests, RespondFine(r) PROVE LoopIsProbed'
    BY <2>13 DEF RespondFine, Answered, Move, Logged
  <2>14. ASSUME NEW r \in Requests, RespondProblem(r) PROVE LoopIsProbed'
    BY <2>14 DEF RespondProblem, Answered, Move, Logged
  <2>15. ASSUME NEW r \in Requests, RespondCrash(r) PROVE LoopIsProbed'
    BY <2>15 DEF RespondCrash, Answered, Move
  <2>16. CASE UNCHANGED vars
    BY <2>16 DEF vars
  <2> QED
    BY <2>1, <2>2, <2>3, <2>4, <2>5, <2>6, <2>7, <2>8,
       <2>9, <2>10, <2>11, <2>12, <2>13, <2>14, <2>15, <2>16
       DEF Next, Loop, Database
<1> QED
  BY <1>1, <1>2, TypeCorrect, PTL DEF Spec

\* The guards of Loop(r) and Database(r), by the place of the request: nothing
\* that r needs for its next step is taken.
CanGoOn(r) ==
  \/ place[r] \in {"live", "ready", "back", "done"} /\ LoopIsFree
  \/ /\ place[r] = "queued" /\ LoopIsFree
     /\ Cardinality({q \in Requests : place[q] \in InThread}) < Threads
  \/ place[r] \in {"connecting", "probeConnecting"} /\ Cardinality(holding) < Connections
  \/ place[r] \in {"querying", "probeQuerying"}

\* Threads, connections and the loop are never waited for in a circle: as long
\* as a request is under way, there is one that can go on without a timeout.
SomebodyCanGoOn ==
  (\E r \in Requests : place[r] \notin {"away", "answered"}) => \E r \in Requests : CanGoOn(r)

\* For any number of requests, threads and connections the server is never
\* stuck, be it that all threads wait for connections or the readiness probe
\* holds the loop.
THEOREM NeverStuck == Spec => []SomebodyCanGoOn
<1>1. TypeOK /\ HoldersQuery /\ LoopIsProbed => SomebodyCanGoOn
  <2> SUFFICES ASSUME TypeOK, HoldersQuery, LoopIsProbed,
                      NEW r \in Requests, place[r] \notin {"away", "answered"},
                      \A q \in Requests : ~CanGoOn(q)
               PROVE  FALSE
    BY DEF SomebodyCanGoOn
  <2> USE DEF TypeOK
  <2>1. \A q \in Requests : place[q] \notin {"querying", "probeQuerying"}
    BY DEF CanGoOn
  <2>2. holding = {}
    BY <2>1 DEF HoldersQuery
  <2>3. Cardinality(holding) < Connections
    BY <2>2, FS_EmptySet, SizesAssumption
  <2>4. \A q \in Requests : place[q] \notin {"connecting", "probeConnecting"}
    BY <2>3 DEF CanGoOn
  <2>5. LoopIsFree
    BY <2>1, <2>4 DEF LoopIsProbed, LoopIsFree, Probing
  <2>6. {q \in Requests : place[q] \in InThread} = {}
    BY <2>1, <2>4 DEF InThread
  <2>7. Cardinality({q \in Requests : place[q] \in InThread}) < Threads
    <3>1. Cardinality({q \in Requests : place[q] \in InThread}) = 0
      BY <2>6, FS_EmptySet
    <3>2. QED
      BY <3>1, SizesAssumption
  <2>8. place[r] \in {"live", "ready", "back", "done", "queued"}
    BY <2>1, <2>4 DEF Place, InThread, Probing
  <2>9. CanGoOn(r)
    BY <2>5, <2>7, <2>8 DEF CanGoOn
  <2>10. QED
    BY <2>9
<1>2. QED
  BY <1>1, TypeCorrect, NobodyWaitsHolding, LoopKept, PTL

\* Sessions that a request may still open, and what it can still do: four
\* steps for each of them, and from every place the steps to its reply.
ToOpen(r) ==
  IF place[r] = "away" THEN MaxSessions
  ELSE IF \/ place[r] \in {"queued", "connecting", "querying"}
          \/ (place[r] = "back" /\ outcome[r] = "none") THEN sessions[r]
  ELSE 0

Effort ==
  [p \in Place |-> IF p \in {"away", "querying"} THEN 6
                   ELSE IF p = "back" THEN 5
                   ELSE IF p \in {"queued", "ready"} THEN 4
                   ELSE IF p \in {"connecting", "probeConnecting"} THEN 3
                   ELSE IF p \in {"live", "probeQuerying"} THEN 2
                   ELSE IF p = "done" THEN 1
                   ELSE 0]

ToDo(r) == Effort[place[r]] + 4 * ToOpen(r)

LEMMA Efforts ==
  /\ Effort["away"] = 6 /\ Effort["querying"] = 6 /\ Effort["back"] = 5
  /\ Effort["queued"] = 4 /\ Effort["ready"] = 4
  /\ Effort["connecting"] = 3 /\ Effort["probeConnecting"] = 3
  /\ Effort["live"] = 2 /\ Effort["probeQuerying"] = 2
  /\ Effort["done"] = 1 /\ Effort["answered"] = 0
BY DEF Effort, Place, InThread, Probing

\* Every step, timeouts included, brings one request nearer to its reply and
\* takes no other away from its own: nobody is ever sent back to wait again.
EveryStepCounts ==
  [][\E r \in Requests :
       /\ ToDo(r) \in Nat /\ ToDo(r)' \in Nat /\ ToDo(r)' < ToDo(r)
       /\ \A q \in Requests \ {r} : ToDo(q)' = ToDo(q)]_vars

LEMMA ArrivalCounts ==
  ASSUME TypeOK, NEW r \in Requests, NEW k \in Kinds, Arrive(r, k)
  PROVE  /\ ToDo(r) \in Nat /\ ToDo(r)' \in Nat /\ ToDo(r)' < ToDo(r)
         /\ \A q \in Requests \ {r} : ToDo(q)' = ToDo(q)
<1> USE SizesAssumption DEF TypeOK
<1>1. /\ place[r] = "away" /\ k \in {"live", "ready", "api"}
      /\ place' = [place EXCEPT ![r] = IF k = "api" THEN "queued" ELSE k]
      /\ \/ sessions' = sessions /\ k # "api"
         \/ \E n \in 1..MaxSessions : sessions' = [sessions EXCEPT ![r] = n]
      /\ outcome' = outcome
  BY Arrival
<1>2. ToDo(r) = 6 + 4 * MaxSessions
  BY <1>1, Efforts DEF ToDo, ToOpen
<1>3. sessions'[r] \in 0..MaxSessions
  BY <1>1
<1>4. place'[r] \in {"queued", "live", "ready"}
  BY <1>1
<1>5. ToDo(r)' \in {4 + 4 * sessions'[r], 2, 4}
  BY <1>4, Efforts DEF ToDo, ToOpen
<1>6. ToDo(r)' \in Nat /\ ToDo(r)' < ToDo(r) /\ ToDo(r) \in Nat
  BY <1>2, <1>3, <1>5
<1>7. ASSUME NEW q \in Requests \ {r} PROVE ToDo(q)' = ToDo(q)
  <2>1. place'[q] = place[q] /\ sessions'[q] = sessions[q] /\ outcome'[q] = outcome[q]
    BY <1>1
  <2>2. QED
    BY <2>1 DEF ToDo, ToOpen
<1>8. QED
  BY <1>6, <1>7

\* For any number of requests, threads and connections no step sends a request
\* back: together with NeverStuck, a server that goes on answers everybody.
THEOREM StepsCount == Spec => EveryStepCounts
<1>1. ASSUME TypeOK, SessionsLeft, [Next]_vars
      PROVE  [\E r \in Requests :
                /\ ToDo(r) \in Nat /\ ToDo(r)' \in Nat /\ ToDo(r)' < ToDo(r)
                /\ \A q \in Requests \ {r} : ToDo(q)' = ToDo(q)]_vars
  <2> DEFINE Nearer(r) == ToDo(r) \in Nat /\ ToDo(r)' \in Nat /\ ToDo(r)' < ToDo(r)
             Apart(r) == \A q \in Requests \ {r} : ToDo(q)' = ToDo(q)
             Counts(r) == Nearer(r) /\ Apart(r)
  <2> USE <1>1, SizesAssumption DEF TypeOK, SessionsLeft, pools, results, identity, LoopIsFree
  <2>0. ASSUME NEW r \in Requests,
               \A q \in Requests \ {r} : /\ place'[q] = place[q] /\ sessions'[q] = sessions[q]
                                         /\ outcome'[q] = outcome[q]
        PROVE  Apart(r)
    BY <2>0 DEF ToDo, ToOpen
  <2>1. ASSUME NEW r \in Requests, NEW k \in Kinds, Arrive(r, k) PROVE Counts(r)
    BY <2>1, ArrivalCounts
  <2>2. ASSUME NEW r \in Requests, Healthz(r) PROVE Counts(r)
    <3>1. Nearer(r)
      BY <2>2, Efforts DEF Healthz, Move, End, ToDo, ToOpen
    <3>2. QED
      BY <2>2, <2>0, <3>1 DEF Healthz, Move, End
  <2>3. ASSUME NEW r \in Requests, StartCall(r) PROVE Counts(r)
    <3>1. Nearer(r)
      BY <2>3, Efforts DEF StartCall, Move, ToDo, ToOpen
    <3>2. QED
      BY <2>3, <2>0, <3>1 DEF StartCall, Move
  <2>4. ASSUME NEW r \in Requests, Refuse(r) PROVE Counts(r)
    <3>1. Nearer(r)
      <4>1. place[r] = "connecting" /\ place'[r] = "back" /\ outcome'[r] # "none"
        BY <2>4 DEF Refuse, Move, End
      <4>2. sessions[r] \in Nat /\ sessions[r] > 0
        BY <4>1
      <4>3. ToDo(r) = 3 + 4 * sessions[r]
        BY <4>1, Efforts DEF ToDo, ToOpen
      <4>4. ToDo(r)' = 5
        BY <4>1, Efforts DEF ToDo, ToOpen
      <4>5. QED
        BY <4>2, <4>3, <4>4
    <3>2. QED
      BY <2>4, <2>0, <3>1 DEF Refuse, Move, End
  <2>5. ASSUME NEW r \in Requests, Connect(r) PROVE Counts(r)
    <3>1. Nearer(r)
      <4>1. place[r] = "connecting" /\ place'[r] = "querying" /\ sessions'[r] = sessions[r] - 1
        BY <2>5 DEF Connect, Move
      <4>2. sessions[r] \in Nat /\ sessions[r] > 0
        BY <4>1
      <4>3. ToDo(r) = 3 + 4 * sessions[r]
        BY <4>1, Efforts DEF ToDo, ToOpen
      <4>4. ToDo(r)' = 6 + 4 * (sessions[r] - 1)
        BY <4>1, Efforts DEF ToDo, ToOpen
      <4>5. QED
        BY <4>2, <4>3, <4>4
    <3>2. QED
      BY <2>5, <2>0, <3>1 DEF Connect, Move
  <2>6. ASSUME NEW r \in Requests, PoolTimeout(r) PROVE Counts(r)
    <3>1. Nearer(r)
      <4>1. place[r] = "connecting" /\ place'[r] = "back" /\ outcome'[r] # "none"
        BY <2>6 DEF PoolTimeout, Move, End
      <4>2. sessions[r] \in Nat /\ sessions[r] > 0
        BY <4>1
      <4>3. ToDo(r) = 3 + 4 * sessions[r]
        BY <4>1, Efforts DEF ToDo, ToOpen
      <4>4. ToDo(r)' = 5
        BY <4>1, Efforts DEF ToDo, ToOpen
      <4>5. QED
        BY <4>2, <4>3, <4>4
    <3>2. QED
      BY <2>6, <2>0, <3>1 DEF PoolTimeout, Move, End
  <2>7. ASSUME NEW r \in Requests, Transact(r) PROVE Counts(r)
    <3>1. Nearer(r)
      BY <2>7, Efforts DEF Transact, Move, End, ToDo, ToOpen
    <3>2. QED
      BY <2>7, <2>0, <3>1 DEF Transact, Move, End
  <2>8. ASSUME NEW r \in Requests, Resume(r) PROVE Counts(r)
    <3>1. Nearer(r)
      BY <2>8, Efforts DEF Resume, Move, End, ToDo, ToOpen
    <3>2. QED
      BY <2>8, <2>0, <3>1 DEF Resume, Move, End
  <2>9. ASSUME NEW r \in Requests, Readyz(r) PROVE Counts(r)
    <3>1. Nearer(r)
      BY <2>9, Efforts DEF Readyz, Move, ToDo, ToOpen
    <3>2. QED
      BY <2>9, <2>0, <3>1 DEF Readyz, Move
  <2>10. ASSUME NEW r \in Requests, CheckConnect(r) PROVE Counts(r)
    <3>1. Nearer(r)
      BY <2>10, Efforts DEF CheckConnect, Move, ToDo, ToOpen
    <3>2. QED
      BY <2>10, <2>0, <3>1 DEF CheckConnect, Move
  <2>11. ASSUME NEW r \in Requests, CheckTimeout(r) PROVE Counts(r)
    <3>1. Nearer(r)
      BY <2>11, Efforts DEF CheckTimeout, Move, End, ToDo, ToOpen
    <3>2. QED
      BY <2>11, <2>0, <3>1 DEF CheckTimeout, Move, End
  <2>12. ASSUME NEW r \in Requests, CheckQuery(r) PROVE Counts(r)
    <3>1. Nearer(r)
      BY <2>12, Efforts DEF CheckQuery, Move, End, ToDo, ToOpen
    <3>2. QED
      BY <2>12, <2>0, <3>1 DEF CheckQuery, Move, End
  <2>13. ASSUME NEW r \in Requests, RespondFine(r) PROVE Counts(r)
    <3>1. Nearer(r)
      BY <2>13, Efforts DEF RespondFine, Answered, Move, ToDo, ToOpen
    <3>2. QED
      BY <2>13, <2>0, <3>1 DEF RespondFine, Answered, Move
  <2>14. ASSUME NEW r \in Requests, RespondProblem(r) PROVE Counts(r)
    <3>1. Nearer(r)
      BY <2>14, Efforts DEF RespondProblem, Answered, Move, ToDo, ToOpen
    <3>2. QED
      BY <2>14, <2>0, <3>1 DEF RespondProblem, Answered, Move
  <2>15. ASSUME NEW r \in Requests, RespondCrash(r) PROVE Counts(r)
    <3>1. Nearer(r)
      BY <2>15, Efforts DEF RespondCrash, Answered, Move, ToDo, ToOpen
    <3>2. QED
      BY <2>15, <2>0, <3>1 DEF RespondCrash, Answered, Move
  <2>16. CASE UNCHANGED vars
    BY <2>16
  <2> HIDE DEF Counts
  <2>17. (\E r \in Requests : Counts(r)) \/ UNCHANGED vars
    BY <2>1, <2>2, <2>3, <2>4, <2>5, <2>6, <2>7, <2>8,
       <2>9, <2>10, <2>11, <2>12, <2>13, <2>14, <2>15, <2>16
       DEF Next, Loop, Database
  <2>18. QED
    BY <2>17 DEF Counts
<1>2. QED
  BY <1>1, WellFormedness, PTL DEF Spec, EveryStepCounts

-----------------------------------------------------------------------------
(* The container *)

\* The database is wired, and the next statement is one of those named or
\* there is none left.
Behind(statements) ==
  \/ stage \in statements
  \/ /\ stage = "serving"
     /\ settings.database = "url"

\* A container that is being built holds what the statements so far have put
\* into it, made from the settings of its own start.
BuiltSoFar ==
  /\ stage # "stopped" => settings \in Settings
  /\ stage \notin {"stopped", "database", "serving"} => settings.database = "url"
  /\ stage = "serving" => settings.database \in {"none", "url"}
  /\ stage = "database" => objects = Nothing
  /\ stage = "serving" /\ settings.database = "none" => objects = Nothing
  /\ Behind({"storage", "embedder", "store", "ingestion", "retrieval", "agent"}) =>
       objects.engine = [is |-> "engine"]
  /\ Behind({"embedder", "store", "ingestion", "retrieval", "agent"}) =>
       /\ objects.storage \in Storages
       /\ objects.auth = [is |-> "auth"]
       /\ objects.upload = [storage |-> objects.storage]
  /\ Behind({"store", "ingestion", "retrieval", "agent"}) =>
       /\ settings.embedder \in {"sentence_transformers", "memory"}
       /\ objects.embedder = [is |-> settings.embedder, dims |-> settings.dims]
  /\ Behind({"ingestion", "retrieval", "agent"}) =>
       /\ settings.store \in {"faiss", "memory"}
       /\ objects.store = [is |-> settings.store, dims |-> settings.dims]
  /\ Behind({"retrieval", "agent"}) =>
       objects.ingestion = [storage |-> objects.storage, embedder |-> objects.embedder,
                            store |-> objects.store]
  /\ Behind({"agent"}) =>
       /\ settings.rewrite => ProviderBuilds
       /\ objects.retrieval = [embedder |-> objects.embedder, store |-> objects.store,
                               rewriter |-> IF settings.rewrite THEN "llm" ELSE "passthrough"]
  /\ Behind({}) =>
       objects.agent = [retrieval |-> objects.retrieval,
                        provider |-> IF ProviderBuilds THEN "gemini" ELSE None]

-----------------------------------------------------------------------------
(* The store across starts *)

HasStore == Behind({"ingestion", "retrieval", "agent"})

\* Every vector is where its document's name is.
NamesFit(ids, index) ==
  Len(ids) = Len(index) /\ \A n \in DOMAIN index : ids[n] = index[n].doc

\* The lists of a store hold vectors of one number of dimensions, at most that
\* of the settings.  If it is that of the settings they agree; if it is less,
\* a failed deletion may have taken names and vectors off that the index keeps.
ListsFit ==
  HasStore =>
    /\ \A n \in DOMAIN lists.index : lists.index[n].dims = lists.dims
    /\ \A n \in DOMAIN lists.vectors : lists.vectors[n].dims = lists.dims
    /\ Len(lists.vectors) = Len(lists.ids) /\ Len(lists.ids) <= Len(lists.index)
    /\ lists.dims <= settings.dims
    /\ settings.store = "memory" => lists.dims = settings.dims
    /\ lists.dims = settings.dims =>
         lists.vectors = lists.index /\ NamesFit(lists.ids, lists.index)

\* And so do the files.
DiskFits ==
  disk # None =>
    /\ settings \in Settings
    /\ \A n \in DOMAIN disk.index : disk.index[n].dims = disk.dims
    /\ Len(disk.ids) <= Len(disk.index)
    /\ disk.dims <= settings.dims
    /\ disk.dims = settings.dims => NamesFit(disk.ids, disk.index)

\* A ready document went into a store of no more dimensions than the settings
\* have by now.  If it has as many, its name is on disk, and in the store that
\* was loaded from there.
HomesKnow ==
  \A d \in Docs : documents[d] = "ready" =>
    /\ settings \in Settings /\ home[d] \in Stores
    /\ home[d].dims <= settings.dims
    /\ home[d].is = "faiss" /\ home[d].dims = settings.dims =>
         /\ disk # None /\ disk.dims = settings.dims /\ d \in Elements(disk.ids)
         /\ HasStore /\ settings.store = "faiss" =>
              lists.dims = settings.dims /\ d \in Elements(lists.ids)

-----------------------------------------------------------------------------

\* Settings have a number of dimensions.
LEMMA SettingsHaveDims ==
  ASSUME NEW s \in Settings
  PROVE  s.dims \in Nat \ {0}
BY SettingsAssumption

\* An object is not the mark of a missing one.
LEMMA ObjectsAreThere ==
  /\ \A x \in Object : x # None
  /\ [is |-> "engine"] \in Object /\ [is |-> "auth"] \in Object
  /\ Storages \subseteq Object /\ Embedders \subseteq Object /\ Stores \subseteq Object
  /\ Retrievals \subseteq Object
  /\ [storage : Storages] \subseteq Object
  /\ [storage : Storages, embedder : Embedders, store : Stores] \subseteq Object
  /\ [retrieval : Retrievals, provider : {"gemini", None}] \subseteq Object
BY NoneAssumption DEF Object

\* The statements of a build: each one finds the container as the statements
\* before it have left it.
LEMMA BuildingGoesOn ==
  ASSUME ContainerTypeOK, BuiltSoFar, ContainerNext
  PROVE  BuiltSoFar'
<1> USE DEF ContainerTypeOK, BuiltSoFar, Behind, stored, Nothing, Field, ProviderBuilds
<1>1. ASSUME NEW s \in Settings, Start(s) PROVE BuiltSoFar'
  BY <1>1 DEF Start
<1>2. CASE WireDatabase
  BY <1>2 DEF WireDatabase, Assign, Raise
<1>3. CASE BuildStorage
  BY <1>3 DEF BuildStorage, Assign, Raise, Storages
<1>4. CASE BuildEmbedder
  BY <1>4 DEF BuildEmbedder, Assign, Raise, Embedder
<1>5. CASE BuildVectorStore
  BY <1>5 DEF BuildVectorStore, Assign, Raise
<1>6. CASE WireIngestion
  BY <1>6 DEF WireIngestion, Assign, Raise, Held
<1>7. CASE WireRetrieval
  BY <1>7 DEF WireRetrieval, Assign, Raise
<1>8. CASE WireAgent
  BY <1>8 DEF WireAgent, Assign
<1>9. ASSUME NEW d \in Docs, Ingest(d) \/ Delete(d) \/ DeleteRaises(d) PROVE BuiltSoFar'
  BY <1>9 DEF Ingest, Delete, DeleteRaises, process
<1>10. CASE Stop
  BY <1>10 DEF Stop
<1> QED
  BY <1>1, <1>2, <1>3, <1>4, <1>5, <1>6, <1>7, <1>8, <1>9, <1>10 DEF ContainerNext, Wire

\* What is put into a field is one of the objects it may hold.
LEMMA ObjectsAreBuilt ==
  ASSUME ContainerTypeOK, BuiltSoFar, ContainerNext
  PROVE  objects' \in [Field -> Object \cup {None}]
<1> USE ObjectsAreThere DEF ContainerTypeOK, stored, Field
<1>1. stage # "stopped" => settings.dims \in Nat
  BY SettingsHaveDims DEF BuiltSoFar
<1>2. /\ stage \in {"store", "ingestion", "retrieval", "agent"} => objects.embedder \in Embedders
      /\ stage \in {"ingestion", "retrieval", "agent"} => objects.store \in Stores
      /\ stage \in {"embedder", "store", "ingestion", "retrieval", "agent"} => objects.storage \in Storages
  BY <1>1 DEF BuiltSoFar, Behind, Embedders, Stores
<1>3. ASSUME NEW s \in Settings, Start(s) PROVE objects' \in [Field -> Object \cup {None}]
  BY <1>3 DEF Start
<1>4. CASE WireDatabase
  BY <1>4 DEF WireDatabase, Assign, Raise, Nothing
<1>5. CASE BuildStorage
  BY <1>5 DEF BuildStorage, Assign, Raise, Storages, Nothing
<1>6. CASE BuildEmbedder
  BY <1>1, <1>6 DEF BuildEmbedder, Assign, Raise, Embedder, Nothing, Embedders
<1>7. CASE BuildVectorStore
  BY <1>1, <1>7 DEF BuildVectorStore, Assign, Raise, Nothing, Stores
<1>8. CASE WireIngestion
  <2>1. stage = "ingestion" =>
          Held({"storage", "embedder", "store"})
            = [storage |-> objects.storage, embedder |-> objects.embedder, store |-> objects.store]
    BY DEF Held
  <2>2. stage = "ingestion" => Held({"storage", "embedder", "store"}) \in Object
    BY <1>2, <2>1
  <2> QED
    BY <1>8, <2>2 DEF WireIngestion, Assign, Raise, Nothing
<1>9. CASE WireRetrieval
  <2>1. stage = "retrieval" =>
          [embedder |-> objects.embedder, store |-> objects.store,
           rewriter |-> IF settings.rewrite THEN "llm" ELSE "passthrough"] \in Object
    BY <1>2 DEF Retrievals
  <2> QED
    BY <1>9, <2>1 DEF WireRetrieval, Assign, Raise, Nothing
<1>10. CASE WireAgent
  <2>1. stage = "agent" =>
          [retrieval |-> objects.retrieval, provider |-> IF ProviderBuilds THEN "gemini" ELSE None]
            \in Object
    BY <1>2 DEF BuiltSoFar, Behind, Retrievals
  <2> QED
    BY <1>10, <2>1 DEF WireAgent, Assign
<1>11. ASSUME NEW d \in Docs, Ingest(d) \/ Delete(d) \/ DeleteRaises(d)
       PROVE  objects' \in [Field -> Object \cup {None}]
  BY <1>11 DEF Ingest, Delete, DeleteRaises, process
<1>12. CASE Stop
  BY <1>12 DEF Stop, Nothing
<1> QED
  BY <1>3, <1>4, <1>5, <1>6, <1>7, <1>8, <1>9, <1>10, <1>11, <1>12 DEF ContainerNext, Wire

\* What serves has a store and an embedder of the dimensions of the settings.
LEMMA ServingStore ==
  ASSUME BuiltSoFar, Serves
  PROVE  /\ HasStore /\ settings \in Settings /\ settings.dims \in Nat \ {0}
         /\ settings.store \in {"faiss", "memory"}
         /\ objects.store = [is |-> settings.store, dims |-> settings.dims]
         /\ objects.store \in Stores /\ objects.store # None
         /\ objects.embedder.dims = settings.dims
         /\ stage = "serving"
<1>1. stage = "serving" /\ settings.database = "url" /\ settings \in Settings
  BY DEF BuiltSoFar, Serves, Nothing, Field
<1>2. settings.dims \in Nat \ {0}
  BY <1>1, SettingsHaveDims
<1>3. /\ settings.store \in {"faiss", "memory"}
      /\ objects.store = [is |-> settings.store, dims |-> settings.dims]
      /\ objects.embedder = [is |-> settings.embedder, dims |-> settings.dims]
  BY <1>1 DEF BuiltSoFar, Behind
<1>4. objects.store \in Stores
  BY <1>2, <1>3 DEF Stores
<1> QED
  BY <1>1, <1>2, <1>3, <1>4, ObjectsAreThere DEF HasStore, Behind

\* Taking a document out of the lists leaves names and vectors in step, and
\* takes nothing else out.
LEMMA TakenOut ==
  ASSUME lists \in Lists, NEW d \in Docs
  PROVE  /\ Kept(d) \in Seq(Vector) /\ KeptIds(d) \in Seq(Docs \cup {Unknown})
         /\ Elements(KeptIds(d)) = Elements(lists.ids) \ {d}
         /\ Elements(Kept(d)) \subseteq Elements(lists.vectors)
         /\ Len(lists.vectors) = Len(lists.ids) =>
              /\ Len(Kept(d)) = Len(KeptIds(d)) /\ Len(KeptIds(d)) <= Len(lists.ids)
              /\ \A j \in 1..Len(KeptIds(d)) : \E k \in DOMAIN lists.ids :
                   KeptIds(d)[j] = lists.ids[k] /\ Kept(d)[j] = lists.vectors[k]
<1>1. lists.vectors \in Seq(Vector) /\ lists.ids \in Seq(Docs \cup {Unknown})
  BY DEF Lists
<1>2. Kept(d) \in Seq(Vector) /\ KeptIds(d) \in Seq(Docs \cup {Unknown})
  BY <1>1, SelectedPicks DEF Kept, KeptIds
<1>3. /\ Elements(Kept(d)) = {lists.vectors[k] : k \in DOMAIN lists.vectors \cap Others(d)}
      /\ Elements(KeptIds(d)) = {lists.ids[k] : k \in DOMAIN lists.ids \cap Others(d)}
  BY <1>1, SelectedElements DEF Kept, KeptIds, Elements
<1>4. Elements(KeptIds(d)) = Elements(lists.ids) \ {d}
  BY <1>3 DEF Others, Elements
<1>5. Elements(Kept(d)) \subseteq Elements(lists.vectors)
  BY <1>3 DEF Elements
<1>6. Len(lists.vectors) = Len(lists.ids) =>
        /\ Len(Kept(d)) = Len(KeptIds(d)) /\ Len(KeptIds(d)) <= Len(lists.ids)
        /\ \A j \in 1..Len(KeptIds(d)) : \E k \in (1..Len(lists.ids)) \cap Others(d) :
             KeptIds(d)[j] = lists.ids[k] /\ Kept(d)[j] = lists.vectors[k]
  <2>1. ASSUME Len(lists.ids) = Len(lists.vectors)
        PROVE  Together(Selected(lists.ids, Others(d)), Selected(lists.vectors, Others(d)),
                        lists.ids, lists.vectors, Others(d))
    BY <1>1, <2>1, SelectedTogether
  <2> QED
    BY <2>1 DEF Together, Kept, KeptIds
<1>7. DOMAIN lists.ids = 1..Len(lists.ids)
  BY <1>1
<1> QED
  BY <1>2, <1>4, <1>5, <1>6, <1>7

\* A name as often as is missing, or not at all.
LEMMA Repeated ==
  ASSUME NEW m \in Int, NEW S, NEW x \in S
  PROVE  /\ [n \in 1..m |-> x] \in Seq(S)
         /\ Len([n \in 1..m |-> x]) = IF m > 0 THEN m ELSE 0
<1> DEFINE r == [n \in 1..m |-> x]
           n0 == IF m > 0 THEN m ELSE 0
<1>1. n0 \in Nat /\ 1..m = 1..n0
  OBVIOUS
<1>2. r = [n \in 1..n0 |-> x]
  BY <1>1, Zenon
<1> HIDE DEF n0
<1>3. [n \in 1..n0 |-> x] \in Seq(S) /\ Len([n \in 1..n0 |-> x]) = n0
  BY <1>1
<1> HIDE DEF r
<1>4. r \in Seq(S) /\ Len(r) = n0
  BY <1>2, <1>3, Zenon
<1>5. QED
  BY <1>4 DEF r, n0

\* What an ingestion, a rebuild and a load make of the lists.
LEMMA ListsAreLists ==
  ASSUME ContainerTypeOK, BuiltSoFar
  PROVE  /\ \A d \in Docs : Serves => Added(d) \in Lists /\ Rebuilt(d) \in Lists
         /\ \A d \in Docs : [lists EXCEPT !.vectors = Kept(d), !.ids = KeptIds(d)] \in Lists
         /\ disk # None => Loaded(disk) \in Lists
         /\ stage # "stopped" => Empty \in Lists
<1> USE DEF ContainerTypeOK
<1>1. ASSUME NEW d \in Docs, Serves PROVE Added(d) \in Lists
  <2>1. [doc |-> d, dims |-> objects.embedder.dims] \in Vector
    BY <1>1, ServingStore DEF Vector
  <2> DEFINE v == [doc |-> d, dims |-> objects.embedder.dims]
  <2> HIDE DEF v
  <2>2. v \in Vector
    BY <2>1 DEF v
  <2>3. Added(d) = [lists EXCEPT !.index = Append(@, v), !.vectors = Append(@, v),
                               !.ids = Append(@, d)]
    BY DEF Added, v
  <2>4. /\ Append(lists.index, v) \in Seq(Vector) /\ Append(lists.vectors, v) \in Seq(Vector)
        /\ Append(lists.ids, d) \in Seq(Docs \cup {Unknown})
    BY <2>2 DEF Lists
  <2> QED
    BY <2>3, <2>4 DEF Lists
<1>2. ASSUME NEW d \in Docs, Serves PROVE Rebuilt(d) \in Lists
  BY <1>2, ServingStore, TakenOut DEF Rebuilt, Lists
<1>3. ASSUME NEW d \in Docs PROVE [lists EXCEPT !.vectors = Kept(d), !.ids = KeptIds(d)] \in Lists
  BY TakenOut DEF Lists
<1>4. ASSUME disk # None PROVE Loaded(disk) \in Lists
  <2>1. disk.dims \in Nat /\ disk.index \in Seq(Vector) /\ disk.ids \in Seq(Docs \cup {Unknown})
    BY <1>4 DEF File
  <2>2. Len(disk.index) - Len(disk.ids) \in Int
    BY <2>1
  <2> DEFINE pad == [n \in 1..(Len(disk.index) - Len(disk.ids)) |-> Unknown]
  <2>3. pad \in Seq(Docs \cup {Unknown})
    BY <2>2, Repeated
  <2>4. Loaded(disk) = [dims |-> disk.dims, index |-> disk.index, vectors |-> disk.index,
                       ids |-> disk.ids \o pad]
    BY DEF Loaded
  <2> HIDE DEF pad
  <2>5. disk.ids \o pad \in Seq(Docs \cup {Unknown})
    BY <2>1, <2>3
  <2> QED
    BY <2>1, <2>4, <2>5 DEF Lists
<1>5. ASSUME stage # "stopped" PROVE Empty \in Lists
  <2>1. settings.dims \in Nat
    BY <1>5, SettingsHaveDims DEF BuiltSoFar
  <2>2. <<>> \in Seq(Vector) /\ <<>> \in Seq(Docs \cup {Unknown})
    OBVIOUS
  <2>3. Empty = [dims |-> settings.dims, index |-> <<>>, vectors |-> <<>>, ids |-> <<>>]
    BY DEF Empty, NoLists
  <2> QED
    BY <2>1, <2>2, <2>3 DEF Lists
<1> QED
  BY <1>1, <1>2, <1>3, <1>4, <1>5

\* The process: its settings, where it is, and its lists.
LEMMA TypesOfTheProcess ==
  ASSUME ContainerTypeOK, BuiltSoFar, ContainerNext
  PROVE  /\ settings' \in Settings \cup {None}
         /\ stage' \in Stage
         /\ stage' = "stopped" => objects' = Nothing /\ lists' = NoLists
         /\ lists' \in Lists
         /\ starts' \in 0..MaxStarts
<1> DEFINE Goal == /\ settings' \in Settings \cup {None}
                   /\ stage' \in Stage
                   /\ stage' = "stopped" => objects' = Nothing /\ lists' = NoLists
                   /\ lists' \in Lists
                   /\ starts' \in 0..MaxStarts
<1> USE DEF ContainerTypeOK, stored, Stage
<1>0. NoLists \in Lists
  BY DEF NoLists, Lists
<1>1. ASSUME NEW s \in Settings, Start(s) PROVE Goal
  BY <1>1, BoundsAssumption DEF Start
<1>2. CASE WireDatabase
  BY <1>0, <1>2 DEF WireDatabase, Assign, Raise
<1>3. CASE BuildStorage
  BY <1>0, <1>3 DEF BuildStorage, Assign, Raise
<1>4. CASE BuildEmbedder
  BY <1>0, <1>4 DEF BuildEmbedder, Assign, Raise
<1>5. CASE BuildVectorStore
  <2>1. CASE Raise("store")
    BY <1>0, <2>1 DEF Raise
  <2>2. CASE lists' \in {Loaded(disk), Empty} /\ Assign("store", [store |-> [is |-> settings.store, dims |-> settings.dims]], "ingestion")
             /\ (lists' = Loaded(disk) => disk # None \/ lists' = Empty)
    BY <2>2, ListsAreLists DEF Assign
  <2> QED
    BY <1>5, <2>1, <2>2 DEF BuildVectorStore
<1>6. CASE WireIngestion
  BY <1>0, <1>6 DEF WireIngestion, Assign, Raise
<1>7. CASE WireRetrieval
  BY <1>0, <1>7 DEF WireRetrieval, Assign, Raise
<1>8. CASE WireAgent
  BY <1>8 DEF WireAgent, Assign
<1>9. ASSUME NEW d \in Docs, Ingest(d) PROVE Goal
  <2>1. lists' \in {lists, Added(d)} /\ Serves /\ UNCHANGED <<process, starts>>
    BY <1>9 DEF Ingest, Ingested, Failed
  <2> QED
    BY <2>1, ListsAreLists DEF process, Serves
<1>10. ASSUME NEW d \in Docs, Delete(d) PROVE Goal
  <2>1. lists' = Rebuilt(d) /\ Serves /\ UNCHANGED <<process, starts>>
    BY <1>10 DEF Delete
  <2> QED
    BY <2>1, ListsAreLists DEF process, Serves
<1>11. ASSUME NEW d \in Docs, DeleteRaises(d) PROVE Goal
  <2>1. /\ lists' = [lists EXCEPT !.vectors = Kept(d), !.ids = KeptIds(d)]
        /\ Serves /\ UNCHANGED <<process, starts>>
    BY <1>11 DEF DeleteRaises
  <2> QED
    BY <2>1, ListsAreLists DEF process, Serves
<1>12. CASE Stop
  BY <1>0, <1>12 DEF Stop
<1> QED
  BY <1>1, <1>2, <1>3, <1>4, <1>5, <1>6, <1>7, <1>8, <1>9, <1>10, <1>11, <1>12
     DEF ContainerNext, Wire

\* What outlives it: the files, the rows and the homes of the documents.
LEMMA TypesOfWhatIsStored ==
  ASSUME ContainerTypeOK, BuiltSoFar, ContainerNext
  PROVE  /\ disk' \in File \cup {None}
         /\ documents' \in [Docs -> {"none", "ready", "error", "deleted"}]
         /\ home' \in [Docs -> Stores \cup {None}]
         /\ \A d \in Docs : documents'[d] = "ready" => home'[d] # None
<1> DEFINE Goal == /\ disk' \in File \cup {None}
                   /\ documents' \in [Docs -> {"none", "ready", "error", "deleted"}]
                   /\ home' \in [Docs -> Stores \cup {None}]
                   /\ \A d \in Docs : documents'[d] = "ready" => home'[d] # None
<1> USE DEF ContainerTypeOK
<1>1. CASE UNCHANGED stored
  BY <1>1 DEF stored
<1>2. ASSUME NEW l \in Lists PROVE Save(l) \in File \cup {None}
  BY DEF Save, File, Lists
<1>3. ASSUME NEW d \in Docs, Ingest(d) PROVE Goal
  <2>1. Serves /\ disk' = Save(lists')
    BY <1>3 DEF Ingest
  <2>2. lists' \in Lists
    BY TypesOfTheProcess
  <2>3. CASE Ingested(d)
    BY <1>2, <2>1, <2>2, <2>3, ServingStore DEF Ingested
  <2>4. CASE Failed(d)
    BY <1>2, <2>1, <2>2, <2>4 DEF Failed
  <2> QED
    BY <1>3, <2>3, <2>4 DEF Ingest
<1>4. ASSUME NEW d \in Docs, Delete(d) PROVE Goal
  <2>1. lists' \in Lists
    BY TypesOfTheProcess
  <2> QED
    BY <1>2, <1>4, <2>1 DEF Delete
<1>5. ASSUME NEW d \in Docs, DeleteRaises(d) PROVE UNCHANGED stored
  BY <1>5 DEF DeleteRaises
<1>6. ASSUME NEW s \in Settings, Start(s) PROVE UNCHANGED stored
  BY <1>6 DEF Start
<1>7. ASSUME Wire \/ Stop PROVE UNCHANGED stored
  BY <1>7 DEF Wire, Stop, WireDatabase, BuildStorage, BuildEmbedder, BuildVectorStore,
              WireIngestion, WireRetrieval, WireAgent, Assign, Raise
<1> QED
  BY <1>1, <1>3, <1>4, <1>5, <1>6, <1>7 DEF ContainerNext

\* Types, and a container that is built in order.
LEMMA ContainerIsOrderly == ContainerSpec => [](ContainerTypeOK /\ BuiltSoFar)
<1>1. ContainerInit => ContainerTypeOK /\ BuiltSoFar
  <2> SUFFICES ASSUME ContainerInit PROVE ContainerTypeOK /\ BuiltSoFar
    OBVIOUS
  <2>1. lists \in Lists
    BY DEF ContainerInit, Lists, NoLists
  <2>2. BuiltSoFar
    BY DEF ContainerInit, BuiltSoFar, Behind
  <2>3. starts \in 0..MaxStarts
    BY BoundsAssumption DEF ContainerInit
  <2> QED
    BY <2>1, <2>2, <2>3 DEF ContainerInit, ContainerTypeOK, Stage, Nothing, Field
<1>2. ContainerTypeOK /\ BuiltSoFar /\ [ContainerNext]_containerVars
        => ContainerTypeOK' /\ BuiltSoFar'
  <2> SUFFICES ASSUME ContainerTypeOK, BuiltSoFar, [ContainerNext]_containerVars
               PROVE  ContainerTypeOK' /\ BuiltSoFar'
    OBVIOUS
  <2>1. CASE UNCHANGED containerVars
    BY <2>1 DEF containerVars, process, stored, ContainerTypeOK, BuiltSoFar, Behind,
                ProviderBuilds
  <2>2. CASE ContainerNext
    <3>1. BuiltSoFar' /\ objects' \in [Field -> Object \cup {None}]
      BY <2>2, BuildingGoesOn, ObjectsAreBuilt
    <3>2. /\ settings' \in Settings \cup {None}
          /\ stage' \in Stage
          /\ stage' = "stopped" => objects' = Nothing /\ lists' = NoLists
          /\ lists' \in Lists
          /\ starts' \in 0..MaxStarts
      BY <2>2, TypesOfTheProcess
    <3>3. /\ disk' \in File \cup {None}
          /\ documents' \in [Docs -> {"none", "ready", "error", "deleted"}]
          /\ home' \in [Docs -> Stores \cup {None}]
          /\ \A d \in Docs : documents'[d] = "ready" => home'[d] # None
      BY <2>2, TypesOfWhatIsStored
    <3> QED
      BY <3>1, <3>2, <3>3 DEF ContainerTypeOK
  <2> QED
    BY <2>1, <2>2
<1> QED
  BY <1>1, <1>2, PTL DEF ContainerSpec

\* ContainerTypeOK: the process and what outlives it keep their types, whatever
\* the settings of the starts.
THEOREM ContainerTypeCorrect == ContainerSpec => []ContainerTypeOK
BY ContainerIsOrderly, PTL

\* WiredTogether: what serves is wired as a whole, from the settings of its own
\* start, with one storage, one embedder and one store shared by the services,
\* whatever settings it and the starts before it had.
THEOREM ServesWhole == ContainerSpec => []WiredTogether
<1>1. BuiltSoFar => WiredTogether
  <2> SUFFICES ASSUME BuiltSoFar, stage = "serving", settings.database # "none"
               PROVE  WiredTogether
    BY DEF WiredTogether, BuiltSoFar
  <2> USE DEF BuiltSoFar, Behind, Field
  <2>1. settings.database = "url" /\ settings \in Settings
    OBVIOUS
  <2>2. settings.dims \in Nat
    BY <2>1, SettingsHaveDims
  <2>3. objects.storage \in Storages /\ objects.embedder \in Embedders /\ objects.store \in Stores
    BY <2>1, <2>2 DEF Embedders, Stores
  <2>4. objects.retrieval \in Retrievals
    BY <2>1, <2>3 DEF Retrievals
  <2>5. /\ objects.upload \in [storage : Storages]
        /\ objects.ingestion \in [storage : Storages, embedder : Embedders, store : Stores]
        /\ objects.agent \in [retrieval : Retrievals, provider : {"gemini", None}]
    BY <2>1, <2>3, <2>4
  <2>6. \A f \in Field : objects[f] # None
    BY <2>1, <2>3, <2>4, <2>5, ObjectsAreThere
  <2>7. objects.retrieval.rewriter = "llm" => objects.agent.provider # None
    BY <2>1, NoneAssumption
  <2> QED
    BY <2>1, <2>6, <2>7 DEF WiredTogether
<1> QED
  BY <1>1, ContainerIsOrderly, PTL

-----------------------------------------------------------------------------
(* What a start finds *)

\* Settings are there from the first start on.
Started == settings \in Settings => starts > 0

Found == ListsFit /\ DiskFits /\ HomesKnow /\ Started

\* The step of an upgrade: dimensions are not lowered.
NotLowered == starts > 0 => settings'.dims >= settings.dims

\* A loaded index has a name for each of its vectors: those of the file, and
\* as many unknown ones as are missing.
LEMMA LoadedNames ==
  ASSUME disk \in File, Len(disk.ids) <= Len(disk.index)
  PROVE  /\ Loaded(disk).dims = disk.dims
         /\ Loaded(disk).index = disk.index /\ Loaded(disk).vectors = disk.index
         /\ Len(Loaded(disk).ids) = Len(disk.index)
         /\ \A n \in 1..Len(disk.ids) : Loaded(disk).ids[n] = disk.ids[n]
<1>1. disk.dims \in Nat /\ disk.index \in Seq(Vector) /\ disk.ids \in Seq(Docs \cup {Unknown})
  BY DEF File
<1> DEFINE m == Len(disk.index) - Len(disk.ids)
           pad == [n \in 1..m |-> Unknown]
<1>2. pad \in Seq(Docs \cup {Unknown}) /\ Len(pad) = m
  <2>1. m \in Nat
    BY <1>1
  <2> HIDE DEF m
  <2>2. QED
    BY <2>1, Repeated
<1>3. Loaded(disk) = [dims |-> disk.dims, index |-> disk.index, vectors |-> disk.index,
                     ids |-> disk.ids \o pad]
  BY DEF Loaded
<1> HIDE DEF pad
<1>4. /\ Len(disk.ids \o pad) = Len(disk.index)
      /\ \A n \in 1..Len(disk.ids) : (disk.ids \o pad)[n] = disk.ids[n]
  BY <1>1, <1>2
<1> QED
  BY <1>3, <1>4

\* A start changes the settings and nothing that outlives it.
LEMMA StartFinds ==
  ASSUME ContainerTypeOK, Found, NEW s \in Settings, Start(s), NotLowered
  PROVE  Found'
<1>1. /\ settings' = s /\ starts' = starts + 1 /\ UNCHANGED <<lists, disk, documents, home>>
      /\ stage' \in {"stopped", "database"}
  BY DEF Start, stored
<1>2. ~HasStore'
  BY <1>1 DEF HasStore, Behind
<1>3. settings \in Settings => settings.dims \in Nat /\ s.dims \in Nat /\ settings.dims <= s.dims
  BY <1>1, SettingsHaveDims DEF Found, Started, NotLowered
<1>4. disk # None => disk.dims \in Nat
  BY DEF ContainerTypeOK, File
<1>5. \A d \in Docs : home[d] \in Stores => home[d].dims \in Nat
  BY DEF Stores
<1>6. ListsFit'
  BY <1>2 DEF ListsFit
<1>7. DiskFits'
  BY <1>1, <1>3, <1>4 DEF Found, DiskFits, NamesFit
<1>8. HomesKnow'
  BY <1>1, <1>2, <1>3, <1>5 DEF Found, HomesKnow, Elements
<1>9. Started'
  BY <1>1 DEF ContainerTypeOK, Started
<1> QED
  BY <1>6, <1>7, <1>8, <1>9 DEF Found

\* A store that is built has the files, or is empty.
LEMMA StoreFinds ==
  ASSUME ContainerTypeOK, BuiltSoFar, BuiltSoFar', Found, BuildVectorStore
  PROVE  Found'
<1>1. UNCHANGED <<settings, disk, documents, home, starts>>
  BY DEF BuildVectorStore, Assign, Raise, stored
<1>2. DiskFits' /\ Started'
  BY <1>1 DEF Found, DiskFits, NamesFit, Started
<1>3. CASE Raise("store")
  <2>1. ~HasStore'
    BY <1>3 DEF Raise, HasStore, Behind
  <2> QED
    BY <1>1, <1>2, <2>1 DEF Found, ListsFit, HomesKnow, Elements
<1>4. CASE ~Raise("store")
  <2>1. /\ settings \in Settings /\ stage' = "ingestion"
        /\ settings.store \in {"faiss", "memory"}
        /\ lists' = IF settings.store = "faiss" /\ disk # None THEN Loaded(disk) ELSE Empty
    BY <1>4 DEF BuildVectorStore, Assign, BuiltSoFar
  <2>2. settings.dims \in Nat
    BY <2>1, SettingsHaveDims
  <2>3. CASE settings.store = "faiss" /\ disk # None
    <3>1. disk \in File /\ Len(disk.ids) <= Len(disk.index)
      BY <2>3 DEF ContainerTypeOK, Found, DiskFits
    <3>2. disk.dims \in Nat /\ disk.index \in Seq(Vector) /\ disk.ids \in Seq(Docs \cup {Unknown})
      BY <3>1 DEF File
    <3>3. /\ lists'.dims = disk.dims
          /\ lists'.index = disk.index /\ lists'.vectors = disk.index
          /\ Len(lists'.ids) = Len(disk.index)
          /\ \A n \in 1..Len(disk.ids) : lists'.ids[n] = disk.ids[n]
      BY <2>1, <2>3, <3>1, LoadedNames
    <3>4. ListsFit'
      <4>1. disk.dims = settings.dims => NamesFit(lists'.ids, disk.index)
        BY <2>3, <3>2, <3>3 DEF Found, DiskFits, NamesFit
      <4>2. \A n \in DOMAIN disk.index : disk.index[n].dims = disk.dims
        BY <2>3 DEF Found, DiskFits
      <4>3. disk.dims <= settings.dims
        BY <2>3 DEF Found, DiskFits
      <4> QED
        BY <1>1, <2>3, <3>2, <3>3, <4>1, <4>2, <4>3 DEF ListsFit
    <3>5. HomesKnow'
      <4>1. \A d \in Elements(disk.ids) : d \in Elements(lists'.ids)
        <5> SUFFICES ASSUME NEW n \in DOMAIN disk.ids
                     PROVE  disk.ids[n] \in Elements(lists'.ids)
          BY DEF Elements
        <5>1. n \in 1..Len(disk.ids)
          BY <3>2
        <5>2. lists' \in Lists
          BY <2>1, <2>3, ListsAreLists
        <5>3. n \in DOMAIN lists'.ids /\ lists'.ids[n] = disk.ids[n]
          BY <3>1, <3>2, <3>3, <5>1, <5>2 DEF Lists
        <5> QED
          BY <5>3 DEF Elements
      <4> QED
        BY <1>1, <3>3, <4>1 DEF Found, HomesKnow
    <3> QED
      BY <1>2, <3>4, <3>5 DEF Found
  <2>4. CASE ~(settings.store = "faiss" /\ disk # None)
    <3>1. lists' = [dims |-> settings.dims, index |-> <<>>, vectors |-> <<>>, ids |-> <<>>]
      BY <2>1, <2>4 DEF Empty, NoLists
    <3>2. ListsFit'
      BY <1>1, <2>2, <3>1 DEF ListsFit, NamesFit
    <3>3. HomesKnow'
      BY <1>1, <2>4 DEF Found, HomesKnow, Elements
    <3> QED
      BY <1>2, <3>2, <3>3 DEF Found
  <2> QED
    BY <2>3, <2>4
<1> QED
  BY <1>3, <1>4

\* The other statements, and the end of the process, leave the store alone.
LEMMA OtherwiseFinds ==
  ASSUME Found, BuiltSoFar,
         \/ Stop \/ WireDatabase \/ BuildStorage \/ BuildEmbedder
         \/ WireIngestion \/ WireRetrieval \/ WireAgent
  PROVE  Found'
<1>1. UNCHANGED <<settings, disk, documents, home, starts>>
  BY DEF Stop, WireDatabase, BuildStorage, BuildEmbedder, WireIngestion, WireRetrieval,
         WireAgent, Assign, Raise, stored
<1>2. \/ stage' \notin {"ingestion", "retrieval", "agent", "serving"}
      \/ /\ stage \in {"ingestion", "retrieval", "agent"}
         /\ UNCHANGED lists
      \/ /\ stage' = "serving"
         /\ settings.database = "none"
  <2> USE DEF Assign, Raise
  <2>1. CASE Stop
    BY <2>1 DEF Stop
  <2>2. CASE WireDatabase
    BY <2>2 DEF WireDatabase
  <2>3. CASE BuildStorage
    BY <2>3 DEF BuildStorage
  <2>4. CASE BuildEmbedder
    BY <2>4 DEF BuildEmbedder
  <2>5. CASE WireIngestion
    BY <2>5 DEF WireIngestion
  <2>6. CASE WireRetrieval
    BY <2>6 DEF WireRetrieval
  <2>7. CASE WireAgent
    BY <2>7 DEF WireAgent
  <2> QED
    BY <2>1, <2>2, <2>3, <2>4, <2>5, <2>6, <2>7
<1>3. HasStore' => HasStore /\ UNCHANGED lists
  BY <1>1, <1>2 DEF HasStore, Behind
<1> QED
  BY <1>1, <1>3 DEF Found, ListsFit, DiskFits, HomesKnow, Started, NamesFit, Elements

\* A step that saves lists in order leaves the files in order.  The documents
\* it leaves ready are known: either they have just been added to a store of
\* the dimensions of the settings, or the lists still have their names.
LEMMA SavingFinds ==
  ASSUME ContainerTypeOK, ContainerTypeOK', BuiltSoFar, Found, Serves,
         UNCHANGED <<process, starts>>, disk' = Save(lists'), ListsFit',
         lists.dims = settings.dims => lists'.dims = settings.dims,
         \A d \in Docs : documents'[d] = "ready" =>
           \/ /\ home'[d] = objects.store /\ d \in Elements(lists'.ids)
              /\ lists'.dims = settings.dims
           \/ /\ documents[d] = "ready" /\ home'[d] = home[d]
              /\ d \in Elements(lists.ids) => d \in Elements(lists'.ids)
  PROVE  Found'
<1>1. /\ HasStore /\ settings \in Settings /\ settings.dims \in Nat
      /\ settings.store \in {"faiss", "memory"}
      /\ objects.store = [is |-> settings.store, dims |-> settings.dims]
      /\ objects.store \in Stores
  BY ServingStore
<1>2. UNCHANGED <<settings, stage, objects, starts>>
  BY DEF process
<1>3. HasStore'
  BY <1>1, <1>2 DEF HasStore, Behind
<1>4. Started'
  BY <1>2 DEF Found, Started
<1>5. CASE settings.store = "faiss"
  <2>1. disk' = [dims |-> lists'.dims, index |-> lists'.index, ids |-> lists'.ids]
    BY <1>1, <1>5 DEF Save
  <2>2. disk' \in File
    BY <2>1 DEF ContainerTypeOK, Lists, File
  <2>3. disk' # None
    BY <2>2, NoneAssumption
  <2>4. DiskFits'
    BY <1>1, <1>2, <1>3, <2>1 DEF DiskFits, ListsFit, NamesFit
  <2>5. ASSUME NEW d \in Docs, documents'[d] = "ready"
        PROVE  /\ home'[d] \in Stores /\ home'[d].dims <= settings.dims
               /\ home'[d].is = "faiss" /\ home'[d].dims = settings.dims =>
                    lists'.dims = settings.dims /\ d \in Elements(lists'.ids)
    <3>1. CASE /\ home'[d] = objects.store /\ d \in Elements(lists'.ids)
               /\ lists'.dims = settings.dims
      BY <1>1, <3>1
    <3>2. CASE /\ documents[d] = "ready" /\ home'[d] = home[d]
               /\ d \in Elements(lists.ids) => d \in Elements(lists'.ids)
      BY <1>1, <1>5, <3>2 DEF Found, HomesKnow
    <3> QED
      BY <2>5, <3>1, <3>2
  <2>6. HomesKnow'
    BY <1>1, <1>2, <2>1, <2>3, <2>5 DEF HomesKnow
  <2> QED
    BY <1>4, <2>4, <2>6 DEF Found
<1>6. CASE settings.store = "memory"
  <2>1. disk' = disk
    BY <1>1, <1>6 DEF Save
  <2>2. DiskFits'
    BY <1>2, <2>1 DEF Found, DiskFits, NamesFit
  <2>3. ASSUME NEW d \in Docs, documents'[d] = "ready"
        PROVE  /\ home'[d] \in Stores /\ home'[d].dims <= settings.dims
               /\ home'[d].is = "faiss" /\ home'[d].dims = settings.dims =>
                    disk # None /\ disk.dims = settings.dims /\ d \in Elements(disk.ids)
    <3>1. CASE home'[d] = objects.store
      BY <1>1, <1>6, <3>1
    <3>2. CASE documents[d] = "ready" /\ home'[d] = home[d]
      BY <3>2 DEF Found, HomesKnow
    <3> QED
      BY <2>3, <3>1, <3>2
  <2>4. HomesKnow'
    BY <1>1, <1>2, <1>6, <2>1, <2>3 DEF HomesKnow, Elements
  <2> QED
    BY <1>4, <2>2, <2>4 DEF Found
<1> QED
  BY <1>1, <1>5, <1>6

\* Adding to a sequence adds to its elements.
LEMMA AddedElement ==
  ASSUME NEW S, NEW s \in Seq(S), NEW x \in S
  PROVE  Elements(Append(s, x)) = Elements(s) \cup {x}
<1> DEFINE t == Append(s, x)
<1>1. /\ DOMAIN t = 1..(Len(s) + 1) /\ DOMAIN s = 1..Len(s) /\ Len(s) \in Nat
      /\ t[Len(s) + 1] = x /\ \A k \in 1..Len(s) : t[k] = s[k]
  OBVIOUS
<1> HIDE DEF t
<1>2. \A k : k \in 1..(Len(s) + 1) <=> k \in 1..Len(s) \/ k = Len(s) + 1
  BY <1>1
<1>3. {t[k] : k \in DOMAIN t} = {s[k] : k \in DOMAIN s} \cup {x}
  <2>1. ASSUME NEW y \in {t[k] : k \in DOMAIN t} PROVE y \in {s[k] : k \in DOMAIN s} \cup {x}
    BY <1>1, <1>2
  <2>2. ASSUME NEW y \in {s[k] : k \in DOMAIN s} \cup {x} PROVE y \in {t[k] : k \in DOMAIN t}
    <3>1. CASE y = x
      BY <1>1, <1>2, <3>1
    <3>2. CASE y \in {s[k] : k \in DOMAIN s}
      BY <1>1, <1>2, <3>2
    <3> QED
      BY <3>1, <3>2
  <2> QED
    BY <2>1, <2>2
<1> QED
  BY <1>3 DEF t, Elements

\* An ingestion adds to lists that agree, or to none.
LEMMA IngestFinds ==
  ASSUME ContainerTypeOK, ContainerTypeOK', BuiltSoFar, Found, NEW d \in Docs, Ingest(d)
  PROVE  Found'
<1>1. Serves /\ UNCHANGED <<process, starts>> /\ disk' = Save(lists') /\ documents[d] = "none"
  BY DEF Ingest
<1>2. /\ HasStore /\ settings \in Settings /\ settings.dims \in Nat
      /\ settings.store \in {"faiss", "memory"}
      /\ objects.store = [is |-> settings.store, dims |-> settings.dims]
      /\ objects.embedder.dims = settings.dims
  BY <1>1, ServingStore
<1>3. UNCHANGED <<settings, stage, objects, starts>>
  BY <1>1 DEF process
<1>4. HasStore'
  BY <1>2, <1>3 DEF HasStore, Behind
<1>5. CASE Failed(d)
  <2>1. UNCHANGED <<lists, home>> /\ documents' = [documents EXCEPT ![d] = "error"]
    BY <1>5 DEF Failed
  <2>2. ListsFit'
    BY <1>2, <1>3, <1>4, <2>1 DEF Found, ListsFit, NamesFit
  <2>3. \A e \in Docs : documents'[e] = "ready" => documents[e] = "ready"
    BY <2>1 DEF ContainerTypeOK
  <2> QED
    BY <1>1, <2>1, <2>2, <2>3, SavingFinds
<1>6. CASE Ingested(d)
  <2>1. /\ lists' = Added(d) /\ ~AddRaises
        /\ documents' = [documents EXCEPT ![d] = "ready"]
        /\ home' = [home EXCEPT ![d] = objects.store]
    BY <1>6 DEF Ingested
  <2>2. lists.dims = settings.dims
    BY <1>2, <2>1 DEF AddRaises, Found, ListsFit
  <2>3. /\ lists.index \in Seq(Vector) /\ lists.ids \in Seq(Docs \cup {Unknown})
        /\ lists.vectors = lists.index /\ NamesFit(lists.ids, lists.index)
    BY <1>2, <2>2 DEF ContainerTypeOK, Lists, Found, ListsFit
  <2> DEFINE v == [doc |-> d, dims |-> settings.dims]
             i == lists.index
             n == lists.ids
  <2>4. v \in Vector /\ v.doc = d /\ v.dims = settings.dims
    BY <1>2 DEF Vector
  <2> HIDE DEF v
  <2>5. /\ lists'.dims = settings.dims
        /\ lists'.index = Append(i, v) /\ lists'.vectors = Append(i, v)
        /\ lists'.ids = Append(n, d)
    BY <1>2, <2>1, <2>2, <2>3 DEF Added, ContainerTypeOK, Lists, v
  <2>6. \A k \in DOMAIN i : i[k].dims = settings.dims
    BY <1>2, <2>2 DEF Found, ListsFit
  <2>7. i \in Seq(Vector) /\ n \in Seq(Docs \cup {Unknown}) /\ NamesFit(n, i)
    BY <2>3
  <2> HIDE DEF i, n
  <2>8. /\ NamesFit(Append(n, d), Append(i, v))
        /\ \A k \in DOMAIN Append(i, v) : Append(i, v)[k].dims = settings.dims
    <3>1. Len(n) = Len(i) /\ \A k \in 1..Len(i) : n[k] = i[k].doc
      BY <2>7 DEF NamesFit
    <3>2. /\ Append(i, v) \in Seq(Vector) /\ Len(Append(i, v)) = Len(i) + 1
          /\ Len(Append(n, d)) = Len(n) + 1
          /\ Append(i, v)[Len(i) + 1] = v /\ Append(n, d)[Len(n) + 1] = d
          /\ \A k \in 1..Len(i) : Append(i, v)[k] = i[k]
          /\ \A k \in 1..Len(n) : Append(n, d)[k] = n[k]
      BY <2>4, <2>7
    <3>3. \A k \in 1..(Len(i) + 1) : k \in 1..Len(i) \/ k = Len(i) + 1
      BY <2>7
    <3>4. DOMAIN Append(i, v) = 1..(Len(i) + 1) /\ DOMAIN i = 1..Len(i)
      BY <2>7, <3>2
    <3> QED
      BY <2>4, <2>6, <3>1, <3>2, <3>3, <3>4 DEF NamesFit
  <2>9. Append(n, d) \in Seq(Docs \cup {Unknown}) /\ Append(i, v) \in Seq(Vector)
    BY <2>4, <2>7
  <2>10. ListsFit'
    BY <1>2, <1>3, <2>5, <2>8, <2>9 DEF ListsFit, NamesFit
  <2>11. Elements(Append(n, d)) = Elements(n) \cup {d}
    BY <2>7, AddedElement
  <2>12. \A e \in Docs : documents'[e] = "ready" =>
           \/ home'[e] = objects.store /\ e \in Elements(lists'.ids) /\ lists'.dims = settings.dims
           \/ /\ documents[e] = "ready" /\ home'[e] = home[e]
              /\ e \in Elements(lists.ids) => e \in Elements(lists'.ids)
    <3>1. Elements(lists'.ids) = Elements(lists.ids) \cup {d}
      BY <2>5, <2>11 DEF n
    <3>2. documents'[d] = "ready" => home'[d] = objects.store
      BY <2>1 DEF ContainerTypeOK
    <3>3. \A e \in Docs : e # d => documents'[e] = documents[e] /\ home'[e] = home[e]
      BY <2>1 DEF ContainerTypeOK
    <3> QED
      BY <2>5, <3>1, <3>2, <3>3
  <2> QED
    BY <1>1, <2>5, <2>10, <2>12, SavingFinds
<1> QED
  BY <1>5, <1>6 DEF Ingest

\* A deletion that succeeds leaves lists of the dimensions of the settings:
\* lists of fewer dimensions are rebuilt only when nothing of them remains.
LEMMA DeleteFinds ==
  ASSUME ContainerTypeOK, ContainerTypeOK', BuiltSoFar, Found, NEW d \in Docs, Delete(d)
  PROVE  Found'
<1>1. /\ Serves /\ UNCHANGED <<process, home, starts>> /\ disk' = Save(lists')
      /\ lists' = Rebuilt(d) /\ ~(Present(d) /\ RebuildRaises(d))
      /\ documents' = [documents EXCEPT ![d] = "deleted"]
  BY DEF Delete
<1>2. /\ HasStore /\ settings \in Settings /\ settings.dims \in Nat
      /\ settings.store \in {"faiss", "memory"}
      /\ objects.store = [is |-> settings.store, dims |-> settings.dims]
  BY <1>1, ServingStore
<1>3. UNCHANGED <<settings, stage, objects, starts>>
  BY <1>1 DEF process
<1>4. HasStore'
  BY <1>2, <1>3 DEF HasStore, Behind
<1>5. \A e \in Docs : documents'[e] = "ready" => e # d /\ documents[e] = "ready" /\ home'[e] = home[e]
  BY <1>1 DEF ContainerTypeOK
<1>6. CASE ~Present(d)
  <2>1. lists' = lists
    BY <1>1, <1>6 DEF Rebuilt
  <2>2. ListsFit'
    BY <1>2, <1>3, <1>4, <2>1 DEF Found, ListsFit, NamesFit
  <2> QED
    BY <1>1, <1>5, <2>1, <2>2, SavingFinds
<1>7. CASE Present(d)
  <2> DEFINE v == Kept(d)
             n == KeptIds(d)
  <2>1. lists' = [dims |-> settings.dims, index |-> v, vectors |-> v, ids |-> n]
    BY <1>1, <1>2, <1>7 DEF Rebuilt
  <2>2. /\ lists \in Lists /\ Len(lists.vectors) = Len(lists.ids)
        /\ \A k \in DOMAIN lists.vectors : lists.vectors[k].dims = lists.dims
        /\ settings.store = "memory" => lists.dims = settings.dims
        /\ lists.dims = settings.dims =>
             lists.vectors = lists.index /\ NamesFit(lists.ids, lists.index)
    BY <1>2 DEF ContainerTypeOK, Found, ListsFit
  <2>3. /\ v \in Seq(Vector) /\ n \in Seq(Docs \cup {Unknown})
        /\ Elements(n) = Elements(lists.ids) \ {d}
        /\ Elements(v) \subseteq Elements(lists.vectors)
        /\ Len(v) = Len(n)
        /\ \A j \in 1..Len(n) : \E k \in DOMAIN lists.ids :
             n[j] = lists.ids[k] /\ v[j] = lists.vectors[k]
    BY <2>2, TakenOut
  <2>4. \A k \in DOMAIN v : v[k].dims = lists.dims
    BY <2>2, <2>3 DEF Elements
  <2>5. settings.store = "faiss" => \A k \in DOMAIN v : v[k].dims = settings.dims
    BY <1>1, <1>2, <1>7 DEF RebuildRaises, Elements
  <2> HIDE DEF v, n
  <2>6. \A k \in DOMAIN v : v[k].dims = settings.dims
    BY <1>2, <2>2, <2>4, <2>5
  <2>7. NamesFit(n, v)
    <3>1. CASE lists.dims = settings.dims
      <4>1. /\ DOMAIN lists.ids = 1..Len(lists.ids) /\ Len(lists.ids) = Len(lists.index)
            /\ DOMAIN lists.index = 1..Len(lists.index)
            /\ \A k \in DOMAIN lists.ids : lists.ids[k] = lists.vectors[k].doc
        BY <2>2, <3>1 DEF NamesFit, Lists
      <4>2. \A j \in 1..Len(n) : n[j] = v[j].doc
        BY <2>3, <4>1
      <4>3. DOMAIN v = 1..Len(n)
        BY <2>3
      <4> QED
        BY <2>3, <4>2, <4>3 DEF NamesFit
    <3>2. CASE lists.dims # settings.dims
      <4>1. DOMAIN v = {}
        BY <2>4, <2>6, <3>2
      <4> QED
        BY <2>3, <4>1 DEF NamesFit
    <3> QED
      BY <3>1, <3>2
  <2>8. ListsFit'
    BY <1>2, <1>3, <2>1, <2>3, <2>6, <2>7 DEF ListsFit, NamesFit
  <2>9. \A e \in Docs : documents'[e] = "ready" /\ e \in Elements(lists.ids)
                         => e \in Elements(lists'.ids)
    BY <1>5, <2>1, <2>3
  <2>10. lists'.dims = settings.dims
    BY <2>1
  <2> QED
    BY <1>1, <1>5, <2>8, <2>9, <2>10, SavingFinds
<1> QED
  BY <1>6, <1>7

\* A deletion that fails takes names and vectors off lists of fewer dimensions
\* than the settings have.
LEMMA FailedDeleteFinds ==
  ASSUME ContainerTypeOK, ContainerTypeOK', BuiltSoFar, Found, NEW d \in Docs, DeleteRaises(d)
  PROVE  Found'
<1>1. /\ Serves /\ UNCHANGED <<process, stored, starts>>
      /\ lists' = [lists EXCEPT !.vectors = Kept(d), !.ids = KeptIds(d)]
      /\ RebuildRaises(d)
  BY DEF DeleteRaises
<1>2. /\ HasStore /\ settings \in Settings /\ settings.dims \in Nat
      /\ objects.store = [is |-> settings.store, dims |-> settings.dims]
      /\ settings.store = "faiss"
  BY <1>1, ServingStore DEF RebuildRaises
<1>3. UNCHANGED <<settings, stage, objects, starts, disk, documents, home>>
  BY <1>1 DEF process, stored
<1>4. HasStore'
  BY <1>2, <1>3 DEF HasStore, Behind
<1>5. /\ lists \in Lists /\ Len(lists.vectors) = Len(lists.ids)
      /\ \A k \in DOMAIN lists.vectors : lists.vectors[k].dims = lists.dims
      /\ \A k \in DOMAIN lists.index : lists.index[k].dims = lists.dims
      /\ Len(lists.ids) <= Len(lists.index) /\ lists.dims <= settings.dims
  BY <1>2 DEF ContainerTypeOK, Found, ListsFit
<1> DEFINE v == Kept(d)
           n == KeptIds(d)
<1>6. /\ v \in Seq(Vector) /\ n \in Seq(Docs \cup {Unknown})
      /\ Elements(v) \subseteq Elements(lists.vectors)
      /\ Len(v) = Len(n) /\ Len(n) <= Len(lists.ids)
  BY <1>5, TakenOut
<1>7. \A k \in DOMAIN v : v[k].dims = lists.dims
  <2>1. \A u \in Elements(lists.vectors) : u.dims = lists.dims
    BY <1>5 DEF Elements
  <2> HIDE DEF v
  <2>2. \A k \in DOMAIN v : v[k] \in Elements(v)
    BY DEF Elements
  <2> QED
    BY <1>6, <2>1, <2>2
<1>8. lists.dims # settings.dims
  <2>1. PICK u \in Elements(v) : u.dims # settings.dims
    BY <1>1, <1>2 DEF RebuildRaises
  <2> QED
    BY <1>7, <2>1 DEF Elements
<1> HIDE DEF v, n
<1>9. /\ lists'.dims = lists.dims /\ lists'.index = lists.index
      /\ lists'.vectors = v /\ lists'.ids = n
  BY <1>1, <1>5 DEF Lists, v, n
<1>10. Len(n) \in Nat /\ Len(lists.ids) \in Nat /\ Len(lists.index) \in Nat
  BY <1>5, <1>6 DEF Lists
<1>11. ListsFit'
  BY <1>2, <1>3, <1>5, <1>6, <1>7, <1>8, <1>9, <1>10 DEF ListsFit
<1>12. DiskFits' /\ Started'
  BY <1>3 DEF Found, DiskFits, NamesFit, Started
<1>13. HomesKnow'
  BY <1>2, <1>3, <1>8 DEF Found, HomesKnow
<1> QED
  BY <1>11, <1>12, <1>13 DEF Found

\* Each step of an upgrade leaves the next start what it needs.
LEMMA UpgradeFinds == UpgradeSpec => []Found /\ [](ContainerTypeOK /\ BuiltSoFar)
<1>1. ContainerInit => Found
  <2> SUFFICES ASSUME ContainerInit PROVE Found
    OBVIOUS
  <2>1. ~HasStore
    BY DEF ContainerInit, HasStore, Behind
  <2>2. settings \notin Settings
    BY NoneAssumption DEF ContainerInit
  <2> QED
    BY <2>1, <2>2 DEF ContainerInit, Found, ListsFit, DiskFits, HomesKnow, Started
<1>2. /\ ContainerTypeOK /\ BuiltSoFar /\ ContainerTypeOK' /\ BuiltSoFar' /\ Found
      /\ [ContainerNext /\ NotLowered]_containerVars
      => Found'
  <2> SUFFICES ASSUME ContainerTypeOK, BuiltSoFar, ContainerTypeOK', BuiltSoFar', Found,
                      [ContainerNext /\ NotLowered]_containerVars
               PROVE  Found'
    OBVIOUS
  <2>1. ASSUME NEW s \in Settings, Start(s), NotLowered PROVE Found'
    BY <2>1, StartFinds
  <2>2. CASE BuildVectorStore
    BY <2>2, StoreFinds
  <2>3. CASE \/ Stop \/ WireDatabase \/ BuildStorage \/ BuildEmbedder
             \/ WireIngestion \/ WireRetrieval \/ WireAgent
    BY <2>3, OtherwiseFinds
  <2>4. ASSUME NEW d \in Docs, Ingest(d) PROVE Found'
    BY <2>4, IngestFinds
  <2>5. ASSUME NEW d \in Docs, Delete(d) PROVE Found'
    BY <2>5, DeleteFinds
  <2>6. ASSUME NEW d \in Docs, DeleteRaises(d) PROVE Found'
    BY <2>6, FailedDeleteFinds
  <2>7. CASE UNCHANGED containerVars
    BY <2>7 DEF containerVars, process, stored, Found, ListsFit, DiskFits, HomesKnow, Started,
                HasStore, Behind, NamesFit, Elements
  <2> QED
    BY <2>1, <2>2, <2>3, <2>4, <2>5, <2>6, <2>7 DEF ContainerNext, Wire
<1>3. [ContainerNext /\ (starts > 0 => settings'.dims >= settings.dims)]_containerVars
        => [ContainerNext]_containerVars /\ [ContainerNext /\ NotLowered]_containerVars
  BY DEF NotLowered
<1>4. UpgradeSpec => ContainerSpec
  BY <1>3, PTL DEF UpgradeSpec, ContainerSpec
<1> QED
  BY <1>1, <1>2, <1>3, <1>4, ContainerIsOrderly, PTL DEF UpgradeSpec

\* ReadyIsFoundAgain: a document that was ingested into the store on disk is in
\* it whenever the application serves from there with the same dimensions,
\* after any starts in between that do not lower them.
THEOREM ReadyDocumentsAreFound == UpgradeSpec => []ReadyIsFoundAgain
<1>1. BuiltSoFar /\ Found => ReadyIsFoundAgain
  <2> SUFFICES ASSUME BuiltSoFar, Found, Serves, objects.store.is = "faiss",
                      NEW d \in Docs, documents[d] = "ready", home[d] = objects.store
               PROVE  Present(d)
    BY DEF ReadyIsFoundAgain
  <2>1. HasStore /\ objects.store = [is |-> settings.store, dims |-> settings.dims]
    BY ServingStore
  <2> QED
    BY <2>1 DEF Found, HomesKnow, Present
<1> QED
  BY <1>1, UpgradeFinds, PTL

\* AnswersNameTheirVectors: where a search does not raise, every vector is
\* found under the name of its own document, after any starts that do not
\* lower the dimensions and any failed ingestions and deletions on the way.
THEOREM NamesStayWithVectors == UpgradeSpec => []AnswersNameTheirVectors
<1>1. ContainerTypeOK /\ BuiltSoFar /\ Found => AnswersNameTheirVectors
  <2> SUFFICES ASSUME ContainerTypeOK, BuiltSoFar, Found, Serves, ~AddRaises
               PROVE  NamesFit(lists.ids, lists.index)
    BY DEF AnswersNameTheirVectors, NamesFit
  <2>1. /\ HasStore /\ objects.store = [is |-> settings.store, dims |-> settings.dims]
        /\ settings.store \in {"faiss", "memory"}
    BY ServingStore
  <2>2. lists.dims = settings.dims
    BY <2>1 DEF AddRaises, Found, ListsFit
  <2> QED
    BY <2>1, <2>2 DEF Found, ListsFit
<1> QED
  BY <1>1, UpgradeFinds, PTL
=============================================================================
