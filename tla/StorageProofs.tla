---------------------------- MODULE StorageProofs ----------------------------
(***************************************************************************)
(* Theorems about ObjectStorage, for any keys, contents and threads, on    *)
(* either backend, with requests that fail and the process ending anywhere.*)
(* Contents are told apart from the words that say there are none.         *)
(***************************************************************************)
EXTENDS ObjectStorage, TLAPS

Told == Contents \cap {None, "none", "ok", "raised", "outage", "unsettled"} = {}
        /\ None \notin {"none", "ok", "raised", "outage", "unsettled"}

\* A call knows its key, and a put what it is to write.
CallsKnown ==
  \A w \in Workers :
    /\ pc[w] # "idle" => key[w] \in Keys
    /\ pc[w] \in Put => data[w] \in Data

\* While a change of an object is under way, nothing is settled about it.
ChangingIsUnsettled ==
  \A w \in Workers : pc[w] \in Writing => settled[key[w]] = "unsettled"

\* Nobody else is changing the object of a quiet call.
QuietIsAlone ==
  \A v, w \in Workers : quiet[w] /\ pc[w] # "idle" /\ v # w /\ pc[v] \in Writing
    => key[v] # key[w]

\* What a quiet call has found out still holds at its next step: its handle is
\* its own, and the file that was there still is.
QuietKnows ==
  \A w \in Workers : quiet[w] =>
    /\ pc[w] = "write" => handle[w] = "sole"
    /\ pc[w] \in {"getRead", "headStat", "unlink"} => files[key[w]] # None

-----------------------------------------------------------------------------

WellFormed == TypeOK /\ CallsKnown

\* Types, and what a call in progress is about.
LEMMA WellFormedness == Spec => []WellFormed
<1> USE DEF WellFormed, TypeOK, CallsKnown, Contents, Put, Delete, Get, Head,
            Writing, Reading, history
<1>1. Init => WellFormed
  BY DEF Init
<1>2. WellFormed /\ [Next]_vars => WellFormed'
  <2> SUFFICES ASSUME WellFormed, [Next]_vars PROVE WellFormed'
    OBVIOUS
  <2>1. ASSUME NEW w \in Workers, NEW k \in Keys, NEW d \in Data, BeginPut(w, k, d) PROVE WellFormed'
    BY <2>1 DEF BeginPut, Call, Change, Busy
  <2>2. ASSUME NEW w \in Workers, NEW k \in Keys, BeginGet(w, k) PROVE WellFormed'
    BY <2>2 DEF BeginGet, Call, Look, Busy
  <2>3. ASSUME NEW w \in Workers, NEW k \in Keys, BeginHead(w, k) PROVE WellFormed'
    BY <2>3 DEF BeginHead, Call, Look, Busy
  <2>4. ASSUME NEW w \in Workers, NEW k \in Keys, BeginDelete(w, k) PROVE WellFormed'
    BY <2>4 DEF BeginDelete, Call, Change, Busy
  <2>5. ASSUME NEW w \in Workers, Open(w) PROVE WellFormed'
    BY <2>5 DEF Open, Goto
  <2>6. ASSUME NEW w \in Workers, Write(w) PROVE WellFormed'
    BY <2>6 DEF Write, Return, Settle
  <2>7. ASSUME NEW w \in Workers, GetCheck(w) PROVE WellFormed'
    BY <2>7 DEF GetCheck, Goto, Raise, Return
  <2>8. ASSUME NEW w \in Workers, GetRead(w) PROVE WellFormed'
    BY <2>8 DEF GetRead, Raise, Return
  <2>9. ASSUME NEW w \in Workers, HeadCheck(w) PROVE WellFormed'
    BY <2>9 DEF HeadCheck, Goto, Return
  <2>10. ASSUME NEW w \in Workers, HeadStat(w) PROVE WellFormed'
    BY <2>10 DEF HeadStat, Raise, Return
  <2>11. ASSUME NEW w \in Workers, DeleteCheck(w) PROVE WellFormed'
    BY <2>11 DEF DeleteCheck, Goto, Return, Settle
  <2>12. ASSUME NEW w \in Workers, Unlink(w) PROVE WellFormed'
    <3>1. CASE files[key[w]] = None
      BY <2>12, <3>1 DEF Unlink, Raise, Return, Settle
    <3>2. CASE files[key[w]] # None
      <4>1. handle' \in [Workers -> {"none", "sole", "shared", "unlinked"}]
        BY <2>12, <3>2 DEF Unlink, Raise
      <4>2. settled' \in [Keys -> Contents \cup {None, "unsettled"}]
        BY <2>12, <3>2 DEF Unlink, Raise, Settle
      <4>3. files' \in [Keys -> Contents \cup {None}]
        BY <2>12, <3>2 DEF Unlink, Raise
      <4>4. Return(w, "unlink", "ok")
        BY <2>12, <3>2 DEF Unlink, Raise
      <4>5. TypeOK'
        BY <4>1, <4>2, <4>3, <4>4 DEF Return
      <4>6. CallsKnown'
        BY <4>4 DEF Return
      <4> QED
        BY <4>5, <4>6
    <3> QED
      BY <2>12, <3>1, <3>2 DEF Unlink, Raise, Return, Settle
  <2>13. ASSUME NEW w \in Workers, RemotePut(w) PROVE WellFormed'
    BY <2>13 DEF RemotePut, Return, Settle
  <2>14. ASSUME NEW w \in Workers, RemoteGet(w) PROVE WellFormed'
    BY <2>14 DEF RemoteGet, Raise, Return
  <2>15. ASSUME NEW w \in Workers, RemoteHead(w) PROVE WellFormed'
    BY <2>15 DEF RemoteHead, Return
  <2>16. ASSUME NEW w \in Workers, RemoteDelete(w) PROVE WellFormed'
    BY <2>16 DEF RemoteDelete, Return, Settle
  <2>17. ASSUME NEW w \in Workers, RemoteFail(w) PROVE WellFormed'
    BY <2>17 DEF RemoteFail, Return
  <2>18. ASSUME Crash PROVE WellFormed'
    BY <2>18 DEF Crash
  <2>19. CASE UNCHANGED vars
    BY <2>19 DEF vars
  <2> QED
    BY <2>1, <2>2, <2>3, <2>4, <2>5, <2>6, <2>7, <2>8, <2>9, <2>10,
       <2>11, <2>12, <2>13, <2>14, <2>15, <2>16, <2>17, <2>18, <2>19
       DEF Next, Begin, LocalStep, RemoteStep
<1> QED
  BY <1>1, <1>2, PTL DEF Spec

\* The storage keeps its types on either backend.
THEOREM TypeCorrect == Spec => []TypeOK
  BY WellFormedness, PTL DEF WellFormed

-----------------------------------------------------------------------------
(* What is settled stays *)

Steady == ChangingIsUnsettled /\ QuietIsAlone /\ QuietKnows /\ SettledIsStored

LEMMA Steadiness ==
  ASSUME Told
  PROVE  Spec => []Steady
<1> USE DEF Told, WellFormed, TypeOK, CallsKnown, Steady, ChangingIsUnsettled,
            QuietIsAlone, QuietKnows, SettledIsStored, Contents, Put, Delete,
            Get, Head, Writing, Reading, history
<1>1. Init => Steady
  BY DEF Init
<1>2. WellFormed /\ Steady /\ [Next]_vars => Steady'
  <2> SUFFICES ASSUME WellFormed, Steady, [Next]_vars PROVE Steady'
    OBVIOUS
  <2>1. ASSUME NEW w \in Workers, NEW k \in Keys, NEW d \in Data, BeginPut(w, k, d) PROVE Steady'
    <3>1. ChangingIsUnsettled'
      BY <2>1 DEF BeginPut, Call, Change, Busy
    <3>2. QuietIsAlone'
      BY <2>1 DEF BeginPut, Call, Change, Busy
    <3>3. QuietKnows'
      BY <2>1 DEF BeginPut, Call, Change, Busy
    <3>4. SettledIsStored'
      BY <2>1 DEF BeginPut, Call, Change, Busy
    <3> QED
      BY <2>1, <3>1, <3>2, <3>3, <3>4 DEF BeginPut, Call, Change, Busy
  <2>2. ASSUME NEW w \in Workers, NEW k \in Keys, BeginGet(w, k) PROVE Steady'
    <3>1. ChangingIsUnsettled'
      BY <2>2 DEF BeginGet, Call, Look, Busy
    <3>2. QuietIsAlone'
      BY <2>2 DEF BeginGet, Call, Look, Busy
    <3>3. QuietKnows'
      BY <2>2 DEF BeginGet, Call, Look, Busy
    <3>4. SettledIsStored'
      BY <2>2 DEF BeginGet, Call, Look, Busy
    <3> QED
      BY <2>2, <3>1, <3>2, <3>3, <3>4 DEF BeginGet, Call, Look, Busy
  <2>3. ASSUME NEW w \in Workers, NEW k \in Keys, BeginHead(w, k) PROVE Steady'
    <3>1. ChangingIsUnsettled'
      BY <2>3 DEF BeginHead, Call, Look, Busy
    <3>2. QuietIsAlone'
      BY <2>3 DEF BeginHead, Call, Look, Busy
    <3>3. QuietKnows'
      BY <2>3 DEF BeginHead, Call, Look, Busy
    <3>4. SettledIsStored'
      BY <2>3 DEF BeginHead, Call, Look, Busy
    <3> QED
      BY <2>3, <3>1, <3>2, <3>3, <3>4 DEF BeginHead, Call, Look, Busy
  <2>4. ASSUME NEW w \in Workers, NEW k \in Keys, BeginDelete(w, k) PROVE Steady'
    <3>1. ChangingIsUnsettled'
      BY <2>4 DEF BeginDelete, Call, Change, Busy
    <3>2. QuietIsAlone'
      BY <2>4 DEF BeginDelete, Call, Change, Busy
    <3>3. QuietKnows'
      BY <2>4 DEF BeginDelete, Call, Change, Busy
    <3>4. SettledIsStored'
      BY <2>4 DEF BeginDelete, Call, Change, Busy
    <3> QED
      BY <2>4, <3>1, <3>2, <3>3, <3>4 DEF BeginDelete, Call, Change, Busy
  <2>5. ASSUME NEW w \in Workers, Open(w) PROVE Steady'
    BY <2>5 DEF Open, Goto
  <2>6. ASSUME NEW w \in Workers, Write(w) PROVE Steady'
    BY <2>6 DEF Write, Return, Settle
  <2>7. ASSUME NEW w \in Workers, GetCheck(w) PROVE Steady'
    BY <2>7 DEF GetCheck, Goto, Raise, Return
  <2>8. ASSUME NEW w \in Workers, GetRead(w) PROVE Steady'
    BY <2>8 DEF GetRead, Raise, Return
  <2>9. ASSUME NEW w \in Workers, HeadCheck(w) PROVE Steady'
    BY <2>9 DEF HeadCheck, Goto, Return
  <2>10. ASSUME NEW w \in Workers, HeadStat(w) PROVE Steady'
    BY <2>10 DEF HeadStat, Raise, Return
  <2>11. ASSUME NEW w \in Workers, DeleteCheck(w) PROVE Steady'
    BY <2>11 DEF DeleteCheck, Goto, Return, Settle
  <2>12. ASSUME NEW w \in Workers, Unlink(w) PROVE Steady'
    BY <2>12 DEF Unlink, Raise, Return, Settle
  <2>13. ASSUME NEW w \in Workers, RemotePut(w) PROVE Steady'
    BY <2>13 DEF RemotePut, Return, Settle
  <2>14. ASSUME NEW w \in Workers, RemoteGet(w) PROVE Steady'
    BY <2>14 DEF RemoteGet, Raise, Return
  <2>15. ASSUME NEW w \in Workers, RemoteHead(w) PROVE Steady'
    BY <2>15 DEF RemoteHead, Return
  <2>16. ASSUME NEW w \in Workers, RemoteDelete(w) PROVE Steady'
    BY <2>16 DEF RemoteDelete, Return, Settle
  <2>17. ASSUME NEW w \in Workers, RemoteFail(w) PROVE Steady'
    BY <2>17 DEF RemoteFail, Return
  <2>18. ASSUME Crash PROVE Steady'
    BY <2>18 DEF Crash
  <2>19. CASE UNCHANGED vars
    BY <2>19 DEF vars
  <2> QED
    BY <2>1, <2>2, <2>3, <2>4, <2>5, <2>6, <2>7, <2>8, <2>9, <2>10,
       <2>11, <2>12, <2>13, <2>14, <2>15, <2>16, <2>17, <2>18, <2>19
       DEF Next, Begin, LocalStep, RemoteStep
<1> QED
  BY <1>1, <1>2, WellFormedness, PTL DEF Spec

\* What a put or a delete has achieved stays until the next change of its key
\* begins, on either backend, whoever else calls, fails or is cut off.
THEOREM SettledStays ==
  ASSUME Told
  PROVE  Spec => []SettledIsStored
<1>1. Steady => SettledIsStored
  BY DEF Steady
<1> QED
  BY <1>1, Steadiness, PTL

-----------------------------------------------------------------------------
(* The backends agree *)

\* A delete on local files is not a request to the bucket.
BackendIsUsed == \A w \in Workers : pc[w] = "s3Delete" => backend = "s3"

LEMMA BackendUse == Spec => []BackendIsUsed
<1> USE DEF WellFormed, TypeOK, BackendIsUsed, Put, Delete, Get, Head, Writing,
            Reading, history
<1>1. Init => BackendIsUsed
  BY DEF Init
<1>2. WellFormed /\ BackendIsUsed /\ [Next]_vars => BackendIsUsed'
  <2> SUFFICES ASSUME WellFormed, BackendIsUsed, [Next]_vars PROVE BackendIsUsed'
    OBVIOUS
  <2>1. ASSUME NEW w \in Workers, NEW k \in Keys, NEW d \in Data, BeginPut(w, k, d) PROVE BackendIsUsed'
    BY <2>1 DEF BeginPut, Call, Change, Busy
  <2>2. ASSUME NEW w \in Workers, NEW k \in Keys, BeginGet(w, k) PROVE BackendIsUsed'
    BY <2>2 DEF BeginGet, Call, Look, Busy
  <2>3. ASSUME NEW w \in Workers, NEW k \in Keys, BeginHead(w, k) PROVE BackendIsUsed'
    BY <2>3 DEF BeginHead, Call, Look, Busy
  <2>4. ASSUME NEW w \in Workers, NEW k \in Keys, BeginDelete(w, k) PROVE BackendIsUsed'
    BY <2>4 DEF BeginDelete, Call, Change, Busy
  <2>5. ASSUME NEW w \in Workers, Open(w) PROVE BackendIsUsed'
    BY <2>5 DEF Open, Goto
  <2>6. ASSUME NEW w \in Workers, Write(w) PROVE BackendIsUsed'
    BY <2>6 DEF Write, Return, Settle
  <2>7. ASSUME NEW w \in Workers, GetCheck(w) PROVE BackendIsUsed'
    BY <2>7 DEF GetCheck, Goto, Raise, Return
  <2>8. ASSUME NEW w \in Workers, GetRead(w) PROVE BackendIsUsed'
    BY <2>8 DEF GetRead, Raise, Return
  <2>9. ASSUME NEW w \in Workers, HeadCheck(w) PROVE BackendIsUsed'
    BY <2>9 DEF HeadCheck, Goto, Return
  <2>10. ASSUME NEW w \in Workers, HeadStat(w) PROVE BackendIsUsed'
    BY <2>10 DEF HeadStat, Raise, Return
  <2>11. ASSUME NEW w \in Workers, DeleteCheck(w) PROVE BackendIsUsed'
    BY <2>11 DEF DeleteCheck, Goto, Return, Settle
  <2>12. ASSUME NEW w \in Workers, Unlink(w) PROVE BackendIsUsed'
    BY <2>12 DEF Unlink, Raise, Return, Settle
  <2>13. ASSUME NEW w \in Workers, RemotePut(w) PROVE BackendIsUsed'
    BY <2>13 DEF RemotePut, Return, Settle
  <2>14. ASSUME NEW w \in Workers, RemoteGet(w) PROVE BackendIsUsed'
    BY <2>14 DEF RemoteGet, Raise, Return
  <2>15. ASSUME NEW w \in Workers, RemoteHead(w) PROVE BackendIsUsed'
    BY <2>15 DEF RemoteHead, Return
  <2>16. ASSUME NEW w \in Workers, RemoteDelete(w) PROVE BackendIsUsed'
    BY <2>16 DEF RemoteDelete, Return, Settle
  <2>17. ASSUME NEW w \in Workers, RemoteFail(w) PROVE BackendIsUsed'
    BY <2>17 DEF RemoteFail, Return
  <2>18. ASSUME Crash PROVE BackendIsUsed'
    BY <2>18 DEF Crash
  <2>19. CASE UNCHANGED vars
    BY <2>19 DEF vars
  <2> QED
    BY <2>1, <2>2, <2>3, <2>4, <2>5, <2>6, <2>7, <2>8, <2>9, <2>10,
       <2>11, <2>12, <2>13, <2>14, <2>15, <2>16, <2>17, <2>18, <2>19
       DEF Next, Begin, LocalStep, RemoteStep
<1> QED
  BY <1>1, <1>2, WellFormedness, PTL DEF Spec

\* Calls that meet no change of their object behave as on a map, whichever
\* backend is configured: they raise only for want of the object to get, read
\* what was settled, and have put or deleted when they return.
THEOREM BackendsAgree ==
  ASSUME Told
  PROVE  Spec => QuietCallsAgree
<1> DEFINE Agree == \A w \in Workers : EndsWell(w)
<1> USE DEF Told, WellFormed, TypeOK, CallsKnown, Steady, ChangingIsUnsettled,
            QuietIsAlone, QuietKnows, SettledIsStored, BackendIsUsed, Contents,
            Put, Delete, Get, Head, Writing, Reading, history, EndsWell
<1>1. WellFormed /\ Steady /\ BackendIsUsed /\ [Next]_vars => [Agree]_vars
  <2> SUFFICES ASSUME WellFormed, Steady, BackendIsUsed, [Next]_vars PROVE Agree
    OBVIOUS
  <2>1. ASSUME NEW w \in Workers, NEW k \in Keys, NEW d \in Data, BeginPut(w, k, d) PROVE Agree
    BY <2>1 DEF BeginPut, Call, Change, Busy
  <2>2. ASSUME NEW w \in Workers, NEW k \in Keys, BeginGet(w, k) PROVE Agree
    BY <2>2 DEF BeginGet, Call, Look, Busy
  <2>3. ASSUME NEW w \in Workers, NEW k \in Keys, BeginHead(w, k) PROVE Agree
    BY <2>3 DEF BeginHead, Call, Look, Busy
  <2>4. ASSUME NEW w \in Workers, NEW k \in Keys, BeginDelete(w, k) PROVE Agree
    BY <2>4 DEF BeginDelete, Call, Change, Busy
  <2>5. ASSUME NEW w \in Workers, Open(w) PROVE Agree
    BY <2>5 DEF Open, Goto
  <2>6. ASSUME NEW w \in Workers, Write(w) PROVE Agree
    BY <2>6 DEF Write, Return, Settle
  <2>7. ASSUME NEW w \in Workers, GetCheck(w) PROVE Agree
    BY <2>7 DEF GetCheck, Goto, Raise, Return
  <2>8. ASSUME NEW w \in Workers, GetRead(w) PROVE Agree
    <3>1. CASE files[key[w]] = None
      BY <2>8, <3>1 DEF GetRead, Raise, Return
    <3>2. CASE files[key[w]] # None
      BY <2>8, <3>2 DEF GetRead, Raise, Return
    <3> QED
      BY <2>8, <3>1, <3>2 DEF GetRead, Raise, Return
  <2>9. ASSUME NEW w \in Workers, HeadCheck(w) PROVE Agree
    BY <2>9 DEF HeadCheck, Goto, Return
  <2>10. ASSUME NEW w \in Workers, HeadStat(w) PROVE Agree
    <3>1. CASE files[key[w]] = None
      BY <2>10, <3>1 DEF HeadStat, Raise, Return
    <3>2. CASE files[key[w]] # None
      BY <2>10, <3>2 DEF HeadStat, Raise, Return
    <3> QED
      BY <2>10, <3>1, <3>2 DEF HeadStat, Raise, Return
  <2>11. ASSUME NEW w \in Workers, DeleteCheck(w) PROVE Agree
    BY <2>11 DEF DeleteCheck, Goto, Return, Settle
  <2>12. ASSUME NEW w \in Workers, Unlink(w) PROVE Agree
    BY <2>12 DEF Unlink, Raise, Return, Settle
  <2>13. ASSUME NEW w \in Workers, RemotePut(w) PROVE Agree
    BY <2>13 DEF RemotePut, Return, Settle
  <2>14. ASSUME NEW w \in Workers, RemoteGet(w) PROVE Agree
    BY <2>14 DEF RemoteGet, Raise, Return
  <2>15. ASSUME NEW w \in Workers, RemoteHead(w) PROVE Agree
    BY <2>15 DEF RemoteHead, Return
  <2>16. ASSUME NEW w \in Workers, RemoteDelete(w) PROVE Agree
    BY <2>16 DEF RemoteDelete, Return, Settle
  <2>17. ASSUME NEW w \in Workers, RemoteFail(w) PROVE Agree
    BY <2>17 DEF RemoteFail, Return
  <2>18. ASSUME Crash PROVE Agree
    BY <2>18 DEF Crash
  <2>19. CASE UNCHANGED vars
    BY <2>19 DEF vars
  <2> QED
    BY <2>1, <2>2, <2>3, <2>4, <2>5, <2>6, <2>7, <2>8, <2>9, <2>10,
       <2>11, <2>12, <2>13, <2>14, <2>15, <2>16, <2>17, <2>18, <2>19
       DEF Next, Begin, LocalStep, RemoteStep
<1> QED
  BY <1>1, WellFormedness, Steadiness, BackendUse, PTL DEF Spec, QuietCallsAgree

-----------------------------------------------------------------------------
(* The port is implemented *)

\* Every step of either backend is a step of ObjectStore: it touches the object
\* of its own key, which it replaces, removes or leaves unfinished.
THEOREM PortImplemented == Spec => ImplementsPort
<1> DEFINE Kept == Port!Next \/ UNCHANGED files
<1> USE DEF WellFormed, TypeOK, CallsKnown, Contents, Put, Delete, Get, Head,
            Writing, Reading, history, Port!Next, Port!Begin, Port!Put, Port!Delete
<1>1. Init => Port!Init
  BY DEF Init, Port!Init
<1>2. WellFormed /\ [Next]_vars => [Port!Next]_files
  <2> SUFFICES ASSUME WellFormed, [Next]_vars PROVE Kept
    OBVIOUS
  <2>1. ASSUME NEW w \in Workers, NEW k \in Keys, NEW d \in Data, BeginPut(w, k, d) PROVE Kept
    BY <2>1 DEF BeginPut, Call, Change, Busy
  <2>2. ASSUME NEW w \in Workers, NEW k \in Keys, BeginGet(w, k) PROVE Kept
    BY <2>2 DEF BeginGet, Call, Look, Busy
  <2>3. ASSUME NEW w \in Workers, NEW k \in Keys, BeginHead(w, k) PROVE Kept
    BY <2>3 DEF BeginHead, Call, Look, Busy
  <2>4. ASSUME NEW w \in Workers, NEW k \in Keys, BeginDelete(w, k) PROVE Kept
    BY <2>4 DEF BeginDelete, Call, Change, Busy
  <2>5. ASSUME NEW w \in Workers, Open(w) PROVE Kept
    BY <2>5 DEF Open, Goto
  <2>6. ASSUME NEW w \in Workers, Write(w) PROVE Kept
    BY <2>6 DEF Write, Return, Settle
  <2>7. ASSUME NEW w \in Workers, GetCheck(w) PROVE Kept
    BY <2>7 DEF GetCheck, Goto, Raise, Return
  <2>8. ASSUME NEW w \in Workers, GetRead(w) PROVE Kept
    BY <2>8 DEF GetRead, Raise, Return
  <2>9. ASSUME NEW w \in Workers, HeadCheck(w) PROVE Kept
    BY <2>9 DEF HeadCheck, Goto, Return
  <2>10. ASSUME NEW w \in Workers, HeadStat(w) PROVE Kept
    BY <2>10 DEF HeadStat, Raise, Return
  <2>11. ASSUME NEW w \in Workers, DeleteCheck(w) PROVE Kept
    BY <2>11 DEF DeleteCheck, Goto, Return, Settle
  <2>12. ASSUME NEW w \in Workers, Unlink(w) PROVE Kept
    BY <2>12 DEF Unlink, Raise, Return, Settle
  <2>13. ASSUME NEW w \in Workers, RemotePut(w) PROVE Kept
    BY <2>13 DEF RemotePut, Return, Settle
  <2>14. ASSUME NEW w \in Workers, RemoteGet(w) PROVE Kept
    BY <2>14 DEF RemoteGet, Raise, Return
  <2>15. ASSUME NEW w \in Workers, RemoteHead(w) PROVE Kept
    BY <2>15 DEF RemoteHead, Return
  <2>16. ASSUME NEW w \in Workers, RemoteDelete(w) PROVE Kept
    BY <2>16 DEF RemoteDelete, Return, Settle
  <2>17. ASSUME NEW w \in Workers, RemoteFail(w) PROVE Kept
    BY <2>17 DEF RemoteFail, Return
  <2>18. ASSUME Crash PROVE Kept
    BY <2>18 DEF Crash
  <2>19. CASE UNCHANGED vars
    BY <2>19 DEF vars
  <2> QED
    BY <2>1, <2>2, <2>3, <2>4, <2>5, <2>6, <2>7, <2>8, <2>9, <2>10,
       <2>11, <2>12, <2>13, <2>14, <2>15, <2>16, <2>17, <2>18, <2>19
       DEF Next, Begin, LocalStep, RemoteStep
<1> QED
  BY <1>1, <1>2, WellFormedness, PTL DEF Spec, ImplementsPort, Port!Spec
=============================================================================
