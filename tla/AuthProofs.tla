----------------------------- MODULE AuthProofs -----------------------------
(***************************************************************************)
(* Theorems about AuthService, for any users, session rows and workers.    *)
(***************************************************************************)
EXTENDS AuthService, FiniteSetTheorems, TLAPS

\* What each use-case knows at each of its steps.
Requests ==
  \A w \in Workers :
    /\ pc[w] = "idle" => mode[w] = "none"
    /\ pc[w] # "idle" => mode[w] # "none" /\ user[w] \in Users
    /\ mode[w] \in {"none", "register", "login", "logoutAll"} => token[w] = None
    /\ mode[w] \in {"refresh", "reuse", "logout"} =>
         token[w] \in Sessions /\ owner[token[w]] = user[w]
    /\ pc[w] = "insertUser" => mode[w] = "register"
    /\ pc[w] \in {"bulkRead", "bulkWrite"} => mode[w] \in {"reuse", "logoutAll"}
    /\ pc[w] = "revoke" => mode[w] \in {"refresh", "logout"}
    /\ pc[w] = "issue" => mode[w] \in {"register", "login", "refresh"}
    /\ pc[w] \notin {"bulkWrite", "commit"} => targets[w] = {}

\* An inserted row is one transaction's own, and new.
FreshRows ==
  \A w \in Workers : fresh[w] # None =>
    /\ pc[w] = "commit" /\ mode[w] \in {"register", "login", "refresh"}
    /\ owner[fresh[w]] = None
    /\ \A v \in Workers : fresh[v] = fresh[w] => v = w

\* Rows that do not exist were not rotated.
AbsentRows == \A s \in Sessions : owner[s] = None => parent[s] = None

WellFormed == TypeOK /\ Requests /\ FreshRows /\ AbsentRows

\* A rotation holds the old row before it issues the new one.
RotationHolds ==
  \A w \in Workers : mode[w] = "refresh" /\ pc[w] \in {"issue", "commit"} =>
    token[w] \in held[w]

\* At its commit a bulk update holds every selected row that is not revoked.
BulkHolds == \A w \in Workers : pc[w] = "commit" => targets[w] \subseteq revoked \cup held[w]

\* Whoever issues a pair has an account or is inserting one, and a pair that
\* is about to be committed has its row.
Issuers ==
  \A w \in Workers :
    /\ mode[w] \in {"login", "refresh"} => user[w] \in accounts
    /\ pc[w] = "commit" /\ mode[w] \in {"register", "login", "refresh"} => fresh[w] # None

AccountInv == Issuers /\ AccountsHaveSessions
RotationInv == RotationHolds /\ RotationRevokesParent
BulkInv == BulkHolds /\ BulkRevokesAll

-----------------------------------------------------------------------------

\* The bookkeeping the other proofs start from.
LEMMA WellFormedness == Spec => []WellFormed
<1> USE NoneAssumption DEF WellFormed, Requests, FreshRows, AbsentRows,
        TypeOK, Mode, Step, tables, request
<1>1. Init => WellFormed
  BY DEF Init
<1>2. WellFormed /\ [Next]_vars => WellFormed'
  <2> SUFFICES ASSUME WellFormed, [Next]_vars PROVE WellFormed'
    OBVIOUS
  <2>1. ASSUME NEW w \in Workers, NEW u \in Users, Register(w, u)
        PROVE  WellFormed'
    BY <2>1 DEF Register, Begin, Goto
  <2>2. ASSUME NEW w \in Workers, NEW u \in Users, Login(w, u)
        PROVE  WellFormed'
    BY <2>2 DEF Login, Begin, Goto
  <2>3. ASSUME NEW w \in Workers, NEW u \in Users, LogoutAll(w, u)
        PROVE  WellFormed'
    BY <2>3 DEF LogoutAll, Begin, Goto
  <2>4. ASSUME NEW w \in Workers, NEW s \in Sessions, Refresh(w, s)
        PROVE  WellFormed'
    BY <2>4 DEF Refresh, Begin, Goto
  <2>5. ASSUME NEW w \in Workers, NEW s \in Sessions, Logout(w, s)
        PROVE  WellFormed'
    BY <2>5 DEF Logout, Begin, Goto, Live
  <2>6. ASSUME NEW w \in Workers, InsertUser(w) PROVE WellFormed'
    <3>1. CASE user[w] \notin accounts
      BY <2>6, <3>1 DEF InsertUser, Goto
    <3>2. CASE user[w] \in accounts
      <4>1. UNCHANGED <<tables, cleared>> /\ Release(w)
        BY <2>6, <3>2 DEF InsertUser
      <4>2. TypeOK'
        BY <4>1 DEF Release
      <4>3. Requests' /\ FreshRows' /\ AbsentRows'
        BY <4>1 DEF Release
      <4> QED
        BY <4>2, <4>3
    <3> QED
      BY <3>1, <3>2
  <2>7. ASSUME NEW w \in Workers, Revoke(w) PROVE WellFormed'
    BY <2>7 DEF Revoke, Goto
  <2>8. ASSUME NEW w \in Workers, Issue(w) PROVE WellFormed'
    BY <2>8 DEF Issue, Goto
  <2>9. ASSUME NEW w \in Workers, BulkRead(w) PROVE WellFormed'
    BY <2>9 DEF BulkRead, Goto, Live
  <2>10. ASSUME NEW w \in Workers, BulkWrite(w) PROVE WellFormed'
    BY <2>10 DEF BulkWrite, Goto
  <2>11. ASSUME NEW w \in Workers, Commit(w) PROVE WellFormed'
    BY <2>11 DEF Commit, Release
  <2>12. ASSUME NEW w \in Workers, Abort(w) PROVE WellFormed'
    BY <2>12 DEF Abort, Release
  <2>13. CASE UNCHANGED vars
    BY <2>13 DEF vars
  <2> QED
    BY <2>1, <2>2, <2>3, <2>4, <2>5, <2>6, <2>7, <2>8,
       <2>9, <2>10, <2>11, <2>12, <2>13
       DEF Next, Arrive, Advance
<1> QED
  BY <1>1, <1>2, PTL DEF Spec

\* The variables stay in their types.
THEOREM TypeCorrect == Spec => []TypeOK
  BY WellFormedness, PTL DEF WellFormed

-----------------------------------------------------------------------------

\* A session never lives beside the one it was rotated from: the new row and
\* the mark on the old one are committed together, by a transaction that held
\* the old row.
THEOREM RotationIsRevocation == Spec => []RotationRevokesParent
<1> USE NoneAssumption DEF WellFormed, Requests, FreshRows, AbsentRows,
        RotationInv, RotationHolds, RotationRevokesParent,
        TypeOK, Mode, Step, tables, request
<1>1. Init => RotationInv
  BY DEF Init
<1>2. WellFormed /\ RotationInv /\ [Next]_vars => RotationInv'
  <2> SUFFICES ASSUME WellFormed, RotationInv, [Next]_vars PROVE RotationInv'
    OBVIOUS
  <2>1. ASSUME NEW w \in Workers, NEW u \in Users, Register(w, u)
        PROVE  RotationInv'
    BY <2>1 DEF Register, Begin, Goto
  <2>2. ASSUME NEW w \in Workers, NEW u \in Users, Login(w, u)
        PROVE  RotationInv'
    BY <2>2 DEF Login, Begin, Goto
  <2>3. ASSUME NEW w \in Workers, NEW u \in Users, LogoutAll(w, u)
        PROVE  RotationInv'
    BY <2>3 DEF LogoutAll, Begin, Goto
  <2>4. ASSUME NEW w \in Workers, NEW s \in Sessions, Refresh(w, s)
        PROVE  RotationInv'
    BY <2>4 DEF Refresh, Begin, Goto
  <2>5. ASSUME NEW w \in Workers, NEW s \in Sessions, Logout(w, s)
        PROVE  RotationInv'
    BY <2>5 DEF Logout, Begin, Goto, Live
  <2>6. ASSUME NEW w \in Workers, InsertUser(w) PROVE RotationInv'
    BY <2>6 DEF InsertUser, Goto, Release
  <2>7. ASSUME NEW w \in Workers, Revoke(w) PROVE RotationInv'
    BY <2>7 DEF Revoke, Goto
  <2>8. ASSUME NEW w \in Workers, Issue(w) PROVE RotationInv'
    BY <2>8 DEF Issue, Goto
  <2>9. ASSUME NEW w \in Workers, BulkRead(w) PROVE RotationInv'
    BY <2>9 DEF BulkRead, Goto, Live
  <2>10. ASSUME NEW w \in Workers, BulkWrite(w) PROVE RotationInv'
    BY <2>10 DEF BulkWrite, Goto
  <2>11. ASSUME NEW w \in Workers, Commit(w) PROVE RotationInv'
    BY <2>11 DEF Commit, Release
  <2>12. ASSUME NEW w \in Workers, Abort(w) PROVE RotationInv'
    BY <2>12 DEF Abort, Release
  <2>13. CASE UNCHANGED vars
    BY <2>13 DEF vars
  <2> QED
    BY <2>1, <2>2, <2>3, <2>4, <2>5, <2>6, <2>7, <2>8,
       <2>9, <2>10, <2>11, <2>12, <2>13
       DEF Next, Arrive, Advance
<1>3. RotationInv => RotationRevokesParent
  OBVIOUS
<1> QED
  BY <1>1, <1>2, <1>3, WellFormedness, PTL DEF Spec

-----------------------------------------------------------------------------

\* A committed bulk revocation has revoked the rows its UPDATE selected, those it
\* had to wait for included (not what others had yet to insert).
THEOREM SelectedAreRevoked == Spec => []BulkRevokesAll
<1> USE NoneAssumption DEF WellFormed, Requests, FreshRows, AbsentRows,
        BulkInv, BulkHolds, BulkRevokesAll,
        TypeOK, Mode, Step, tables, request
<1>1. Init => BulkInv
  BY DEF Init
<1>2. WellFormed /\ BulkInv /\ [Next]_vars => BulkInv'
  <2> SUFFICES ASSUME WellFormed, BulkInv, [Next]_vars PROVE BulkInv'
    OBVIOUS
  <2>1. ASSUME NEW w \in Workers, NEW u \in Users, Register(w, u)
        PROVE  BulkInv'
    BY <2>1 DEF Register, Begin, Goto
  <2>2. ASSUME NEW w \in Workers, NEW u \in Users, Login(w, u)
        PROVE  BulkInv'
    BY <2>2 DEF Login, Begin, Goto
  <2>3. ASSUME NEW w \in Workers, NEW u \in Users, LogoutAll(w, u)
        PROVE  BulkInv'
    BY <2>3 DEF LogoutAll, Begin, Goto
  <2>4. ASSUME NEW w \in Workers, NEW s \in Sessions, Refresh(w, s)
        PROVE  BulkInv'
    BY <2>4 DEF Refresh, Begin, Goto
  <2>5. ASSUME NEW w \in Workers, NEW s \in Sessions, Logout(w, s)
        PROVE  BulkInv'
    BY <2>5 DEF Logout, Begin, Goto, Live
  <2>6. ASSUME NEW w \in Workers, InsertUser(w) PROVE BulkInv'
    BY <2>6 DEF InsertUser, Goto, Release
  <2>7. ASSUME NEW w \in Workers, Revoke(w) PROVE BulkInv'
    BY <2>7 DEF Revoke, Goto
  <2>8. ASSUME NEW w \in Workers, Issue(w) PROVE BulkInv'
    BY <2>8 DEF Issue, Goto
  <2>9. ASSUME NEW w \in Workers, BulkRead(w) PROVE BulkInv'
    BY <2>9 DEF BulkRead, Goto, Live
  <2>10. ASSUME NEW w \in Workers, BulkWrite(w) PROVE BulkInv'
    BY <2>10 DEF BulkWrite, Goto
  <2>11. ASSUME NEW w \in Workers, Commit(w) PROVE BulkInv'
    BY <2>11 DEF Commit, Release
  <2>12. ASSUME NEW w \in Workers, Abort(w) PROVE BulkInv'
    BY <2>12 DEF Abort, Release
  <2>13. CASE UNCHANGED vars
    BY <2>13 DEF vars
  <2> QED
    BY <2>1, <2>2, <2>3, <2>4, <2>5, <2>6, <2>7, <2>8,
       <2>9, <2>10, <2>11, <2>12, <2>13
       DEF Next, Arrive, Advance
<1>3. BulkInv => BulkRevokesAll
  OBVIOUS
<1> QED
  BY <1>1, <1>2, <1>3, WellFormedness, PTL DEF Spec

-----------------------------------------------------------------------------

\* An account and its first session appear together, in one commit.
THEOREM RegistrationIsAtomic == Spec => []AccountsHaveSessions
<1> USE NoneAssumption DEF WellFormed, Requests, FreshRows, AbsentRows,
        AccountInv, Issuers, AccountsHaveSessions,
        TypeOK, Mode, Step, tables, request
<1>1. Init => AccountInv
  BY DEF Init
<1>2. WellFormed /\ AccountInv /\ [Next]_vars => AccountInv'
  <2> SUFFICES ASSUME WellFormed, AccountInv, [Next]_vars PROVE AccountInv'
    OBVIOUS
  <2>1. ASSUME NEW w \in Workers, NEW u \in Users, Register(w, u)
        PROVE  AccountInv'
    BY <2>1 DEF Register, Begin, Goto
  <2>2. ASSUME NEW w \in Workers, NEW u \in Users, Login(w, u)
        PROVE  AccountInv'
    BY <2>2 DEF Login, Begin, Goto
  <2>3. ASSUME NEW w \in Workers, NEW u \in Users, LogoutAll(w, u)
        PROVE  AccountInv'
    BY <2>3 DEF LogoutAll, Begin, Goto
  <2>4. ASSUME NEW w \in Workers, NEW s \in Sessions, Refresh(w, s)
        PROVE  AccountInv'
    BY <2>4 DEF Refresh, Begin, Goto
  <2>5. ASSUME NEW w \in Workers, NEW s \in Sessions, Logout(w, s)
        PROVE  AccountInv'
    BY <2>5 DEF Logout, Begin, Goto, Live
  <2>6. ASSUME NEW w \in Workers, InsertUser(w) PROVE AccountInv'
    BY <2>6 DEF InsertUser, Goto, Release
  <2>7. ASSUME NEW w \in Workers, Revoke(w) PROVE AccountInv'
    BY <2>7 DEF Revoke, Goto
  <2>8. ASSUME NEW w \in Workers, Issue(w) PROVE AccountInv'
    BY <2>8 DEF Issue, Goto
  <2>9. ASSUME NEW w \in Workers, BulkRead(w) PROVE AccountInv'
    BY <2>9 DEF BulkRead, Goto, Live
  <2>10. ASSUME NEW w \in Workers, BulkWrite(w) PROVE AccountInv'
    BY <2>10 DEF BulkWrite, Goto
  <2>11. ASSUME NEW w \in Workers, Commit(w) PROVE AccountInv'
    BY <2>11 DEF Commit, Release
  <2>12. ASSUME NEW w \in Workers, Abort(w) PROVE AccountInv'
    BY <2>12 DEF Abort, Release
  <2>13. CASE UNCHANGED vars
    BY <2>13 DEF vars
  <2> QED
    BY <2>1, <2>2, <2>3, <2>4, <2>5, <2>6, <2>7, <2>8,
       <2>9, <2>10, <2>11, <2>12, <2>13
       DEF Next, Arrive, Advance
<1>3. AccountInv => AccountsHaveSessions
  OBVIOUS
<1> QED
  BY <1>1, <1>2, <1>3, WellFormedness, PTL DEF Spec

-----------------------------------------------------------------------------
(* Waiting *)

\* Who has updated a row, or inserted its user, does not wait for a row any more.
HoldersDoNotWait ==
  \A w \in Workers : held[w] # {} => pc[w] \in {"issue", "commit"}

\* The workers that have a session row to insert, and the rows left to them.
Issuing == {w \in Workers : mode[w] \in {"register", "login", "refresh"}}
Unused == {s \in Sessions : owner[s] = None}

RowsAreLeft == Cardinality(Issuing) <= Cardinality(Unused)

\* The guards of Advance(w), by the place of the worker: no lock and no unique
\* index stands in its way.
CanAdvance(w) ==
  \/ pc[w] = "insertUser" /\ Registering(user[w]) = {}
  \/ pc[w] = "revoke" /\ token[w] \notin LockedFor(w)
  \/ pc[w] = "issue" /\ \E s \in Unused : \A v \in Workers : fresh[v] # s
  \/ pc[w] = "bulkWrite" /\ targets[w] \cap LockedFor(w) = {}
  \/ pc[w] \in {"bulkRead", "commit"}

\* Row locks and the unique index are never waited for in a circle: whoever
\* waits, waits for a request that can go on.
NoCircleOfWaiters ==
  \A w \in Workers : pc[w] # "idle" =>
    CanAdvance(w) \/ \E v \in Workers : pc[v] \in {"issue", "commit"} /\ CanAdvance(v)

LEMMA HoldingKept == Spec => []HoldersDoNotWait
<1> USE NoneAssumption DEF WellFormed, Requests, HoldersDoNotWait,
        TypeOK, Mode, Step, tables, request
<1>1. Init => HoldersDoNotWait
  BY DEF Init
<1>2. WellFormed /\ HoldersDoNotWait /\ [Next]_vars => HoldersDoNotWait'
  <2> SUFFICES ASSUME WellFormed, HoldersDoNotWait, [Next]_vars PROVE HoldersDoNotWait'
    OBVIOUS
  <2>1. ASSUME NEW w \in Workers, Arrive(w) PROVE HoldersDoNotWait'
    BY <2>1 DEF Arrive, Register, Login, LogoutAll, Refresh, Logout, Begin, Goto
  <2>2. ASSUME NEW w \in Workers, InsertUser(w) PROVE HoldersDoNotWait'
    BY <2>2 DEF InsertUser, Goto, Release
  <2>3. ASSUME NEW w \in Workers, Revoke(w) PROVE HoldersDoNotWait'
    BY <2>3 DEF Revoke, Goto
  <2>4. ASSUME NEW w \in Workers, Issue(w) PROVE HoldersDoNotWait'
    BY <2>4 DEF Issue, Goto
  <2>5. ASSUME NEW w \in Workers, BulkRead(w) PROVE HoldersDoNotWait'
    BY <2>5 DEF BulkRead, Goto
  <2>6. ASSUME NEW w \in Workers, BulkWrite(w) PROVE HoldersDoNotWait'
    BY <2>6 DEF BulkWrite, Goto
  <2>7. ASSUME NEW w \in Workers, Commit(w) PROVE HoldersDoNotWait'
    BY <2>7 DEF Commit, Release
  <2>8. ASSUME NEW w \in Workers, Abort(w) PROVE HoldersDoNotWait'
    BY <2>8 DEF Abort, Release
  <2>9. CASE UNCHANGED vars
    BY <2>9 DEF vars
  <2> QED
    BY <2>1, <2>2, <2>3, <2>4, <2>5, <2>6, <2>7, <2>8, <2>9 DEF Next, Advance
<1> QED
  BY <1>1, <1>2, WellFormedness, PTL DEF Spec

\* What a step does to the workers with a row to insert and the rows left.
LEMMA RowsTaken ==
  ASSUME WellFormed, NEW w \in Workers, Arrive(w) \/ Advance(w) \/ Abort(w)
  PROVE  \/ Issuing' = Issuing /\ Unused' = Unused
         \/ Issuing' = Issuing \cup {w} /\ Unused' = Unused /\ RoomForSession
         \/ Issuing' = Issuing \ {w} /\ Unused' = Unused
         \/ /\ Issuing' = Issuing \ {w} /\ w \in Issuing
            /\ \E s \in Unused : Unused' = Unused \ {s}
<1> USE NoneAssumption DEF WellFormed, Requests, FreshRows, TypeOK, Mode, Step, tables, request,
        Issuing, Unused
<1>1. ASSUME NEW u \in Users, Register(w, u) \/ Login(w, u)
      PROVE  Issuing' = Issuing \cup {w} /\ Unused' = Unused /\ RoomForSession
  BY <1>1 DEF Register, Login, Begin, Goto
<1>2. ASSUME NEW u \in Users, LogoutAll(w, u)
      PROVE  Issuing' = Issuing /\ Unused' = Unused
  BY <1>2 DEF LogoutAll, Begin, Goto
<1>3. ASSUME NEW s \in Sessions, Logout(w, s)
      PROVE  Issuing' = Issuing /\ Unused' = Unused
  BY <1>3 DEF Logout, Begin, Goto
<1>4. ASSUME NEW s \in Sessions, Refresh(w, s)
      PROVE  \/ Issuing' = Issuing /\ Unused' = Unused
             \/ Issuing' = Issuing \cup {w} /\ Unused' = Unused /\ RoomForSession
  <2>1. CASE Begin(w, "reuse", owner[s], s, "bulkRead")
    BY <2>1 DEF Begin, Goto
  <2>2. CASE RoomForSession /\ Begin(w, "refresh", owner[s], s, "revoke")
    BY <2>2 DEF Begin, Goto
  <2>3. QED
    BY <1>4, <2>1, <2>2 DEF Refresh
<1>5. ASSUME Release(w), UNCHANGED <<tables, cleared>>
      PROVE  Issuing' = Issuing \ {w} /\ Unused' = Unused
  BY <1>5 DEF Release
<1>6. ASSUME UNCHANGED <<tables, request>>
      PROVE  Issuing' = Issuing /\ Unused' = Unused
  BY <1>6
<1>7. ASSUME Commit(w)
      PROVE  \/ Issuing' = Issuing \ {w} /\ Unused' = Unused
             \/ /\ Issuing' = Issuing \ {w} /\ w \in Issuing
                /\ \E s \in Unused : Unused' = Unused \ {s}
  <2>1. Issuing' = Issuing \ {w}
    BY <1>7 DEF Commit, Release
  <2>2. \A s \in Sessions : owner'[s] = IF s = fresh[w] THEN user[w] ELSE owner[s]
    BY <1>7 DEF Commit
  <2>3. user[w] # None
    BY <1>7 DEF Commit
  <2>4. CASE fresh[w] = None
    BY <2>1, <2>2, <2>4
  <2>5. CASE fresh[w] # None
    <3>1. fresh[w] \in Unused /\ w \in Issuing
      BY <2>5
    <3>2. Unused' = Unused \ {fresh[w]}
      BY <2>2, <2>3
    <3>3. QED
      BY <2>1, <3>1, <3>2
  <2>6. QED
    BY <2>4, <2>5
<1>8. CASE Arrive(w)
  BY <1>1, <1>2, <1>3, <1>4, <1>8 DEF Arrive
<1>9. CASE InsertUser(w)
  BY <1>5, <1>6, <1>9 DEF InsertUser
<1>10. CASE Revoke(w) \/ Issue(w) \/ BulkRead(w) \/ BulkWrite(w)
  BY <1>6, <1>10 DEF Revoke, Issue, BulkRead, BulkWrite
<1>11. CASE Abort(w)
  BY <1>5, <1>11 DEF Abort
<1>12. QED
  BY <1>7, <1>8, <1>9, <1>10, <1>11 DEF Advance

LEMMA RowsKept ==
  ASSUME IsFiniteSet(Workers), IsFiniteSet(Sessions)
  PROVE  Spec => []RowsAreLeft
<1>1. Init => RowsAreLeft
  <2> SUFFICES ASSUME Init
               PROVE  RowsAreLeft
    OBVIOUS
  <2>1. Issuing = {}
    BY DEF Init, Issuing
  <2>2. Cardinality(Unused) \in Nat
    <3>1. IsFiniteSet(Unused)
      BY FS_Subset DEF Unused
    <3>2. QED
      BY <3>1, FS_CardinalityType
  <2>3. QED
    BY <2>1, <2>2, FS_EmptySet DEF RowsAreLeft
<1>2. WellFormed /\ RowsAreLeft /\ [Next]_vars => RowsAreLeft'
  <2> SUFFICES ASSUME WellFormed, RowsAreLeft, [Next]_vars PROVE RowsAreLeft'
    OBVIOUS
  <2> DEFINE I == Issuing
             U == Unused
  <2>1. IsFiniteSet(I) /\ IsFiniteSet(U)
    BY FS_Subset DEF Issuing, Unused
  <2>2. Cardinality(I) \in Nat /\ Cardinality(U) \in Nat /\ Cardinality(I) <= Cardinality(U)
    BY <2>1, FS_CardinalityType DEF RowsAreLeft
  <2>3. CASE UNCHANGED vars
    BY <2>3 DEF vars, tables, request, RowsAreLeft, Issuing, Unused
  <2>4. ASSUME NEW w \in Workers, Arrive(w) \/ Advance(w) \/ Abort(w)
        PROVE  RowsAreLeft'
    <3>1. /\ IsFiniteSet(I \cup {w}) /\ IsFiniteSet(I \ {w})
          /\ Cardinality(I \cup {w}) <= Cardinality(I) + 1
          /\ Cardinality(I \ {w}) = IF w \in I THEN Cardinality(I) - 1 ELSE Cardinality(I)
      <4> HIDE DEF I, U
      <4>1. Cardinality(I \cup {w}) = IF w \in I THEN Cardinality(I) ELSE Cardinality(I) + 1
        BY <2>1, FS_AddElement
      <4>2. Cardinality(I \ {w}) = IF w \in I THEN Cardinality(I) - 1 ELSE Cardinality(I)
        BY <2>1, FS_RemoveElement
      <4>3. QED
        BY <2>1, <2>2, <4>1, <4>2, FS_AddElement, FS_RemoveElement
    <3>2. CASE Issuing' = I /\ Unused' = U
      BY <2>2, <3>2 DEF RowsAreLeft
    <3>3. CASE Issuing' = I \cup {w} /\ Unused' = U /\ RoomForSession
      <4>1. Cardinality(I) < Cardinality(U)
        <5>1. Cardinality(U) > Cardinality(I)
          BY <3>3 DEF RoomForSession, Issuing, Unused
        <5> HIDE DEF I, U
        <5>2. QED
          BY <2>2, <5>1
      <4>2. Cardinality(I \cup {w}) \in Nat
        BY <3>1, FS_CardinalityType
      <4> HIDE DEF I, U
      <4>3. Cardinality(I \cup {w}) <= Cardinality(U)
        BY <2>2, <3>1, <4>1, <4>2
      <4>4. QED
        BY <3>3, <4>3 DEF RowsAreLeft
    <3>4. CASE Issuing' = I \ {w} /\ Unused' = U
      <4> HIDE DEF I, U
      <4>1. Cardinality(I \ {w}) <= Cardinality(U)
        BY <2>2, <3>1
      <4>2. QED
        BY <3>4, <4>1 DEF RowsAreLeft
    <3>5. CASE Issuing' = I \ {w} /\ w \in I /\ \E s \in U : Unused' = U \ {s}
      <4>1. PICK s \in U : Unused' = U \ {s}
        BY <3>5
      <4> HIDE DEF I, U
      <4>2. Cardinality(U \ {s}) = Cardinality(U) - 1
        BY <2>1, FS_RemoveElement
      <4>3. Cardinality(I \ {w}) <= Cardinality(U \ {s})
        BY <2>2, <3>1, <3>5, <4>2
      <4>4. QED
        BY <3>5, <4>1, <4>3 DEF RowsAreLeft
    <3>6. QED
      BY <2>4, <3>2, <3>3, <3>4, <3>5, RowsTaken
  <2>5. QED
    BY <2>3, <2>4 DEF Next
<1>3. QED
  BY <1>1, <1>2, WellFormedness, PTL DEF Spec

\* As many rows are left as workers have one to insert, and the one at its
\* insert has taken none: there is one for it.
LEMMA IssueFindsRow ==
  ASSUME WellFormed, RowsAreLeft, IsFiniteSet(Workers), IsFiniteSet(Sessions),
         NEW w \in Workers, pc[w] = "issue"
  PROVE  \E s \in Unused : \A v \in Workers : fresh[v] # s
<1> SUFFICES ASSUME \A s \in Unused : \E v \in Workers : fresh[v] = s
             PROVE  FALSE
  OBVIOUS
<1> DEFINE T == Issuing \ {w}
           f == [s \in Unused |-> CHOOSE v \in Workers : fresh[v] = s]
<1>1. fresh[w] = None /\ w \in Issuing
  BY NoneAssumption DEF WellFormed, FreshRows, Requests, Issuing
<1>2. \A s \in Unused : f[s] \in Workers /\ fresh[f[s]] = s
  OBVIOUS
<1>3. \A s \in Unused : s # None
  BY NoneAssumption DEF Unused
<1>4. \A s \in Unused : f[s] \in T
  <2> HIDE DEF f
  <2>1. ASSUME NEW s \in Unused
        PROVE  f[s] \in T
    <3>1. f[s] \in Workers /\ fresh[f[s]] # None /\ f[s] # w
      BY <1>1, <1>2, <1>3
    <3>2. f[s] \in Issuing
      BY <3>1 DEF WellFormed, FreshRows, Issuing
    <3>3. QED
      BY <3>1, <3>2
  <2>2. QED
    BY <2>1
<1>5. f \in Injection(Unused, T)
  <2>1. DOMAIN f = Unused
    OBVIOUS
  <2>2. \A s, t \in Unused : f[s] = f[t] => s = t
    <3> HIDE DEF f
    <3> QED BY <1>2
  <2>3. f \in [Unused -> T]
    <3>1. f = [s \in Unused |-> f[s]]
      OBVIOUS
    <3> HIDE DEF f, T
    <3>2. QED
      BY <1>4, <3>1
  <2> HIDE DEF f, T
  <2>4. QED
    BY <2>1, <2>2, <2>3 DEF Injection, IsInjective
<1>6. IsFiniteSet(Issuing) /\ IsFiniteSet(T)
  <2>1. IsFiniteSet(Issuing)
    BY FS_Subset DEF Issuing
  <2>2. QED
    BY <2>1, FS_RemoveElement
<1>7. Cardinality(Unused) <= Cardinality(T)
  <2> HIDE DEF f, T
  <2> QED BY <1>5, <1>6, FS_Injection
<1>8. Cardinality(T) = Cardinality(Issuing) - 1
  BY <1>1, <1>6, FS_RemoveElement
<1>9. Cardinality(Issuing) \in Nat /\ Cardinality(Unused) \in Nat
  <2>1. IsFiniteSet(Unused)
    BY FS_Subset DEF Unused
  <2>2. QED
    BY <1>6, <2>1, FS_CardinalityType
<1> HIDE DEF T
<1>10. QED
  BY <1>7, <1>8, <1>9 DEF RowsAreLeft

\* For any number of threads and session rows, refreshes, logouts, bulk
\* revocations and registrations never wait for one another in a circle.
THEOREM NobodyWaitsInACircle ==
  ASSUME IsFiniteSet(Workers), IsFiniteSet(Sessions)
  PROVE  Spec => []NoCircleOfWaiters
<1>1. WellFormed /\ HoldersDoNotWait /\ RowsAreLeft => NoCircleOfWaiters
  <2> SUFFICES ASSUME WellFormed, HoldersDoNotWait, RowsAreLeft,
                      NEW w \in Workers, pc[w] # "idle", ~CanAdvance(w)
               PROVE  \E v \in Workers : pc[v] \in {"issue", "commit"} /\ CanAdvance(v)
    BY DEF NoCircleOfWaiters
  <2>1. ASSUME NEW v \in Workers, pc[v] \in {"issue", "commit"}
        PROVE  CanAdvance(v)
    BY <2>1, IssueFindsRow DEF CanAdvance
  <2>2. \/ pc[w] = "insertUser" /\ Registering(user[w]) # {}
        \/ pc[w] = "revoke" /\ token[w] \in LockedFor(w)
        \/ pc[w] = "bulkWrite" /\ targets[w] \cap LockedFor(w) # {}
    <3>1. pc[w] \in Step /\ pc[w] \notin {"issue", "commit"}
      BY <2>1 DEF WellFormed, TypeOK
    <3>2. QED
      BY <3>1 DEF CanAdvance, Step
  <2>3. CASE Registering(user[w]) # {}
    BY <2>1, <2>3 DEF Registering
  <2>4. CASE LockedFor(w) # {}
    <3>1. PICK v \in Workers \ {w} : held[v] # {}
      BY <2>4 DEF LockedFor
    <3>2. QED
      BY <2>1, <3>1 DEF HoldersDoNotWait
  <2>5. QED
    BY <2>2, <2>3, <2>4
<1>2. QED
  BY <1>1, WellFormedness, HoldingKept, RowsKept, PTL
=============================================================================
