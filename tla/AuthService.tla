----------------------------- MODULE AuthService -----------------------------
(***************************************************************************)
(* The auth module: register, login, refresh-token rotation, logout and    *)
(* logout-all, run by concurrent request threads.  Each use-case is one    *)
(* READ COMMITTED transaction; its reads, its flushed writes and its       *)
(* commit are separate steps.  A flushed write is invisible to the others  *)
(* until the commit, and holds its row against their updates.              *)
(*                                                                         *)
(* A session row stands for its refresh token as well.  Every account is   *)
(* active: nothing in the code clears is_active.                           *)
(***************************************************************************)
EXTENDS FiniteSets, Integers

CONSTANTS Users,     \* e-mail addresses (unique in the users table)
          Sessions,  \* rows of the sessions table, i.e. refresh tokens
          Workers,   \* request threads
          None       \* no user, no session

ASSUME NoneAssumption == None \notin Users \cup Sessions

VARIABLES accounts,  \* committed user rows
          owner,     \* committed session rows: their user, None if no row
          parent,    \* the session a row was rotated from, None for a login
          revoked,   \* session rows with a committed revoked_at
          pc,        \* where each worker is in its transaction
          mode,      \* the use-case it runs
          user,      \* the user it is about
          token,     \* the session whose refresh token it was given
          fresh,     \* the session row it has inserted and not committed
          held,      \* session rows it has marked revoked and not committed
          targets,   \* rows its bulk update has selected
          cleared    \* history: rows selected by committed bulk revocations

tables == <<accounts, owner, parent, revoked>>
request == <<mode, user, token>>
vars == <<tables, pc, request, fresh, held, targets, cleared>>

-----------------------------------------------------------------------------

Mode == {"none", "register", "login", "refresh", "reuse", "logout", "logoutAll"}
Step == {"idle", "insertUser", "revoke", "issue", "bulkRead", "bulkWrite", "commit"}

TypeOK ==
  /\ accounts \subseteq Users
  /\ owner \in [Sessions -> Users \cup {None}]
  /\ parent \in [Sessions -> Sessions \cup {None}]
  /\ revoked \subseteq Sessions
  /\ pc \in [Workers -> Step]
  /\ mode \in [Workers -> Mode]
  /\ user \in [Workers -> Users \cup {None}]
  /\ token \in [Workers -> Sessions \cup {None}]
  /\ fresh \in [Workers -> Sessions \cup {None}]
  /\ held \in [Workers -> SUBSET Sessions]
  /\ targets \in [Workers -> SUBSET Sessions]
  /\ cleared \subseteq Sessions

Init ==
  /\ accounts = {}
  /\ owner = [s \in Sessions |-> None]
  /\ parent = [s \in Sessions |-> None]
  /\ revoked = {}
  /\ pc = [w \in Workers |-> "idle"]
  /\ mode = [w \in Workers |-> "none"]
  /\ user = [w \in Workers |-> None]
  /\ token = [w \in Workers |-> None]
  /\ fresh = [w \in Workers |-> None]
  /\ held = [w \in Workers |-> {}]
  /\ targets = [w \in Workers |-> {}]
  /\ cleared = {}

-----------------------------------------------------------------------------
(* Transactions *)

Goto(w, from, to) ==
  /\ pc[w] = from
  /\ pc' = [pc EXCEPT ![w] = to]

\* Bound: a request that will insert a session row begins only if one of the
\* model's rows is left for it.
RoomForSession ==
  Cardinality({s \in Sessions : owner[s] = None})
    > Cardinality({w \in Workers : mode[w] \in {"register", "login", "refresh"}})

\* A request for use-case m about user u, presenting token t.
Begin(w, m, u, t, to) ==
  /\ Goto(w, "idle", to)
  /\ mode' = [mode EXCEPT ![w] = m]
  /\ user' = [user EXCEPT ![w] = u]
  /\ token' = [token EXCEPT ![w] = t]
  /\ UNCHANGED <<tables, fresh, held, targets, cleared>>

\* The session is closed: what it held and had not committed is gone.
Release(w) ==
  /\ pc' = [pc EXCEPT ![w] = "idle"]
  /\ mode' = [mode EXCEPT ![w] = "none"]
  /\ user' = [user EXCEPT ![w] = None]
  /\ token' = [token EXCEPT ![w] = None]
  /\ fresh' = [fresh EXCEPT ![w] = None]
  /\ held' = [held EXCEPT ![w] = {}]
  /\ targets' = [targets EXCEPT ![w] = {}]

\* Rows that another open transaction has updated.
LockedFor(w) == UNION {held[v] : v \in Workers \ {w}}

Live(s) == owner[s] # None /\ s \notin revoked

-----------------------------------------------------------------------------
(* The first read of each use-case.  A rejected request (wrong password,    *)
(* unknown token, expired session) changes nothing and is not a step.       *)

Register(w, u) ==
  /\ RoomForSession
  /\ u \notin accounts
  /\ Begin(w, "register", u, None, "insertUser")

Login(w, u) ==
  /\ RoomForSession
  /\ u \in accounts
  /\ Begin(w, "login", u, None, "issue")

\* Reuse of a revoked token is told apart here, before the expiry check.
Refresh(w, s) ==
  /\ owner[s] # None
  /\ \/ s \in revoked /\ Begin(w, "reuse", owner[s], s, "bulkRead")
     \/ s \notin revoked /\ RoomForSession /\ Begin(w, "refresh", owner[s], s, "revoke")

Logout(w, s) == Live(s) /\ Begin(w, "logout", owner[s], s, "revoke")

\* The bearer token's user, looked up in a session of its own beforehand.
Authenticated(u) == u \in accounts

LogoutAll(w, u) == Authenticated(u) /\ Begin(w, "logoutAll", u, None, "bulkRead")

-----------------------------------------------------------------------------
(* The writes *)

Registering(u) == {w \in Workers : mode[w] = "register" /\ pc[w] \in {"issue", "commit"}
                                   /\ user[w] = u}

\* Mutant: a duplicate is waited for instead of failing.
InsertUserWaiting(w) ==
  /\ Registering(user[w]) = {} /\ user[w] \notin accounts
  /\ Goto(w, "insertUser", "issue")
  /\ UNCHANGED <<tables, request, fresh, held, targets, cleared>>

\* users.add flushes outside the try block: the unique index makes a second
\* INSERT of the e-mail wait for the first transaction, and fail uncaught if
\* that one committed.
InsertUser(w) ==
  /\ Registering(user[w]) = {}
  /\ \/ /\ user[w] \notin accounts
        /\ Goto(w, "insertUser", "issue")
        /\ UNCHANGED <<request, fresh, held, targets>>
     \/ /\ user[w] \in accounts
        /\ pc[w] = "insertUser"
        /\ Release(w)
  /\ UNCHANGED <<tables, cleared>>

\* Mutant: the new pair is issued without revoking the old row.
RevokeSkipped(w) ==
  /\ Goto(w, "revoke", IF mode[w] = "refresh" THEN "issue" ELSE "commit")
  /\ UNCHANGED <<tables, request, fresh, held, targets, cleared>>

\* Marking one row revoked: waits for a holder of the row, then overwrites.
Revoke(w) ==
  /\ Goto(w, "revoke", IF mode[w] = "refresh" THEN "issue" ELSE "commit")
  /\ token[w] \notin LockedFor(w)
  /\ held' = [held EXCEPT ![w] = {token[w]}]
  /\ UNCHANGED <<tables, request, fresh, targets, cleared>>

\* _issue_token_pair: a new session row is inserted.
Issue(w) ==
  /\ Goto(w, "issue", "commit")
  /\ \E s \in Sessions :
       /\ owner[s] = None
       /\ \A v \in Workers : fresh[v] # s
       /\ fresh' = [fresh EXCEPT ![w] = s]
  /\ UNCHANGED <<tables, request, held, targets, cleared>>

\* revoke_all_for_user is one UPDATE.  It selects the rows committed when it
\* starts, waits for those that others have updated, and skips the ones that
\* turn out revoked.  Its row locks are taken together here.
BulkRead(w) ==
  /\ Goto(w, "bulkRead", "bulkWrite")
  /\ targets' = [targets EXCEPT ![w] = {s \in Sessions : owner[s] = user[w] /\ Live(s)}]
  /\ UNCHANGED <<tables, request, fresh, held, cleared>>

\* Mutant: rows that are locked are passed over (SKIP LOCKED).
BulkWriteSkippingLocked(w) ==
  /\ Goto(w, "bulkWrite", "commit")
  /\ held' = [held EXCEPT ![w] = targets[w] \ (revoked \cup LockedFor(w))]
  /\ UNCHANGED <<tables, request, fresh, targets, cleared>>

BulkWrite(w) ==
  /\ Goto(w, "bulkWrite", "commit")
  /\ targets[w] \cap LockedFor(w) = {}
  /\ held' = [held EXCEPT ![w] = targets[w] \ revoked]
  /\ UNCHANGED <<tables, request, fresh, targets, cleared>>

Commit(w) ==
  /\ pc[w] = "commit"
  /\ Release(w)
  /\ accounts' = IF mode[w] = "register" THEN accounts \cup {user[w]} ELSE accounts
  /\ owner' = [s \in Sessions |-> IF s = fresh[w] THEN user[w] ELSE owner[s]]
  /\ parent' = [s \in Sessions |-> IF s = fresh[w] THEN token[w] ELSE parent[s]]
  /\ revoked' = revoked \cup held[w]
  /\ cleared' = cleared \cup targets[w]

\* The connection or the process is lost, and the transaction with it.
Abort(w) ==
  /\ pc[w] # "idle"
  /\ Release(w)
  /\ UNCHANGED <<tables, cleared>>

-----------------------------------------------------------------------------

Arrive(w) ==
  \/ \E u \in Users : Register(w, u) \/ Login(w, u) \/ LogoutAll(w, u)
  \/ \E s \in Sessions : Refresh(w, s) \/ Logout(w, s)

Advance(w) ==
  \/ InsertUser(w) \/ Revoke(w) \/ Issue(w)
  \/ BulkRead(w) \/ BulkWrite(w) \/ Commit(w)

Next == \E w \in Workers : Arrive(w) \/ Advance(w) \/ Abort(w)

Spec == Init /\ [][Next]_vars

\* A thread runs its request, and a waiter is served in turn when the lock it
\* waits for is released (the database queues waiters), hence strong fairness.
FairSpec == Spec /\ \A w \in Workers : SF_vars(Advance(w))

-----------------------------------------------------------------------------
(* Safety *)

\* "Rotation revokes the old row when a new pair is issued": no committed
\* session coexists with the live session it was rotated from, whichever
\* transactions interleave or are lost half way.
RotationRevokesParent ==
  \A s \in Sessions : parent[s] # None =>
    parent[s] \in revoked /\ owner[parent[s]] = owner[s]

\* A bulk revocation (logout-all, or reuse of a revoked token) that committed
\* has revoked every session that was live when its UPDATE started, the ones
\* it had to wait for included, and they stay revoked.  What a concurrent
\* request has inserted and not committed by then is not among them.
BulkRevokesAll == cleared \subseteq revoked

\* "Reuse of a revoked token -> assume theft, kill the whole family", "Revoke
\* every refresh session for the current user": a session rotated from one that
\* a bulk revocation covered is revoked as well.  The code does not keep this:
\* a refresh that has read its token before, and commits afterwards, leaves a
\* live successor.
RevokesTheFamily == \A s \in Sessions : parent[s] \in cleared => s \in revoked

\* Registration creates the account and its first session together: an
\* account always has a session row and a session row always has an account.
AccountsHaveSessions == \A u \in Users : u \in accounts <=> \E s \in Sessions : owner[s] = u

-----------------------------------------------------------------------------
(* Liveness *)

\* Row locks and the unique index never make a request wait for ever.
RequestReturns == \A w \in Workers : pc[w] # "idle" ~> pc[w] = "idle"
=============================================================================
