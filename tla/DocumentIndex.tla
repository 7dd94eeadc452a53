---------------------------- MODULE DocumentIndex ----------------------------
(***************************************************************************)
(* What the ingestion API promises while the process stays up, with no     *)
(* threads, transactions or files in sight: a document becomes retrievable *)
(* at the instant it becomes ready, can be withdrawn but never comes back, *)
(* and is never reported failed or gone while it can still be retrieved.   *)
(***************************************************************************)

CONSTANT Docs

VARIABLES life,          \* what the API reports about each document
          retrievable    \* documents whose chunks a query can return

vars == <<life, retrievable>>

Init ==
  /\ life = [d \in Docs |-> "none"]
  /\ retrievable = {}

Start(d) ==
  /\ life[d] = "none"
  /\ life' = [life EXCEPT ![d] = "processing"]
  /\ UNCHANGED retrievable

\* A document without text is ready with nothing to retrieve.
Publish(d) ==
  /\ life[d] = "processing"
  /\ life' = [life EXCEPT ![d] = "ready"]
  /\ retrievable' \in {retrievable, retrievable \cup {d}}

Withdraw(d) ==
  /\ d \in retrievable
  /\ retrievable' = retrievable \ {d}
  /\ UNCHANGED life

Fail(d) ==
  /\ life[d] \in {"processing", "ready"}
  /\ d \notin retrievable
  /\ life' = [life EXCEPT ![d] = "failed"]
  /\ UNCHANGED retrievable

Remove(d) ==
  /\ life[d] \in {"processing", "ready", "failed"}
  /\ life' = [life EXCEPT ![d] = "deleted"]
  /\ retrievable' = retrievable \ {d}

Next == \E d \in Docs :
  Start(d) \/ Publish(d) \/ Withdraw(d) \/ Fail(d) \/ Remove(d)

Spec == Init /\ [][Next]_vars
=============================================================================
