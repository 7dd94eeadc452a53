---------------------------- MODULE ObjectStorage ----------------------------
(***************************************************************************)
(* The two implementations of the storage port.  LocalObjectStorage works  *)
(* on files, system call by system call and without a lock;                *)
(* S3ObjectStorage sends one request per call, which may fail with or      *)
(* without effect.  A key is the path of its file; as with the keys of     *)
(* uploads, none is the directory of another, so that the making of parent *)
(* directories and the removal of a directory tree touch no other object.  *)
(***************************************************************************)
CONSTANTS Keys,      \* paths below the root, or object names in the bucket
          Data,      \* what may be stored
          Workers,   \* threads calling the storage
          None,      \* nothing
          Torn       \* contents cut short or mixed

VARIABLES backend,   \* settings.storage_backend
          files,     \* the contents of each file, or of the bucket
          pc, key,   \* where each thread is, and for which key
          data,      \* what it is to write
          handle,    \* what became of the file it has opened
          result,    \* how its last call ended
          settled,   \* history: what the last call on a quiet key achieved
          quiet      \* history: no other put or delete met this call

history == <<settled, quiet>>
vars == <<backend, files, pc, key, data, handle, result, history>>

-----------------------------------------------------------------------------

Contents == Data \cup {Torn}

Put    == {"open", "write", "s3Put"}
Delete == {"isFile", "unlink", "s3Delete"}
Get    == {"getCheck", "getRead", "s3Get"}
Head   == {"headCheck", "headStat", "s3Head"}
Writing == Put \cup Delete
Reading == Get \cup Head

TypeOK ==
  /\ backend \in {"local", "s3"}
  /\ files \in [Keys -> Contents \cup {None}]
  /\ pc \in [Workers -> Writing \cup Reading \cup {"idle"}]
  /\ key \in [Workers -> Keys \cup {None}]
  /\ data \in [Workers -> Data \cup {None}]
  /\ handle \in [Workers -> {"none", "sole", "shared", "unlinked"}]
  /\ result \in [Workers -> Contents \cup {None, "none", "ok", "raised", "outage"}]
  /\ settled \in [Keys -> Contents \cup {None, "unsettled"}]
  /\ quiet \in [Workers -> BOOLEAN]

Init ==
  /\ backend \in {"local", "s3"}
  /\ files = [k \in Keys |-> None]
  /\ pc = [w \in Workers |-> "idle"]
  /\ key = [w \in Workers |-> None]
  /\ data = [w \in Workers |-> None]
  /\ handle = [w \in Workers |-> "none"]
  /\ result = [w \in Workers |-> "none"]
  /\ settled = [k \in Keys |-> None]
  /\ quiet = [w \in Workers |-> TRUE]

-----------------------------------------------------------------------------

Busy(k) == \E w \in Workers : pc[w] \in Writing /\ key[w] = k

\* A call begins.
Call(w, k, local, remote) ==
  /\ pc[w] = "idle"
  /\ pc' = [pc EXCEPT ![w] = IF backend = "local" THEN local ELSE remote]
  /\ key' = [key EXCEPT ![w] = k]
  /\ handle' = [handle EXCEPT ![w] = "none"]
  /\ result' = [result EXCEPT ![w] = "none"]
  /\ UNCHANGED <<backend, files>>

\* One that changes its object disturbs whoever is at it.
Change(w, k) ==
  /\ quiet' = [v \in Workers |-> IF v = w THEN ~Busy(k)
                                 ELSE quiet[v] /\ ~(pc[v] # "idle" /\ key[v] = k)]
  /\ settled' = [settled EXCEPT ![k] = "unsettled"]

Look(w, k) ==
  /\ quiet' = [quiet EXCEPT ![w] = ~Busy(k)]
  /\ UNCHANGED <<data, settled>>

Goto(w, from, to) ==
  /\ pc[w] = from
  /\ pc' = [pc EXCEPT ![w] = to]
  /\ UNCHANGED <<backend, key, data, result, history>>

\* The call ends in `how'.
Return(w, from, how) ==
  /\ pc[w] = from
  /\ pc' = [pc EXCEPT ![w] = "idle"]
  /\ result' = [result EXCEPT ![w] = how]
  /\ key' = [key EXCEPT ![w] = None]
  /\ data' = [data EXCEPT ![w] = None]
  /\ quiet' = [quiet EXCEPT ![w] = TRUE]
  /\ UNCHANGED backend

\* A change that met no other has settled what its key holds.
Settle(w, what) ==
  settled' = IF quiet[w] THEN [settled EXCEPT ![key[w]] = what] ELSE settled

Raise(w, from) == Return(w, from, "raised") /\ UNCHANGED <<files, handle, settled>>

-----------------------------------------------------------------------------
(* put_bytes *)

\* The parent directories are made, or there already.
BeginPut(w, k, d) ==
  /\ Call(w, k, "open", "s3Put")
  /\ Change(w, k)
  /\ data' = [data EXCEPT ![w] = d]

\* write_bytes opens: the file is created, or cut to nothing.
Open(w) ==
  /\ Goto(w, "open", "write")
  /\ files' = [files EXCEPT ![key[w]] = Torn]
  /\ handle' = [handle EXCEPT ![w] = "sole"]

\* ... and writes.  Two writers of one file may leave a mixture; what is
\* written to a file that was deleted goes with it.
Write(w) ==
  LET k == key[w] IN
  /\ Return(w, "write", "ok")
  /\ Settle(w, data[w])
  /\ \/ handle[w] = "unlinked" /\ UNCHANGED files
     \/ handle[w] \in {"sole", "shared"} /\ files' = [files EXCEPT ![k] = data[w]]
     \/ handle[w] = "shared" /\ files' = [files EXCEPT ![k] = Torn]
  /\ handle' = [v \in Workers |->
       IF v # w /\ pc[v] = "write" /\ key[v] = k /\ handle[v] = "sole"
            /\ handle[w] # "unlinked"
       THEN "shared" ELSE handle[v]]

-----------------------------------------------------------------------------
(* get_bytes and head *)

BeginGet(w, k) == Call(w, k, "getCheck", "s3Get") /\ Look(w, k)

GetCheck(w) ==
  \/ /\ Goto(w, "getCheck", "getRead")
     /\ files[key[w]] # None
     /\ UNCHANGED <<files, handle>>
  \/ Raise(w, "getCheck") /\ files[key[w]] = None

\* A file that is gone since the check makes open raise, as if it never was.
GetRead(w) ==
  \/ /\ Return(w, "getRead", files[key[w]])
     /\ files[key[w]] # None
     /\ UNCHANGED <<files, handle, settled>>
  \/ Raise(w, "getRead") /\ files[key[w]] = None

BeginHead(w, k) == Call(w, k, "headCheck", "s3Head") /\ Look(w, k)

HeadCheck(w) ==
  \/ /\ Goto(w, "headCheck", "headStat")
     /\ files[key[w]] # None
     /\ UNCHANGED <<files, handle>>
  \/ /\ Return(w, "headCheck", None)
     /\ files[key[w]] = None
     /\ UNCHANGED <<files, handle, settled>>

\* A file that is gone since the check makes stat raise: no None then.
HeadStat(w) ==
  \/ /\ Return(w, "headStat", files[key[w]])
     /\ files[key[w]] # None
     /\ UNCHANGED <<files, handle, settled>>
  \/ Raise(w, "headStat") /\ files[key[w]] = None

-----------------------------------------------------------------------------
(* delete *)

BeginDelete(w, k) ==
  /\ Call(w, k, "isFile", "s3Delete")
  /\ Change(w, k)
  /\ UNCHANGED data

\* Without the file only rmtree is left, which ignores that there is no tree.
DeleteCheck(w) ==
  \/ /\ Goto(w, "isFile", "unlink")
     /\ files[key[w]] # None
     /\ UNCHANGED <<files, handle>>
  \/ /\ Return(w, "isFile", "ok")
     /\ files[key[w]] = None
     /\ Settle(w, None)
     /\ UNCHANGED <<files, handle>>

\* The file loses its name; who is writing to it writes to nobody.
Unlink(w) ==
  \/ /\ Return(w, "unlink", "ok")
     /\ files[key[w]] # None
     /\ Settle(w, None)
     /\ files' = [files EXCEPT ![key[w]] = None]
     /\ handle' = [v \in Workers |->
          IF pc[v] = "write" /\ key[v] = key[w] THEN "unlinked" ELSE handle[v]]
  \/ Raise(w, "unlink") /\ files[key[w]] = None

-----------------------------------------------------------------------------
(* S3ObjectStorage: a request is atomic. *)

RemotePut(w) ==
  /\ Return(w, "s3Put", "ok")
  /\ Settle(w, data[w])
  /\ files' = [files EXCEPT ![key[w]] = data[w]]
  /\ UNCHANGED handle

RemoteGet(w) ==
  \/ /\ Return(w, "s3Get", files[key[w]])
     /\ files[key[w]] # None
     /\ UNCHANGED <<files, handle, settled>>
  \/ Raise(w, "s3Get") /\ files[key[w]] = None

RemoteHead(w) ==
  /\ Return(w, "s3Head", files[key[w]])
  /\ UNCHANGED <<files, handle, settled>>

RemoteDelete(w) ==
  /\ Return(w, "s3Delete", "ok")
  /\ Settle(w, None)
  /\ files' = [files EXCEPT ![key[w]] = None]
  /\ UNCHANGED handle

\* A request whose answer is lost may have been carried out.  The caller gets
\* the exception, but a delete returns as if it had succeeded.
RemoteFail(w) ==
  /\ \/ /\ pc[w] \in {"s3Put", "s3Get", "s3Head"}
        /\ Return(w, pc[w], "outage")
     \/ Return(w, "s3Delete", "ok")
  /\ \/ UNCHANGED files
     \/ pc[w] = "s3Put" /\ files' = [files EXCEPT ![key[w]] = data[w]]
     \/ pc[w] = "s3Delete" /\ files' = [files EXCEPT ![key[w]] = None]
  /\ UNCHANGED <<handle, settled>>

-----------------------------------------------------------------------------

\* The process ends: calls stop where they are, and files stay as they are.
Crash ==
  /\ pc' = [w \in Workers |-> "idle"]
  /\ data' = [w \in Workers |-> None]
  /\ handle' = [w \in Workers |-> "none"]
  /\ key' = [w \in Workers |-> None]
  /\ result' = [w \in Workers |-> "none"]
  /\ quiet' = [w \in Workers |-> TRUE]
  /\ UNCHANGED <<backend, files, settled>>

LocalStep(w) ==
  \/ Open(w) \/ Write(w) \/ GetCheck(w) \/ GetRead(w)
  \/ HeadCheck(w) \/ HeadStat(w) \/ DeleteCheck(w) \/ Unlink(w)

RemoteStep(w) ==
  \/ RemotePut(w) \/ RemoteGet(w) \/ RemoteHead(w) \/ RemoteDelete(w)
  \/ RemoteFail(w)

Begin(w, k) ==
  \/ \E d \in Data : BeginPut(w, k, d)
  \/ BeginGet(w, k) \/ BeginHead(w, k) \/ BeginDelete(w, k)

Next ==
  \/ \E w \in Workers : LocalStep(w) \/ RemoteStep(w) \/ \E k \in Keys : Begin(w, k)
  \/ Crash

Spec == Init /\ [][Next]_vars

-----------------------------------------------------------------------------

\* What a put or a delete achieved stays until the next one of that key
\* begins, whatever is done to other keys, fails or is cut off.
SettledIsStored ==
  \A k \in Keys : settled[k] # "unsettled" => files[k] = settled[k]

\* What a call that returns in this step may not do, if it was quiet.
EndsWell(w) ==
  result[w] = "none" /\ result'[w] \notin {"none", "outage"} /\ quiet[w] =>
    /\ result'[w] = "raised" => pc[w] \in Get /\ files[key[w]] = None
    /\ pc[w] \in Reading /\ settled[key[w]] \in Data => result'[w] = settled[key[w]]
    /\ pc[w] \in Put => files'[key[w]] = data[w]
    /\ pc[w] \in Delete /\ backend = "local" => files'[key[w]] = None

\* "S3/MinIO is swappable": a call that met no put or delete of its key goes
\* as a map would have it, on either backend.  Only a get may raise, for want
\* of an object, and a settled object is read whole.
QuietCallsAgree == [][\A w \in Workers : EndsWell(w)]_vars

Port == INSTANCE ObjectStore WITH contents <- files

\* Every step of either backend touches one object at most.
ImplementsPort == Port!Spec
=============================================================================
