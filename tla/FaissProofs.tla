----------------------------- MODULE FaissProofs -----------------------------
(***************************************************************************)
(* What FAISSVectorStore keeps when one thread at a time calls it and the  *)
(* process does not die inside a save: the three lists agree between       *)
(* calls, a search beside an add names what it found, and every call is    *)
(* one step of the contract VectorIndex.  For any documents and any number *)
(* of chunks.  (Without these two conditions the claims are false: the run *)
(* faiss_threads shows it for two threads.)  And what HybridRanking makes  *)
(* of the results of a search, for any of them, any rows and any scores.   *)
(***************************************************************************)
EXTENDS VectorSearch, HybridRanking, SelectionProofs, FiniteSetTheorems, TLAPS

Distinct(seq) == \A j, k \in DOMAIN seq : seq[j] = seq[k] => j = k

-----------------------------------------------------------------------------
(* Lemmas about the lists *)

\* The list of a document's chunks is a sequence of ids without repetitions,
\* and has the document's ids and no other.
LEMMA ChunkListIs ==
  ASSUME NEW d \in Docs
  PROVE  /\ ChunkList(d) \in Seq(Id)
         /\ Distinct(ChunkList(d))
         /\ Elements(ChunkList(d)) = ChunksOf(d)
<1> DEFINE s == ChunkList(d)
<1>1. s \in [1..ChunkCount -> Id] /\ \A k \in 1..ChunkCount : s[k] = <<d, k>>
  BY DEF ChunkList, Id
<1> HIDE DEF s
<1>2. s \in Seq(Id)
  BY <1>1, ChunkCountAssumption
<1>3. DOMAIN s = 1..ChunkCount
  BY <1>1
<1>4. Distinct(s)
  BY <1>1, <1>3 DEF Distinct
<1>5. Elements(s) = ChunksOf(d)
  BY <1>1, <1>3 DEF Elements, ChunksOf
<1>6. QED
  BY <1>2, <1>4, <1>5 DEF s

\* What a list has after another list is added to it.
LEMMA Joined ==
  ASSUME NEW s \in Seq(Id), NEW t \in Seq(Id)
  PROVE  /\ s \o t \in Seq(Id)
         /\ Elements(s \o t) = Elements(s) \cup Elements(t)
         /\ Distinct(s) /\ Distinct(t) /\ Elements(s) \cap Elements(t) = {} => Distinct(s \o t)
<1> DEFINE r == s \o t
<1>1. /\ r \in Seq(Id)
      /\ Len(r) = Len(s) + Len(t)
      /\ Len(s) \in Nat /\ Len(t) \in Nat
      /\ DOMAIN s = 1..Len(s) /\ DOMAIN t = 1..Len(t) /\ DOMAIN r = 1..Len(r)
      /\ \A k \in 1..Len(s) : r[k] = s[k]
      /\ \A k \in 1..Len(t) : r[Len(s) + k] = t[k]
  OBVIOUS
<1> HIDE DEF r
<1>2. \A k \in DOMAIN r : \/ k \in DOMAIN s /\ r[k] = s[k]
                          \/ k - Len(s) \in DOMAIN t /\ r[k] = t[k - Len(s)]
  <2> SUFFICES ASSUME NEW k \in DOMAIN r, k \notin DOMAIN s
               PROVE  k - Len(s) \in DOMAIN t /\ r[k] = t[k - Len(s)]
    BY <1>1
  <2>1. k - Len(s) \in 1..Len(t) /\ Len(s) + (k - Len(s)) = k
    BY <1>1
  <2>2. QED
    BY <1>1, <2>1
<1>3. /\ DOMAIN s \subseteq DOMAIN r
      /\ \A k \in DOMAIN t : Len(s) + k \in DOMAIN r
  BY <1>1
<1>4. Elements(r) = Elements(s) \cup Elements(t)
  BY <1>1, <1>2, <1>3 DEF Elements
<1>5. ASSUME Distinct(s), Distinct(t), Elements(s) \cap Elements(t) = {}
      PROVE  Distinct(r)
  <2> SUFFICES ASSUME NEW j \in DOMAIN r, NEW k \in DOMAIN r, r[j] = r[k]
               PROVE  j = k
    BY DEF Distinct
  <2>1. \A m \in DOMAIN s, n \in DOMAIN t : s[m] # t[n]
    BY <1>5 DEF Elements
  <2>2. \/ j \in DOMAIN s /\ k \in DOMAIN s /\ s[j] = s[k]
        \/ /\ j - Len(s) \in DOMAIN t /\ k - Len(s) \in DOMAIN t
           /\ t[j - Len(s)] = t[k - Len(s)]
    BY <1>2, <2>1
  <2>3. CASE j \in DOMAIN s /\ k \in DOMAIN s /\ s[j] = s[k]
    BY <2>3, <1>5 DEF Distinct
  <2>4. CASE /\ j - Len(s) \in DOMAIN t /\ k - Len(s) \in DOMAIN t
             /\ t[j - Len(s)] = t[k - Len(s)]
    <3>1. j - Len(s) = k - Len(s)
      BY <2>4, <1>5 DEF Distinct
    <3>2. QED
      BY <3>1, <1>1
  <2>5. QED
    BY <2>2, <2>3, <2>4
<1>6. QED
  BY <1>1, <1>4, <1>5 DEF r

\* A list without repetitions is as long as the set of its elements is large.
LEMMA DistinctCounts ==
  ASSUME NEW s \in Seq(Id), Distinct(s)
  PROVE  Cardinality(Elements(s)) = Len(s)
<1>1. DOMAIN s = 1..Len(s) /\ Len(s) \in Nat
  OBVIOUS
<1>2. IsFiniteSet(1..Len(s)) /\ Cardinality(1..Len(s)) = Len(s)
  BY <1>1, FS_Interval
<1>3. s \in Bijection(1..Len(s), Elements(s))
  <2>1. s \in [1..Len(s) -> Elements(s)]
    <3>1. s = [k \in 1..Len(s) |-> s[k]]
      BY <1>1
    <3>2. \A k \in 1..Len(s) : s[k] \in Elements(s)
      BY <1>1 DEF Elements
    <3>3. QED
      BY <3>1, <3>2
  <2>2. s \in Injection(1..Len(s), Elements(s))
    BY <1>1, <2>1 DEF Injection, IsInjective, Distinct
  <2>3. s \in Surjection(1..Len(s), Elements(s))
    BY <1>1, <2>1 DEF Surjection, Elements
  <2>4. QED
    BY <2>2, <2>3 DEF Bijection
<1>4. QED
  BY <1>2, <1>3, FS_Bijection DEF ExistsBijection

\* The ids that delete keeps: those of other documents, once each, in order.
LEMMA KeptIs ==
  ASSUME NEW w, ids \in Seq(Id), Distinct(ids)
  PROVE  LET kept == Selected(ids, KeptPositions(w))
         IN  /\ kept \in Seq(Id)
             /\ Distinct(kept)
             /\ Elements(kept) = Elements(ids) \ ChunksOf(doc[w])
<1>1. Selected(ids, KeptPositions(w)) \in Seq(Id)
  BY SelectedPicks
<1>2. Distinct(Selected(ids, KeptPositions(w)))
  <2>1. \A j, k \in DOMAIN ids : ids[j] = ids[k] => j = k
    BY DEF Distinct
  <2>2. QED
    BY <2>1, SelectedInjective DEF Distinct
<1>3. Elements(Selected(ids, KeptPositions(w))) = {ids[k] : k \in DOMAIN ids \cap KeptPositions(w)}
  BY SelectedElements DEF Elements
<1>4. {ids[k] : k \in DOMAIN ids \cap KeptPositions(w)} = Elements(ids) \ ChunksOf(doc[w])
  BY DEF Elements, KeptPositions, Kept
<1>5. QED
  BY <1>1, <1>2, <1>3, <1>4

\* _load pads the ids of a shorter sidecar; one that is as long is left alone.
LEMMA PaddedIsItself ==
  ASSUME NEW s \in Seq(Id)
  PROVE  Padded(s, Len(s)) = s
<1>1. Len(s) \in Nat /\ s = [k \in 1..Len(s) |-> s[k]]
  OBVIOUS
<1>2. \A k \in 1..Len(s) : k <= Len(s)
  BY <1>1
<1>3. Padded(s, Len(s)) = [k \in 1..Len(s) |-> s[k]]
  BY <1>1, <1>2 DEF Padded
<1>4. QED
  BY <1>1, <1>3

\* The first ids of a longer list are those of the shorter one.
LEMMA PrefixAgrees ==
  ASSUME NEW s \in Seq(Id), NEW t \in Seq(Id)
  PROVE  \A k \in 1..Shorter(Len(s \o t), Len(s)) : s[k] = (s \o t)[k]
BY DEF Shorter

-----------------------------------------------------------------------------
(* One thread, no crash inside a save *)

\* Where the three lists stand at each statement of add and delete.
ListsAt(w) ==
  /\ pc[w] \in {"addVectors", "addIds"} => index = ids \o ChunkList(doc[w])
  /\ pc[w] = "addIds" => vectors = ids \o ChunkList(doc[w])
  /\ pc[w] = "assignVectors" => vectors = index
  /\ pc[w] \notin {"addVectors", "addIds", "assignVectors", "rebuild", "swap"} => index = ids
  /\ pc[w] \notin {"addIds", "assignVectors"} => vectors = ids

\* What delete holds in its locals: first what ids will be, then what ids is.
LocalsAt(w) ==
  /\ pc[w] \in {"filterVectors", "assignIds"} => keepIds[w] = Selected(ids, KeptPositions(w))
  /\ pc[w] = "assignIds" => keepVectors[w] = keepIds[w]
  /\ pc[w] \in {"assignVectors", "rebuild", "swap"} => keepVectors[w] = ids

\* A document that is being added has no id in the registry yet.
DocAt(w) ==
  /\ pc[w] \in {"addIndex", "addVectors", "addIds", "select", "filterIds",
                "filterVectors", "assignIds"} => doc[w] \in Docs
  /\ pc[w] \in {"addIndex", "addVectors", "addIds"} =>
       /\ doc[w] \in added
       /\ Elements(ids) \cap ChunksOf(doc[w]) = {}

\* The two files hold the same list, except between the writes of a save.
FilesAt(w) ==
  /\ pc[w] = "writeIndex" <=> indexFile = Torn
  /\ pc[w] = "writeIds" <=> idsFile = Torn
  /\ pc[w] \in {"openIds", "writeIds"} => indexFile = index
  /\ pc[w] \notin {"writeIndex", "openIds", "writeIds"} => indexFile = idsFile

\* A registry, or a saved one: ids of added documents, without repetitions.
Registry(seq) ==
  /\ seq \in Seq(Id)
  /\ Distinct(seq)
  /\ Elements(seq) \subseteq added \X (1..ChunkCount)

Serial(w) ==
  /\ TypeOK
  /\ up
  /\ Registry(ids)
  /\ idsFile \notin {None, Torn} => Registry(idsFile)
  /\ ListsAt(w)
  /\ LocalsAt(w)
  /\ DocAt(w)
  /\ FilesAt(w)

\* The first state.
LEMMA SerialInit ==
  ASSUME NEW w, Workers = {w}, Init
  PROVE  Serial(w)
<1>1. <<>> \in Seq(Id) /\ DOMAIN <<>> = {}
  OBVIOUS
<1>2. Registry(<<>>)
  BY <1>1 DEF Registry, Distinct, Elements
<1>3. TypeOK
  BY <1>1 DEF Init, TypeOK, Step
<1>4. None # Torn
  BY FilesAssumption
<1>5. pc[w] = "idle" /\ index = ids /\ vectors = ids /\ indexFile = idsFile /\ idsFile = None
  BY DEF Init
<1>6. ListsAt(w) /\ LocalsAt(w) /\ DocAt(w) /\ FilesAt(w)
  BY <1>4, <1>5 DEF ListsAt, LocalsAt, DocAt, FilesAt
<1>7. QED
  BY <1>2, <1>3, <1>5, <1>6 DEF Serial, Init

\* add keeps the invariant.
LEMMA AddKeeps ==
  ASSUME NEW w, Workers = {w}, Serial(w),
         \/ \E d \in Docs : BeginAdd(w, d)
         \/ AddIndex(w) \/ AddVectors(w) \/ AddIds(w)
  PROVE  Serial(w)'
<1>1. /\ TypeOK /\ up /\ Registry(ids) /\ (idsFile \notin {None, Torn} => Registry(idsFile))
      /\ ListsAt(w) /\ LocalsAt(w) /\ DocAt(w) /\ FilesAt(w)
  BY DEF Serial
<1>2. ASSUME NEW d \in Docs, BeginAdd(w, d)
      PROVE  Serial(w)'
  <2>1. /\ pc[w] = "idle" /\ d \notin added
        /\ pc' = [pc EXCEPT ![w] = "addIndex"] /\ doc' = [doc EXCEPT ![w] = d]
        /\ added' = added \cup {d}
        /\ UNCHANGED <<lists, files, up, locals>>
    BY <1>2 DEF BeginAdd, Call, Goto
  <2>2. TypeOK'
    BY <1>1, <2>1 DEF TypeOK, Step, lists, files, locals
  <2>3. pc'[w] = "addIndex" /\ doc'[w] = d
    BY <1>1, <2>1 DEF TypeOK
  <2>4. Registry(ids)' /\ (idsFile \notin {None, Torn} => Registry(idsFile))'
    BY <1>1, <2>1 DEF Registry, Elements, Distinct, lists, files
  <2>5. Elements(ids)' \cap ChunksOf(d) = {}
    BY <1>1, <2>1 DEF Registry, Elements, ChunksOf, lists
  <2>6. ListsAt(w)' /\ LocalsAt(w)' /\ FilesAt(w)'
    BY <1>1, <2>1, <2>3 DEF ListsAt, LocalsAt, FilesAt, lists, files, locals
  <2>7. DocAt(w)'
    BY <2>1, <2>3, <2>5 DEF DocAt, ChunksOf
  <2>8. QED
    BY <1>1, <2>1, <2>2, <2>4, <2>6, <2>7 DEF Serial
<1>3. CASE AddIndex(w)
  <2>1. /\ pc[w] = "addIndex" /\ pc' = [pc EXCEPT ![w] = "addVectors"]
        /\ index' = index \o ChunkList(doc[w])
        /\ UNCHANGED <<vectors, ids, files, up, added, doc, locals>>
    BY <1>3 DEF AddIndex, Goto
  <2>2. pc'[w] = "addVectors"
    BY <1>1, <2>1 DEF TypeOK
  <2>3. index = ids /\ vectors = ids /\ doc[w] \in Docs
    BY <1>1, <2>1 DEF ListsAt, DocAt
  <2>4. TypeOK'
    <3>1. index' \in Seq(Id)
      BY <1>1, <2>1, <2>3, ChunkListIs, Joined DEF TypeOK
    <3>2. QED
      BY <1>1, <2>1, <3>1 DEF TypeOK, Step, files, locals
  <2>5. Registry(ids)' /\ (idsFile \notin {None, Torn} => Registry(idsFile))'
    BY <1>1, <2>1 DEF Registry, Elements, Distinct, files
  <2>6. ListsAt(w)' /\ LocalsAt(w)' /\ FilesAt(w)'
    BY <1>1, <2>1, <2>2, <2>3 DEF ListsAt, LocalsAt, FilesAt, ChunkList, files, locals
  <2>7. DocAt(w)'
    BY <1>1, <2>1, <2>2 DEF DocAt, ChunksOf, Elements
  <2>8. QED
    BY <1>1, <2>1, <2>4, <2>5, <2>6, <2>7 DEF Serial
<1>4. CASE AddVectors(w)
  <2>1. /\ pc[w] = "addVectors" /\ pc' = [pc EXCEPT ![w] = "addIds"]
        /\ vectors' = vectors \o ChunkList(doc[w])
        /\ UNCHANGED <<index, ids, files, up, added, doc, keepIds, listOwner>>
    BY <1>4 DEF AddVectors, Goto
  <2>2. pc'[w] = "addIds"
    BY <1>1, <2>1 DEF TypeOK
  <2>3. vectors = ids /\ index = ids \o ChunkList(doc[w]) /\ doc[w] \in Docs
    BY <1>1, <2>1 DEF ListsAt, DocAt
  <2>4. keepVectors' = keepVectors
    <3>1. keepVectors' = [v \in Workers |-> keepVectors[v]]
      BY <1>4, <2>1 DEF AddVectors
    <3>2. QED
      BY <1>1, <3>1 DEF TypeOK
  <2>5. TypeOK'
    <3>1. vectors' \in Seq(Id)
      BY <1>1, <2>1, <2>3, ChunkListIs, Joined DEF TypeOK
    <3>2. QED
      BY <1>1, <2>1, <2>4, <3>1 DEF TypeOK, Step, files
  <2>6. Registry(ids)' /\ (idsFile \notin {None, Torn} => Registry(idsFile))'
    BY <1>1, <2>1 DEF Registry, Elements, Distinct, files
  <2>7. ListsAt(w)' /\ LocalsAt(w)' /\ FilesAt(w)'
    BY <1>1, <2>1, <2>2, <2>3 DEF ListsAt, LocalsAt, FilesAt, ChunkList, files
  <2>8. DocAt(w)'
    BY <1>1, <2>1, <2>2 DEF DocAt, ChunksOf, Elements
  <2>9. QED
    BY <1>1, <2>1, <2>5, <2>6, <2>7, <2>8 DEF Serial
<1>5. CASE AddIds(w)
  <2>1. /\ pc[w] = "addIds" /\ pc' = [pc EXCEPT ![w] = "idle"]
        /\ doc' = [doc EXCEPT ![w] = None]
        /\ ids' = ids \o ChunkList(doc[w])
        /\ UNCHANGED <<index, vectors, files, up, added, locals>>
    BY <1>5 DEF AddIds, Finish, Goto
  <2>2. pc'[w] = "idle"
    BY <1>1, <2>1 DEF TypeOK
  <2>3. /\ index = ids' /\ vectors = ids'
        /\ doc[w] \in Docs /\ doc[w] \in added
        /\ Elements(ids) \cap ChunksOf(doc[w]) = {}
    BY <1>1, <2>1 DEF ListsAt, DocAt
  <2>4. ids' \in Seq(Id) /\ Distinct(ids)' /\ Elements(ids)' = Elements(ids) \cup ChunksOf(doc[w])
    <3> DEFINE t == ChunkList(doc[w])
    <3>1. t \in Seq(Id) /\ Distinct(t) /\ Elements(t) = ChunksOf(doc[w])
      BY <2>3, ChunkListIs
    <3>2. ids' = ids \o t
      BY <2>1
    <3> HIDE DEF t
    <3>3. /\ ids \o t \in Seq(Id) /\ Distinct(ids \o t)
          /\ Elements(ids \o t) = Elements(ids) \cup ChunksOf(doc[w])
      BY <1>1, <2>3, <3>1, Joined DEF Registry
    <3>4. QED
      BY <3>2, <3>3 DEF Distinct, Elements
  <2>5. TypeOK'
    BY <1>1, <2>1, <2>4 DEF TypeOK, Step, files, locals
  <2>6. Registry(ids)'
    BY <1>1, <2>1, <2>3, <2>4 DEF Registry, ChunksOf
  <2>7. (idsFile \notin {None, Torn} => Registry(idsFile))'
    BY <1>1, <2>1 DEF Registry, Elements, Distinct, files
  <2>8. ListsAt(w)' /\ LocalsAt(w)' /\ FilesAt(w)' /\ DocAt(w)'
    BY <1>1, <2>1, <2>2, <2>3 DEF ListsAt, LocalsAt, FilesAt, DocAt, files, locals
  <2>9. QED
    BY <1>1, <2>1, <2>5, <2>6, <2>7, <2>8 DEF Serial
<1>6. QED
  BY <1>2, <1>3, <1>4, <1>5

\* delete_by_prefix keeps the invariant.
LEMMA DeleteKeeps ==
  ASSUME NEW w, Workers = {w}, Serial(w),
         \/ \E d \in Docs : BeginDelete(w, d)
         \/ Select(w) \/ FilterIds(w) \/ FilterVectors(w)
         \/ AssignIds(w) \/ AssignVectors(w) \/ Rebuild(w) \/ Swap(w)
  PROVE  Serial(w)'
<1>1. /\ TypeOK /\ up /\ Registry(ids) /\ (idsFile \notin {None, Torn} => Registry(idsFile))
      /\ ListsAt(w) /\ LocalsAt(w) /\ DocAt(w) /\ FilesAt(w)
  BY DEF Serial
<1>2. ASSUME NEW d \in Docs, BeginDelete(w, d)
      PROVE  Serial(w)'
  <2>1. /\ pc[w] = "idle"
        /\ pc' = [pc EXCEPT ![w] = "select"] /\ doc' = [doc EXCEPT ![w] = d]
        /\ UNCHANGED <<lists, files, up, added, locals>>
    BY <1>2 DEF BeginDelete, Call, Goto
  <2>2. pc'[w] = "select" /\ doc'[w] = d
    BY <1>1, <2>1 DEF TypeOK
  <2>3. TypeOK'
    BY <1>1, <2>1 DEF TypeOK, Step, lists, files, locals
  <2>4. Registry(ids)' /\ (idsFile \notin {None, Torn} => Registry(idsFile))'
    BY <1>1, <2>1 DEF Registry, Elements, Distinct, lists, files
  <2>5. ListsAt(w)' /\ LocalsAt(w)' /\ FilesAt(w)' /\ DocAt(w)'
    BY <1>1, <2>1, <2>2 DEF ListsAt, LocalsAt, FilesAt, DocAt, lists, files, locals
  <2>6. QED
    BY <1>1, <2>1, <2>3, <2>4, <2>5 DEF Serial
<1>3. CASE Select(w)
  <2>1. /\ pc[w] = "select"
        /\ \/ pc' = [pc EXCEPT ![w] = "filterIds"] /\ doc' = doc
           \/ pc' = [pc EXCEPT ![w] = "idle"] /\ doc' = [doc EXCEPT ![w] = None]
        /\ UNCHANGED <<lists, files, up, added, locals>>
    BY <1>3 DEF Select, Goto, Finish
  <2>2. (pc'[w] = "filterIds" /\ doc' = doc) \/ pc'[w] = "idle"
    BY <1>1, <2>1 DEF TypeOK
  <2>3. TypeOK'
    BY <1>1, <2>1 DEF TypeOK, Step, lists, files, locals
  <2>4. Registry(ids)' /\ (idsFile \notin {None, Torn} => Registry(idsFile))'
    BY <1>1, <2>1 DEF Registry, Elements, Distinct, lists, files
  <2>5. ListsAt(w)' /\ LocalsAt(w)' /\ FilesAt(w)' /\ DocAt(w)'
    BY <1>1, <2>1, <2>2 DEF ListsAt, LocalsAt, FilesAt, DocAt, lists, files, locals
  <2>6. QED
    BY <1>1, <2>1, <2>3, <2>4, <2>5 DEF Serial
<1>4. CASE FilterIds(w)
  <2>1. /\ pc[w] = "filterIds" /\ pc' = [pc EXCEPT ![w] = "filterVectors"]
        /\ keepIds' = [keepIds EXCEPT ![w] = Selected(ids, KeptPositions(w))]
        /\ UNCHANGED <<lists, files, up, added, doc, keepVectors, listOwner>>
    BY <1>4 DEF FilterIds, Goto
  <2>2. pc'[w] = "filterVectors" /\ keepIds'[w] = Selected(ids, KeptPositions(w))
    BY <1>1, <2>1 DEF TypeOK
  <2>3. Selected(ids, KeptPositions(w)) \in Seq(Id)
    BY <1>1, KeptIs DEF Registry
  <2>4. TypeOK'
    BY <1>1, <2>1, <2>3 DEF TypeOK, Step, lists, files
  <2>5. Registry(ids)' /\ (idsFile \notin {None, Torn} => Registry(idsFile))'
    BY <1>1, <2>1 DEF Registry, Elements, Distinct, lists, files
  <2>6. ids' = ids /\ KeptPositions(w)' = KeptPositions(w)
    BY <2>1 DEF KeptPositions, Kept, ChunksOf, lists
  <2>7. LocalsAt(w)'
    BY <2>2, <2>6 DEF LocalsAt
  <2>8. ListsAt(w)' /\ FilesAt(w)' /\ DocAt(w)'
    BY <1>1, <2>1, <2>2 DEF ListsAt, FilesAt, DocAt, lists, files
  <2>9. QED
    BY <1>1, <2>1, <2>4, <2>5, <2>7, <2>8 DEF Serial
<1>5. CASE FilterVectors(w)
  <2>1. /\ pc[w] = "filterVectors" /\ pc' = [pc EXCEPT ![w] = "assignIds"]
        /\ keepVectors' = [keepVectors EXCEPT ![w] = KeptVectors(w)]
        /\ UNCHANGED <<lists, files, up, added, doc, keepIds, listOwner>>
    BY <1>5 DEF FilterVectors, Goto
  <2>2. /\ pc'[w] = "assignIds" /\ keepVectors'[w] = KeptVectors(w)
        /\ vectors = ids /\ keepIds[w] = Selected(ids, KeptPositions(w))
    BY <1>1, <2>1 DEF TypeOK, ListsAt, LocalsAt
  <2>3. KeptVectors(w) = Selected(ids, KeptPositions(w))
    BY <2>2 DEF KeptVectors
  <2>4. Selected(ids, KeptPositions(w)) \in Seq(Id)
    BY <1>1, KeptIs DEF Registry
  <2>5. TypeOK'
    BY <1>1, <2>1, <2>3, <2>4 DEF TypeOK, Step, lists, files
  <2>6. Registry(ids)' /\ (idsFile \notin {None, Torn} => Registry(idsFile))'
    BY <1>1, <2>1 DEF Registry, Elements, Distinct, lists, files
  <2>7. ids' = ids /\ KeptPositions(w)' = KeptPositions(w)
    BY <2>1 DEF KeptPositions, Kept, ChunksOf, lists
  <2>8. LocalsAt(w)'
    BY <2>1, <2>2, <2>3, <2>7 DEF LocalsAt
  <2>9. ListsAt(w)' /\ FilesAt(w)' /\ DocAt(w)'
    BY <1>1, <2>1, <2>2 DEF ListsAt, FilesAt, DocAt, lists, files
  <2>10. QED
    BY <1>1, <2>1, <2>5, <2>6, <2>8, <2>9 DEF Serial
<1>6. CASE AssignIds(w)
  <2>1. /\ pc[w] = "assignIds" /\ pc' = [pc EXCEPT ![w] = "assignVectors"]
        /\ ids' = keepIds[w]
        /\ keepIds' = [keepIds EXCEPT ![w] = <<>>]
        /\ UNCHANGED <<index, vectors, files, up, added, doc, keepVectors, listOwner>>
    BY <1>6 DEF AssignIds, Goto
  <2>2. /\ pc'[w] = "assignVectors" /\ index = ids /\ vectors = ids
        /\ keepIds[w] = Selected(ids, KeptPositions(w)) /\ keepVectors[w] = keepIds[w]
    BY <1>1, <2>1 DEF TypeOK, ListsAt, LocalsAt
  <2>3. /\ keepIds[w] \in Seq(Id) /\ Distinct(keepIds[w])
        /\ Elements(keepIds[w]) \subseteq Elements(ids)
    BY <1>1, <2>2, KeptIs DEF Registry
  <2>4. TypeOK'
    <3>1. <<>> \in Seq(Id)
      OBVIOUS
    <3>2. QED
      BY <1>1, <2>1, <2>3, <3>1 DEF TypeOK, Step, files
  <2>5. Registry(ids)'
    <3>1. Elements(keepIds[w]) \subseteq added \X (1..ChunkCount)
      BY <1>1, <2>3 DEF Registry
    <3>2. ids' \in Seq(Id) /\ Distinct(ids)' /\ added' = added
      BY <2>1, <2>3 DEF Distinct
    <3>3. Elements(ids)' = Elements(keepIds[w])
      BY <2>1 DEF Elements
    <3>4. QED
      BY <3>1, <3>2, <3>3 DEF Registry
  <2>6. (idsFile \notin {None, Torn} => Registry(idsFile))'
    BY <1>1, <2>1 DEF Registry, Elements, Distinct, files
  <2>7. ListsAt(w)' /\ LocalsAt(w)' /\ FilesAt(w)' /\ DocAt(w)'
    BY <1>1, <2>1, <2>2 DEF ListsAt, LocalsAt, FilesAt, DocAt, files
  <2>8. QED
    BY <1>1, <2>1, <2>4, <2>5, <2>6, <2>7 DEF Serial
<1>7. CASE AssignVectors(w)
  <2>1. /\ pc[w] = "assignVectors" /\ pc' = [pc EXCEPT ![w] = "rebuild"]
        /\ vectors' = keepVectors[w] /\ listOwner' = w
        /\ UNCHANGED <<index, ids, files, up, added, doc, keepIds, keepVectors>>
    BY <1>7 DEF AssignVectors, Goto
  <2>2. pc'[w] = "rebuild" /\ keepVectors[w] = ids
    BY <1>1, <2>1 DEF TypeOK, LocalsAt
  <2>3. TypeOK'
    BY <1>1, <2>1, <2>2 DEF TypeOK, Step, files
  <2>4. Registry(ids)' /\ (idsFile \notin {None, Torn} => Registry(idsFile))'
    BY <1>1, <2>1 DEF Registry, Elements, Distinct, files
  <2>5. ListsAt(w)' /\ LocalsAt(w)' /\ FilesAt(w)' /\ DocAt(w)'
    BY <1>1, <2>1, <2>2 DEF ListsAt, LocalsAt, FilesAt, DocAt, files
  <2>6. QED
    BY <1>1, <2>1, <2>3, <2>4, <2>5 DEF Serial
<1>8. CASE Rebuild(w)
  <2>1. /\ pc[w] = "rebuild" /\ pc' = [pc EXCEPT ![w] = "swap"]
        /\ UNCHANGED <<lists, files, up, added, doc, locals>>
    BY <1>8 DEF Rebuild, Goto
  <2>2. pc'[w] = "swap" /\ keepVectors[w] = ids
    BY <1>1, <2>1 DEF TypeOK, LocalsAt
  <2>3. TypeOK'
    BY <1>1, <2>1 DEF TypeOK, Step, lists, files, locals
  <2>4. Registry(ids)' /\ (idsFile \notin {None, Torn} => Registry(idsFile))'
    BY <1>1, <2>1 DEF Registry, Elements, Distinct, lists, files
  <2>5. ListsAt(w)' /\ LocalsAt(w)' /\ FilesAt(w)' /\ DocAt(w)'
    BY <1>1, <2>1, <2>2 DEF ListsAt, LocalsAt, FilesAt, DocAt, lists, files, locals
  <2>6. QED
    BY <1>1, <2>1, <2>3, <2>4, <2>5 DEF Serial
<1>9. CASE Swap(w)
  <2>1. /\ pc[w] = "swap" /\ pc' = [pc EXCEPT ![w] = "idle"]
        /\ doc' = [doc EXCEPT ![w] = None]
        /\ index' = keepVectors[w]
        /\ keepVectors' = [keepVectors EXCEPT ![w] = <<>>]
        /\ UNCHANGED <<vectors, ids, files, up, added, keepIds, listOwner>>
    BY <1>9 DEF Swap, Goto, Finish
  <2>2. pc'[w] = "idle" /\ index' = ids /\ vectors = ids
    BY <1>1, <2>1 DEF TypeOK, LocalsAt, ListsAt
  <2>3. TypeOK'
    <3>1. <<>> \in Seq(Id)
      OBVIOUS
    <3>2. QED
      BY <1>1, <2>1, <2>2, <3>1 DEF TypeOK, Step, files
  <2>4. Registry(ids)' /\ (idsFile \notin {None, Torn} => Registry(idsFile))'
    BY <1>1, <2>1 DEF Registry, Elements, Distinct, files
  <2>5. ListsAt(w)' /\ LocalsAt(w)' /\ FilesAt(w)' /\ DocAt(w)'
    BY <1>1, <2>1, <2>2 DEF ListsAt, LocalsAt, FilesAt, DocAt, files
  <2>6. QED
    BY <1>1, <2>1, <2>3, <2>4, <2>5 DEF Serial
<1>10. QED
  BY <1>2, <1>3, <1>4, <1>5, <1>6, <1>7, <1>8, <1>9

\* save keeps the invariant.
LEMMA SaveKeeps ==
  ASSUME NEW w, Workers = {w}, Serial(w),
         BeginSave(w) \/ OpenIndex(w) \/ WriteIndex(w) \/ OpenIds(w) \/ WriteIds(w)
  PROVE  Serial(w)'
<1>1. /\ TypeOK /\ up /\ Registry(ids) /\ (idsFile \notin {None, Torn} => Registry(idsFile))
      /\ ListsAt(w) /\ LocalsAt(w) /\ DocAt(w) /\ FilesAt(w)
  BY DEF Serial
<1>2. Torn # None /\ \A seq \in Seq(Id) : seq \notin {None, Torn}
  BY FilesAssumption
<1>3. CASE BeginSave(w)
  <2>1. /\ pc[w] = "idle" /\ pc' = [pc EXCEPT ![w] = "openIndex"]
        /\ doc' = [doc EXCEPT ![w] = None]
        /\ UNCHANGED <<lists, files, up, added, locals>>
    BY <1>3 DEF BeginSave, Call, Goto
  <2>2. pc'[w] = "openIndex"
    BY <1>1, <2>1 DEF TypeOK
  <2>3. TypeOK'
    BY <1>1, <2>1 DEF TypeOK, Step, lists, files, locals
  <2>4. Registry(ids)' /\ (idsFile \notin {None, Torn} => Registry(idsFile))'
    BY <1>1, <2>1 DEF Registry, Elements, Distinct, lists, files
  <2>5. ListsAt(w)' /\ LocalsAt(w)' /\ FilesAt(w)' /\ DocAt(w)'
    BY <1>1, <2>1, <2>2 DEF ListsAt, LocalsAt, FilesAt, DocAt, lists, files, locals
  <2>6. QED
    BY <1>1, <2>1, <2>3, <2>4, <2>5 DEF Serial
<1>4. CASE OpenIndex(w)
  <2>1. /\ pc[w] = "openIndex" /\ pc' = [pc EXCEPT ![w] = "writeIndex"]
        /\ indexFile' = Torn
        /\ UNCHANGED <<lists, idsFile, up, added, doc, locals>>
    BY <1>4 DEF OpenIndex, Goto
  <2>2. pc'[w] = "writeIndex"
    BY <1>1, <2>1 DEF TypeOK
  <2>3. TypeOK'
    BY <1>1, <2>1 DEF TypeOK, Step, lists, locals
  <2>4. Registry(ids)' /\ (idsFile \notin {None, Torn} => Registry(idsFile))'
    BY <1>1, <2>1 DEF Registry, Elements, Distinct, lists
  <2>5. ListsAt(w)' /\ LocalsAt(w)' /\ FilesAt(w)' /\ DocAt(w)'
    BY <1>1, <2>1, <2>2 DEF ListsAt, LocalsAt, FilesAt, DocAt, lists, locals
  <2>6. QED
    BY <1>1, <2>1, <2>3, <2>4, <2>5 DEF Serial
<1>5. CASE WriteIndex(w)
  <2>1. /\ pc[w] = "writeIndex" /\ pc' = [pc EXCEPT ![w] = "openIds"]
        /\ indexFile' = index
        /\ UNCHANGED <<lists, idsFile, up, added, doc, locals>>
    BY <1>5 DEF WriteIndex, Goto
  <2>2. pc'[w] = "openIds" /\ index \in Seq(Id)
    BY <1>1, <2>1 DEF TypeOK
  <2>3. TypeOK'
    BY <1>1, <2>1 DEF TypeOK, Step, lists, locals
  <2>4. Registry(ids)' /\ (idsFile \notin {None, Torn} => Registry(idsFile))'
    BY <1>1, <2>1 DEF Registry, Elements, Distinct, lists
  <2>5. ListsAt(w)' /\ LocalsAt(w)' /\ FilesAt(w)' /\ DocAt(w)'
    BY <1>1, <1>2, <2>1, <2>2 DEF ListsAt, LocalsAt, FilesAt, DocAt, lists, locals
  <2>6. QED
    BY <1>1, <2>1, <2>3, <2>4, <2>5 DEF Serial
<1>6. CASE OpenIds(w)
  <2>1. /\ pc[w] = "openIds" /\ pc' = [pc EXCEPT ![w] = "writeIds"]
        /\ idsFile' = Torn
        /\ UNCHANGED <<lists, indexFile, up, added, doc, locals>>
    BY <1>6 DEF OpenIds, Goto
  <2>2. pc'[w] = "writeIds"
    BY <1>1, <2>1 DEF TypeOK
  <2>3. TypeOK'
    BY <1>1, <2>1 DEF TypeOK, Step, lists, locals
  <2>4. Registry(ids)' /\ (idsFile \notin {None, Torn} => Registry(idsFile))'
    BY <1>1, <2>1 DEF Registry, Elements, Distinct, lists
  <2>5. ListsAt(w)' /\ LocalsAt(w)' /\ FilesAt(w)' /\ DocAt(w)'
    BY <1>1, <2>1, <2>2 DEF ListsAt, LocalsAt, FilesAt, DocAt, lists, locals
  <2>6. QED
    BY <1>1, <2>1, <2>3, <2>4, <2>5 DEF Serial
<1>7. CASE WriteIds(w)
  <2>1. /\ pc[w] = "writeIds" /\ pc' = [pc EXCEPT ![w] = "idle"]
        /\ doc' = [doc EXCEPT ![w] = None]
        /\ idsFile' = ids
        /\ UNCHANGED <<lists, indexFile, up, added, locals>>
    BY <1>7 DEF WriteIds, Goto, Finish
  <2>2. pc'[w] = "idle" /\ ids \in Seq(Id) /\ index = ids /\ indexFile = index
    BY <1>1, <2>1 DEF TypeOK, ListsAt, FilesAt
  <2>3. TypeOK'
    BY <1>1, <2>1 DEF TypeOK, Step, lists, locals
  <2>4. Registry(ids)' /\ (idsFile \notin {None, Torn} => Registry(idsFile))'
    BY <1>1, <2>1 DEF Registry, Elements, Distinct, lists
  <2>5. ListsAt(w)' /\ LocalsAt(w)' /\ FilesAt(w)' /\ DocAt(w)'
    BY <1>1, <1>2, <2>1, <2>2 DEF ListsAt, LocalsAt, FilesAt, DocAt, lists, locals
  <2>6. QED
    BY <1>1, <2>1, <2>3, <2>4, <2>5 DEF Serial
<1>8. QED
  BY <1>3, <1>4, <1>5, <1>6, <1>7

\* A restart outside a save finds what was saved, and comes up.
LEMMA RestartReads ==
  ASSUME NEW w, Workers = {w}, Crashes # "anywhere", Serial(w), Restart
  PROVE  /\ ~Saving(w) /\ up'
         /\ idsFile = None => ids' = <<>>
         /\ idsFile # None => ids' = idsFile /\ Registry(idsFile)
         /\ index' = ids' /\ vectors' = ids'
<1>1. TypeOK /\ FilesAt(w) /\ (idsFile \notin {None, Torn} => Registry(idsFile))
  BY DEF Serial
<1>2. ~Saving(w)
  BY DEF Restart
<1>3. indexFile = idsFile /\ idsFile # Torn
  BY <1>1, <1>2 DEF FilesAt, Saving
<1>4. up' = TRUE
  BY <1>3 DEF Restart
<1>5. ids' = LoadedIds /\ vectors' = index' /\ index' = IF indexFile # None THEN indexFile ELSE <<>>
  BY <1>4 DEF Restart
<1>6. CASE idsFile = None
  BY <1>2, <1>3, <1>4, <1>5, <1>6 DEF LoadedIds
<1>7. CASE idsFile # None
  <2>1. Registry(idsFile) /\ idsFile \in Seq(Id)
    BY <1>1, <1>3, <1>7 DEF Registry
  <2>2. LoadedIds = Padded(idsFile, Len(idsFile))
    BY <1>3, <1>7 DEF LoadedIds
  <2>3. LoadedIds = idsFile
    BY <2>1, <2>2, PaddedIsItself
  <2>4. QED
    BY <1>2, <1>3, <1>4, <1>5, <1>7, <2>1, <2>3
<1>8. QED
  BY <1>6, <1>7

LEMMA RestartKeeps ==
  ASSUME NEW w, Workers = {w}, Crashes # "anywhere", Serial(w), Restart
  PROVE  Serial(w)'
<1>1. TypeOK /\ FilesAt(w) /\ (idsFile \notin {None, Torn} => Registry(idsFile))
  BY DEF Serial
<1>2. /\ ~Saving(w) /\ up'
      /\ idsFile = None => ids' = <<>>
      /\ idsFile # None => ids' = idsFile /\ Registry(idsFile)
      /\ index' = ids' /\ vectors' = ids'
  BY RestartReads
<1>3. /\ pc' = [v \in Workers |-> "idle"] /\ doc' = [v \in Workers |-> None]
      /\ keepIds' = [v \in Workers |-> <<>>] /\ keepVectors' = [v \in Workers |-> <<>>]
      /\ listOwner' = None
      /\ UNCHANGED <<files, added>>
  BY DEF Restart
<1>4. pc'[w] = "idle"
  BY <1>3
<1>5. /\ ids' \in Seq(Id) /\ Distinct(ids)'
      /\ Elements(ids)' \subseteq added \X (1..ChunkCount)
  <2>1. <<>> \in Seq(Id) /\ DOMAIN <<>> = {}
    OBVIOUS
  <2>2. QED
    BY <1>2, <2>1 DEF Registry, Distinct, Elements
<1>6. TypeOK'
  <2>1. <<>> \in Seq(Id)
    OBVIOUS
  <2>2. up' \in BOOLEAN
    BY <1>2 DEF Restart
  <2>3. /\ index' \in Seq(Id) /\ vectors' \in Seq(Id) /\ ids' \in Seq(Id)
        /\ keepIds' \in [Workers -> Seq(Id)] /\ keepVectors' \in [Workers -> Seq(Id)]
        /\ pc' \in [Workers -> Step] /\ doc' \in [Workers -> Docs \cup {None}]
        /\ listOwner' \in Workers \cup {None}
    BY <1>2, <1>3, <1>5, <2>1 DEF Step
  <2>4. QED
    BY <1>1, <1>3, <2>2, <2>3 DEF TypeOK, files
<1>7. Registry(ids)'
  BY <1>3, <1>5 DEF Registry
<1>8. (idsFile \notin {None, Torn} => Registry(idsFile))'
  BY <1>1, <1>3 DEF Registry, Elements, Distinct, files
<1>9. ListsAt(w)' /\ LocalsAt(w)' /\ DocAt(w)'
  BY <1>2, <1>4 DEF ListsAt, LocalsAt, DocAt
<1>10. FilesAt(w)'
  BY <1>1, <1>2, <1>3, <1>4 DEF FilesAt, Saving, files
<1>11. QED
  BY <1>2, <1>6, <1>7, <1>8, <1>9, <1>10 DEF Serial

-----------------------------------------------------------------------------
(* The invariant, and what follows from it *)

LEMMA SerialStep ==
  ASSUME NEW w, Workers = {w}, Crashes # "anywhere", Serial(w), [Next]_vars
  PROVE  Serial(w)'
<1>1. CASE UNCHANGED vars
  <2>1. /\ TypeOK /\ up /\ Registry(ids) /\ (idsFile \notin {None, Torn} => Registry(idsFile))
        /\ ListsAt(w) /\ LocalsAt(w) /\ DocAt(w) /\ FilesAt(w)
    BY DEF Serial
  <2>2. TypeOK' /\ up'
    BY <1>1, <2>1 DEF TypeOK, vars, lists, files, locals
  <2>3. Registry(ids)' /\ (idsFile \notin {None, Torn} => Registry(idsFile))'
    BY <1>1, <2>1 DEF Registry, Elements, Distinct, vars, lists, files
  <2>4. ListsAt(w)' /\ DocAt(w)' /\ FilesAt(w)'
    BY <1>1, <2>1 DEF ListsAt, DocAt, FilesAt, vars, lists, files
  <2>5. KeptPositions(w)' = KeptPositions(w) /\ ids' = ids
    BY <1>1 DEF KeptPositions, Kept, ChunksOf, vars, lists
  <2>6. LocalsAt(w)'
    BY <1>1, <2>1, <2>5 DEF LocalsAt, vars, locals
  <2>7. QED
    BY <2>2, <2>3, <2>4, <2>6 DEF Serial
<1>2. CASE Restart
  BY <1>2, RestartKeeps
<1>3. CASE \/ \E d \in Docs : BeginAdd(w, d)
           \/ AddIndex(w) \/ AddVectors(w) \/ AddIds(w)
  BY <1>3, AddKeeps
<1>4. CASE \/ \E d \in Docs : BeginDelete(w, d)
           \/ Select(w) \/ FilterIds(w) \/ FilterVectors(w)
           \/ AssignIds(w) \/ AssignVectors(w) \/ Rebuild(w) \/ Swap(w)
  BY <1>4, DeleteKeeps
<1>5. CASE BeginSave(w) \/ OpenIndex(w) \/ WriteIndex(w) \/ OpenIds(w) \/ WriteIds(w)
  BY <1>5, SaveKeeps
<1>6. QED
  BY <1>1, <1>2, <1>3, <1>4, <1>5 DEF Next, Calls

\* With one thread, and no crash inside a save, the invariant always holds.
LEMMA SerialAlways ==
  ASSUME NEW w, Workers = {w}, Crashes # "anywhere"
  PROVE  Spec => []Serial(w)
<1>1. Init => Serial(w)
  BY SerialInit
<1>2. Serial(w) /\ [Next]_vars => Serial(w)'
  BY SerialStep
<1>3. QED
  BY <1>1, <1>2, PTL DEF Spec

\* TypeOK: the lists hold ids only, never an "unknown" one, and the process is
\* never kept from starting.
THEOREM TypesKept ==
  ASSUME NEW w, Workers = {w}, Crashes # "anywhere"
  PROVE  Spec => [](TypeOK /\ up)
<1>1. Serial(w) => TypeOK /\ up
  BY DEF Serial
<1>2. QED
  BY <1>1, SerialAlways, PTL

\* Between calls the index, its vectors and the registry have the same
\* entries at the same positions, and no id is there twice.
THEOREM ListsStayParallel ==
  ASSUME NEW w, Workers = {w}, Crashes # "anywhere"
  PROVE  Spec => []ListsAgree
<1>1. Serial(w) => ListsAgree
  <2> SUFFICES ASSUME Serial(w), Quiet
               PROVE  index = ids /\ vectors = ids /\ Cardinality(Elements(ids)) = Len(ids)
    BY DEF ListsAgree
  <2>1. pc[w] = "idle"
    BY DEF Quiet
  <2>2. index = ids /\ vectors = ids
    BY <2>1 DEF Serial, ListsAt
  <2>3. QED
    BY <2>2, DistinctCounts DEF Serial, Registry
<1>2. QED
  BY <1>1, SerialAlways, PTL

-----------------------------------------------------------------------------
(* Searches beside that thread                                             *)

\* While no delete is putting its lists in place, index and ids have the same
\* entries as far as the shorter goes, and the index is the longer.
LEMMA ShorterAgree ==
  ASSUME NEW w, Workers = {w}, Serial(w), ~Replacing
  PROVE  /\ index \in Seq(Id) /\ ids \in Seq(Id)
         /\ \A k \in DOMAIN index : k <= Len(ids) => ids[k] = index[k]
<1>1. pc[w] \notin {"assignVectors", "rebuild", "swap"}
  BY DEF Replacing
<1>2. index \in Seq(Id) /\ ids \in Seq(Id) /\ ListsAt(w) /\ DocAt(w)
  BY DEF Serial, TypeOK
<1>3. \A k \in 1..Shorter(Len(index), Len(ids)) : ids[k] = index[k]
  <2>2. CASE pc[w] \in {"addVectors", "addIds"}
    <3>1. doc[w] \in Docs /\ index = ids \o ChunkList(doc[w])
      BY <1>2, <2>2 DEF ListsAt, DocAt
    <3>2. ChunkList(doc[w]) \in Seq(Id)
      BY <3>1, ChunkListIs
    <3>3. QED
      BY <1>2, <3>1, <3>2, PrefixAgrees
  <2>3. CASE pc[w] \notin {"addVectors", "addIds"}
    BY <1>1, <1>2, <2>3 DEF ListsAt
  <2>4. QED
    BY <2>2, <2>3
<1>4. \A k \in DOMAIN index : k <= Len(ids) => k \in 1..Shorter(Len(index), Len(ids))
  BY <1>2 DEF Shorter
<1>5. QED
  BY <1>2, <1>3, <1>4

\* What is known of a search that no delete has disturbed.
SearchAt(r) ==
  /\ stage[r] \in {"check", "read"} =>
       /\ ~Replacing
       /\ position[r] \in DOMAIN index
       /\ index[position[r]] = vector[r]
  /\ stage[r] = "read" => position[r] <= Len(ids)
  /\ stage[r] = "named" => name[r] = vector[r]
  /\ stage[r] # "raised"

SearchTypes ==
  /\ stage \in [Searchers -> {"idle", "check", "read", "named", "raised"}]
  /\ position \in [Searchers -> Nat]
  /\ vector = [r \in Searchers |-> vector[r]]
  /\ name = [r \in Searchers |-> name[r]]
  /\ calm \in [Searchers -> BOOLEAN]

Undisturbed == SearchTypes /\ \A r \in Searchers : calm[r] => SearchAt(r)

\* A step of the thread that is not about to swap, and does not assign the kept
\* ids, appends to the lists or leaves them.
LEMMA ListsOnlyGrow ==
  ASSUME NEW w, Workers = {w}, Serial(w), Calls, ~Replacing, ~Replacing'
  PROVE  /\ \A k \in DOMAIN index : k \in DOMAIN index' /\ index'[k] = index[k]
         /\ Len(ids) <= Len(ids')
<1>1. /\ index \in Seq(Id) /\ ids \in Seq(Id) /\ pc \in [Workers -> Step] /\ DocAt(w)
      /\ pc[w] \notin {"assignVectors", "rebuild", "swap"}
      /\ pc'[w] \notin {"assignVectors", "rebuild", "swap"}
  BY DEF Serial, TypeOK, Replacing
<1>2. CASE AddIndex(w)
  <2>1. doc[w] \in Docs
    BY <1>1, <1>2 DEF AddIndex, Goto, DocAt
  <2> DEFINE t == ChunkList(doc[w])
  <2>2. t \in Seq(Id) /\ index' = index \o t /\ ids' = ids
    BY <2>1, <1>2, ChunkListIs DEF AddIndex
  <2> HIDE DEF t
  <2>3. QED
    BY <1>1, <2>2
<1>3. CASE AddIds(w)
  <2>1. doc[w] \in Docs
    BY <1>1, <1>3 DEF AddIds, Finish, Goto, DocAt
  <2> DEFINE t == ChunkList(doc[w])
  <2>2. t \in Seq(Id) /\ index' = index /\ ids' = ids \o t
    BY <2>1, <1>3, ChunkListIs DEF AddIds
  <2> HIDE DEF t
  <2>3. QED
    BY <1>1, <2>2
<1>4. CASE AssignIds(w) \/ AssignVectors(w) \/ Rebuild(w) \/ Swap(w)
  BY <1>1, <1>4 DEF AssignIds, AssignVectors, Rebuild, Swap, Goto, Finish
<1>5. CASE index' = index /\ ids' = ids
  BY <1>1, <1>5
<1>6. CASE \E d \in Docs : BeginAdd(w, d) \/ BeginDelete(w, d)
  BY <1>5, <1>6 DEF BeginAdd, BeginDelete, Call, lists
<1>7. CASE AddVectors(w) \/ Select(w) \/ FilterIds(w) \/ FilterVectors(w)
  BY <1>5, <1>7 DEF AddVectors, Select, FilterIds, FilterVectors, lists
<1>8. CASE BeginSave(w) \/ OpenIndex(w) \/ WriteIndex(w) \/ OpenIds(w) \/ WriteIds(w)
  BY <1>5, <1>8 DEF BeginSave, Call, OpenIndex, WriteIndex, OpenIds, WriteIds, lists
<1>9. QED
  BY <1>2, <1>3, <1>4, <1>6, <1>7, <1>8 DEF Calls

\* What the thread does while searches are under way.
LEMMA BesideUndisturbed ==
  ASSUME NEW w, Workers = {w}, Crashes # "anywhere", Serial(w), Undisturbed, Beside
  PROVE  Undisturbed'
<1>1. SearchTypes'
  <2>1. Replacing' \in BOOLEAN
    BY DEF Replacing
  <2>2. QED
    BY <2>1 DEF Beside, Undisturbed, SearchTypes
<1>2. ASSUME NEW r \in Searchers, calm'[r]
      PROVE  SearchAt(r)'
  <2>1. calm[r] /\ ~Replacing' /\ SearchAt(r)
    BY <1>2 DEF Beside, Undisturbed, SearchTypes
  <2>2. /\ stage' = stage /\ position' = position /\ vector' = vector /\ name' = name
    BY DEF Beside
  <2>3. CASE stage[r] \in {"check", "read"}
    <3>1. ~Replacing /\ position[r] \in DOMAIN index /\ index[position[r]] = vector[r]
      BY <2>1, <2>3 DEF SearchAt
    <3>2. /\ position[r] \in DOMAIN index' /\ index'[position[r]] = index[position[r]]
          /\ Len(ids) <= Len(ids')
      BY <2>1, <3>1, ListsOnlyGrow DEF Beside
    <3>3. stage[r] = "read" => position[r] <= Len(ids')
      <4>1. stage[r] = "read" => position[r] <= Len(ids)
        BY <2>1 DEF SearchAt
      <4>2. position[r] \in Nat /\ Len(ids) \in Nat
        BY DEF Undisturbed, SearchTypes, Serial, TypeOK
      <4>3. Serial(w)'
        BY SerialStep DEF Beside, Next
      <4>4. Len(ids') \in Nat
        BY <4>3 DEF Serial, TypeOK
      <4>5. QED
        BY <3>2, <4>1, <4>2, <4>4
    <3>4. QED
      BY <2>1, <2>2, <2>3, <3>1, <3>2, <3>3 DEF SearchAt
  <2>4. CASE stage[r] \notin {"check", "read"}
    BY <2>1, <2>2, <2>4 DEF SearchAt
  <2>5. QED
    BY <2>3, <2>4
<1>3. QED
  BY <1>1, <1>2 DEF Undisturbed

\* A search of its own.
LEMMA StepUndisturbed ==
  ASSUME NEW w, Workers = {w}, Serial(w), Undisturbed, NEW r \in Searchers, SearchStep(r)
  PROVE  Undisturbed'
<1>1. UNCHANGED vars
  BY DEF SearchStep, SearchIndex, CheckPosition, ReadName, SearchOver, Reset
<1>2. /\ index' = index /\ ids' = ids /\ (Replacing' <=> Replacing)
      /\ index \in Seq(Id) /\ ids \in Seq(Id)
  BY <1>1 DEF vars, lists, Replacing, Serial, TypeOK
<1>3. \A q \in Searchers : calm[q] => SearchAt(q)
  BY DEF Undisturbed
<1>4. ASSUME SearchTypes',
             \A q \in Searchers \ {r} : /\ stage'[q] = stage[q] /\ position'[q] = position[q]
                                        /\ vector'[q] = vector[q] /\ name'[q] = name[q]
                                        /\ calm'[q] = calm[q],
             calm'[r] => SearchAt(r)'
      PROVE  Undisturbed'
  <2>1. ASSUME NEW q \in Searchers, q # r, calm'[q]
        PROVE  SearchAt(q)'
    BY <1>2, <1>3, <1>4, <2>1 DEF SearchAt
  <2>2. QED
    BY <1>4, <2>1 DEF Undisturbed
<1> USE DEF SearchTypes
<1>5. CASE SearchIndex(r)
  <2>1. PICK k \in DOMAIN index : /\ position' = [position EXCEPT ![r] = k]
                                  /\ vector' = [vector EXCEPT ![r] = index[k]]
    BY <1>5 DEF SearchIndex
  <2>2. k \in Nat /\ index[k] \in Id
    BY <1>2
  <2>3. /\ stage' = [stage EXCEPT ![r] = "check"] /\ calm' = [calm EXCEPT ![r] = ~Replacing]
        /\ name' = name
    BY <1>5 DEF SearchIndex, Proceed
  <2>8. \/ Replacing /\ ~Replacing = FALSE
        \/ ~Replacing /\ ~Replacing = TRUE
    OBVIOUS
  <2>9. \/ Replacing /\ calm' = [calm EXCEPT ![r] = FALSE]
        \/ ~Replacing /\ calm' = [calm EXCEPT ![r] = TRUE]
    BY <2>3, <2>8
  <2>4. SearchTypes'
    BY <2>1, <2>2, <2>3, <2>9 DEF Undisturbed
  <2>5. calm'[r] => SearchAt(r)'
    BY <1>2, <2>1, <2>3, <2>9 DEF SearchAt, Undisturbed
  <2>6. QED
    BY <1>4, <2>1, <2>3, <2>4, <2>5 DEF Undisturbed
<1>6. CASE Reset(r)
  <2>1. /\ stage' = [stage EXCEPT ![r] = "idle"] /\ position' = [position EXCEPT ![r] = 0]
        /\ vector' = [vector EXCEPT ![r] = None] /\ name' = [name EXCEPT ![r] = None]
        /\ calm' = [calm EXCEPT ![r] = TRUE]
    BY <1>6 DEF Reset
  <2>2. SearchTypes'
    BY <2>1 DEF Undisturbed
  <2>3. SearchAt(r)'
    BY <2>1 DEF SearchAt, Undisturbed
  <2>4. QED
    BY <1>4, <2>1, <2>2, <2>3 DEF Undisturbed
<1>7. CASE /\ position[r] <= Len(ids)
           /\ Proceed(r, "check", "read")
           /\ UNCHANGED <<vars, position, vector, name, calm>>
  <2>1. /\ stage' = [stage EXCEPT ![r] = "read"] /\ stage[r] = "check"
        /\ position' = position /\ vector' = vector /\ name' = name /\ calm' = calm
    BY <1>7 DEF Proceed
  <2>2. SearchTypes'
    BY <2>1 DEF Undisturbed
  <2>3. calm'[r] => SearchAt(r)'
    BY <1>2, <1>3, <1>7, <2>1 DEF SearchAt, Undisturbed
  <2>4. QED
    BY <1>4, <2>1, <2>2, <2>3 DEF Undisturbed
<1>8. CASE ReadName(r)
  <2>1. /\ position' = position /\ vector' = vector /\ calm' = calm /\ stage[r] = "read"
    BY <1>8 DEF ReadName, Proceed
  <2>2. CASE calm[r]
    <3>1. /\ ~Replacing /\ position[r] \in DOMAIN index /\ index[position[r]] = vector[r]
          /\ position[r] <= Len(ids)
      BY <1>3, <2>1, <2>2 DEF SearchAt
    <3>2. ids[position[r]] = vector[r] /\ ids[position[r]] \in Id
      <4>1. ids[position[r]] = index[position[r]]
        BY <3>1, ShorterAgree
      <4>2. QED
        BY <1>2, <3>1, <4>1
    <3>3. position[r] \in Nat /\ Len(ids) \in Nat
      BY <1>2, <3>1
    <3>4. /\ stage' = [stage EXCEPT ![r] = "named"]
          /\ name' = [name EXCEPT ![r] = ids[position[r]]]
      BY <1>8, <3>1, <3>3 DEF ReadName, Proceed
    <3>5. SearchTypes'
      BY <2>1, <3>2, <3>4 DEF Undisturbed
    <3>6. SearchAt(r)'
      BY <2>1, <3>2, <3>4 DEF SearchAt, Undisturbed
    <3>7. QED
      BY <1>4, <2>1, <3>4, <3>5, <3>6 DEF Undisturbed
  <2>3. CASE ~calm[r]
    <3>1. \/ /\ stage' = [stage EXCEPT ![r] = "named"]
             /\ name' = [name EXCEPT ![r] = ids[position[r]]]
          \/ stage' = [stage EXCEPT ![r] = "raised"] /\ name' = name
      BY <1>8 DEF ReadName, Proceed
    <3>2. SearchTypes'
      BY <2>1, <3>1 DEF Undisturbed
    <3>3. QED
      BY <1>4, <2>1, <2>3, <3>1, <3>2 DEF Undisturbed
  <2>4. QED
    BY <2>2, <2>3
<1>9. QED
  BY <1>5, <1>6, <1>7, <1>8 DEF SearchStep, CheckPosition, SearchOver

LEMMA UndisturbedAlways ==
  ASSUME NEW w, Workers = {w}, Crashes # "anywhere"
  PROVE  SearchSpec => []Undisturbed
<1>1. SearchInit => Init /\ Undisturbed
  BY DEF SearchInit, Undisturbed, SearchTypes, SearchAt
<1>2. [SearchNext]_searchVars => [Next]_vars
  BY DEF SearchNext, searchVars, SearchStep, SearchIndex, CheckPosition, ReadName,
         SearchOver, Reset, Beside, RestartAll, Next
<1>3. Serial(w) /\ Undisturbed /\ [SearchNext]_searchVars => Undisturbed'
  <2> SUFFICES ASSUME Serial(w), Undisturbed, [SearchNext]_searchVars PROVE Undisturbed'
    OBVIOUS
  <2>1. CASE UNCHANGED searchVars
    BY <2>1 DEF Undisturbed, SearchTypes, SearchAt, Replacing, searchVars, search, vars, lists
  <2>2. CASE RestartAll
    BY <2>2 DEF RestartAll, Undisturbed, SearchTypes, SearchAt
  <2>3. QED
    BY <2>1, <2>2, BesideUndisturbed, StepUndisturbed DEF SearchNext
<1>4. Init => Serial(w)
  BY SerialInit
<1>5. Serial(w) /\ [Next]_vars => Serial(w)'
  BY SerialStep
<1>6. QED
  BY <1>1, <1>2, <1>3, <1>4, <1>5, PTL DEF SearchSpec

\* A search names the vector it found and does not raise, whatever the thread
\* that calls the store does meanwhile short of putting a delete's lists in
\* place: for any number of searches, documents and chunks.
THEOREM SearchesNameTheirVectors ==
  ASSUME NEW w, Workers = {w}, Crashes # "anywhere"
  PROVE  SearchSpec => []SearchNamesItsVector
<1>1. Undisturbed => SearchNamesItsVector
  BY DEF Undisturbed, SearchAt, SearchNamesItsVector
<1>2. QED
  BY <1>1, UndisturbedAlways, PTL

-----------------------------------------------------------------------------
(* The contract.  add takes effect when the registry is extended, a delete *)
(* when the kept ids are assigned, a save when the sidecar is opened: from *)
(* then on nothing but its completion can follow.                          *)

LEMMA ContractInit == Init => Contract!Init
<1> SUFFICES ASSUME Init PROVE Contract!Init
  OBVIOUS
<1>1. ids = <<>> /\ idsFile = None /\ DOMAIN <<>> = {}
  BY DEF Init
<1>2. QED
  BY <1>1 DEF Contract!Init, Elements

LEMMA AddImplements ==
  ASSUME NEW w, Workers = {w}, Serial(w), AddIds(w)
  PROVE  Contract!Next
<1>1. TypeOK /\ DocAt(w) /\ FilesAt(w) /\ pc[w] = "addIds"
  BY DEF Serial, AddIds, Finish, Goto
<1>2. doc[w] \in Docs /\ idsFile # Torn /\ idsFile' = idsFile /\ ids \in Seq(Id)
  BY <1>1 DEF DocAt, FilesAt, TypeOK, AddIds, files
<1>3. Elements(ids)' = Elements(ids) \cup ChunksOf(doc[w])
  <2> DEFINE t == ChunkList(doc[w])
  <2>1. t \in Seq(Id) /\ Elements(t) = ChunksOf(doc[w]) /\ ids' = ids \o t
    BY <1>2, ChunkListIs DEF AddIds
  <2> HIDE DEF t
  <2>2. Elements(ids \o t) = Elements(ids) \cup ChunksOf(doc[w])
    BY <1>2, <2>1, Joined
  <2>3. QED
    BY <2>1, <2>2 DEF Elements
<1>4. Contract!Add(doc[w])
  BY <1>2, <1>3 DEF Contract!Add, Elements
<1>5. QED
  BY <1>2, <1>4 DEF Contract!Next

LEMMA DeleteImplements ==
  ASSUME NEW w, Workers = {w}, Serial(w), AssignIds(w)
  PROVE  Contract!Next
<1>1. TypeOK /\ DocAt(w) /\ FilesAt(w) /\ LocalsAt(w) /\ Registry(ids) /\ pc[w] = "assignIds"
  BY DEF Serial, AssignIds, Goto
<1>2. /\ doc[w] \in Docs /\ idsFile # Torn /\ idsFile' = idsFile
      /\ keepIds[w] = Selected(ids, KeptPositions(w)) /\ ids' = keepIds[w]
  BY <1>1 DEF DocAt, FilesAt, LocalsAt, AssignIds, files
<1>3. Elements(keepIds[w]) = Elements(ids) \ ChunksOf(doc[w])
  BY <1>1, <1>2, KeptIs DEF Registry
<1>4. Elements(ids)' = Elements(ids) \ ChunksOf(doc[w])
  BY <1>2, <1>3 DEF Elements
<1>5. Contract!Delete(doc[w])
  BY <1>2, <1>4 DEF Contract!Delete, Elements
<1>6. QED
  BY <1>2, <1>5 DEF Contract!Next

LEMMA SaveImplements ==
  ASSUME NEW w, OpenIds(w)
  PROVE  Contract!Next
<1>1. ids' = ids /\ idsFile' = Torn /\ Torn # None
  BY FilesAssumption DEF OpenIds, lists
<1>2. Contract!Save
  BY <1>1 DEF Contract!Save, Elements
<1>3. QED
  BY <1>2 DEF Contract!Next

LEMMA RestartImplements ==
  ASSUME NEW w, Workers = {w}, Crashes # "anywhere", Serial(w), Restart
  PROVE  Contract!Next
<1>1. /\ idsFile = None => ids' = <<>>
      /\ idsFile # None => ids' = idsFile /\ Registry(idsFile)
  BY RestartReads
<1>2. idsFile' = idsFile
  BY DEF Restart, files
<1>3. idsFile # None => idsFile # Torn
  BY <1>1, FilesAssumption DEF Registry
<1>4. DOMAIN <<>> = {}
  OBVIOUS
<1>5. Elements(ids)' = IF idsFile = None THEN {} ELSE Elements(idsFile)
  BY <1>1, <1>4 DEF Elements
<1>6. Contract!Restart
  BY <1>2, <1>3, <1>5 DEF Contract!Restart, Elements
<1>7. QED
  BY <1>6 DEF Contract!Next

\* Every other step leaves what the contract sees as it is.
LEMMA OthersStutter ==
  ASSUME NEW w, Workers = {w}, Serial(w), [Next]_vars,
         ~AddIds(w), ~AssignIds(w), ~OpenIds(w), ~Restart
  PROVE  UNCHANGED Contract!vars
<1>1. CASE WriteIds(w)
  <2>1. idsFile = Torn /\ idsFile' = ids /\ ids' = ids /\ ids \in Seq(Id)
    BY <1>1 DEF Serial, FilesAt, TypeOK, WriteIds, Finish, Goto, lists
  <2>2. idsFile' # None /\ idsFile' # Torn /\ idsFile # None
    BY <2>1, FilesAssumption
  <2>3. Elements(idsFile)' = Elements(ids)
    BY <2>1 DEF Elements
  <2>4. QED
    BY <2>1, <2>2, <2>3 DEF Contract!vars, Elements
<1>2. CASE ~WriteIds(w)
  <2>1. ids' = ids /\ idsFile' = idsFile
    <3>1. CASE UNCHANGED vars
      BY <3>1 DEF vars, lists, files
    <3>2. CASE \E d \in Docs : BeginAdd(w, d) \/ BeginDelete(w, d)
      BY <3>2 DEF BeginAdd, BeginDelete, Call, lists, files
    <3>3. CASE AddIndex(w) \/ AddVectors(w)
      BY <3>3 DEF AddIndex, AddVectors, files
    <3>4. CASE Select(w) \/ FilterIds(w) \/ FilterVectors(w)
      BY <3>4 DEF Select, FilterIds, FilterVectors, lists, files
    <3>5. CASE AssignVectors(w) \/ Rebuild(w) \/ Swap(w)
      BY <3>5 DEF AssignVectors, Rebuild, Swap, lists, files
    <3>6. CASE BeginSave(w) \/ OpenIndex(w) \/ WriteIndex(w)
      BY <3>6 DEF BeginSave, Call, OpenIndex, WriteIndex, lists, files
    <3>7. QED
      BY <1>2, <3>1, <3>2, <3>3, <3>4, <3>5, <3>6 DEF Next, Calls
  <2>2. QED
    BY <2>1 DEF Contract!vars, Elements
<1>3. QED
  BY <1>1, <1>2

\* Every call of the store is one step of the contract, a restart brings back
\* what the last save wrote, and no other step can be seen from outside.
THEOREM StoreImplementsContract ==
  ASSUME NEW w, Workers = {w}, Crashes # "anywhere"
  PROVE  Spec => ImplementsContract
<1>1. Init => Contract!Init
  BY ContractInit
<1>2. Serial(w) /\ [Next]_vars => [Contract!Next]_(Contract!vars)
  BY AddImplements, DeleteImplements, SaveImplements, RestartImplements, OthersStutter
<1>3. QED
  BY <1>1, <1>2, SerialAlways, PTL DEF Spec, ImplementsContract, Contract!Spec

-----------------------------------------------------------------------------
(* HybridRanking: what retrieve makes of the results of the index *)


Hit == [id : Chunks \cup {Foreign}, score : Score]
Candidate == [chunk : Chunks, dense : Score]
Ids(hits) == {hits[k].id : k \in DOMAIN hits}

\* What the index returns names no chunk twice.
LEMMA ResultsNameOnce ==
  ASSUME NEW hits \in Results
  PROVE  /\ hits \in Seq(Hit)
         /\ \A j, k \in DOMAIN hits : hits[j].id = hits[k].id /\ hits[j].id # Foreign => j = k
<1>1. IsFiniteSet(Chunks) /\ Cardinality(Chunks) \in Nat
  BY ChunksAssumption, FS_CardinalityType
<1>2. PICK n \in 0..Cardinality(Chunks) : hits \in [1..n -> Hit]
  BY DEF Results, Hit
<1>3. hits \in Seq(Hit) /\ DOMAIN hits = 1..n /\ n \in Nat
  BY <1>1, <1>2
<1>4. \A j, k \in DOMAIN hits : j < k => (hits[j].id = hits[k].id => hits[j].id = Foreign)
  BY DEF Results
<1>5. QED
  BY <1>3, <1>4

\* What is zipped: one candidate per id that parses, in their order.  Where
\* all of them parse, each candidate has the score of its own vector.
Zipped(x, hits) ==
  /\ x \in Seq(Candidate) /\ Len(x) <= Len(hits)
  /\ \A j, k \in DOMAIN x : x[j].chunk = x[k].chunk => j = k
  /\ {x[k].chunk : k \in DOMAIN x} = Ids(hits) \ {Foreign}
  /\ Foreign \notin Ids(hits) =>
       Len(x) = Len(hits)
         /\ \A k \in DOMAIN x : x[k] = [chunk |-> hits[k].id, dense |-> hits[k].score]

LEMMA ScoredIsZipped ==
  ASSUME NEW hits \in Results
  PROVE  Zipped(Scored(hits), hits)
<1> DEFINE P == {k \in DOMAIN hits : hits[k].id # Foreign}
           r == Selected(hits, P)
           named == ChunkIds(hits)
           x == Scored(hits)
<1>1. hits \in Seq(Hit) /\ \A j, k \in DOMAIN hits :
                              hits[j].id = hits[k].id /\ hits[j].id # Foreign => j = k
  BY ResultsNameOnce
<1>2. r \in Seq(Hit)
  BY <1>1, SelectedPicks
<1>3. PICK f : Picks(f, r, hits, P, Len(hits))
  BY <1>1, SelectedPicks
<1>4. named = [k \in 1..Len(r) |-> r[k].id]
  BY DEF ChunkIds
<1>8. Len(r) <= Len(hits)
  BY <1>1, SelectedIsShorter
<1>5. Foreign \notin Ids(hits) => r = hits
  <2>1. Foreign \notin Ids(hits) => DOMAIN hits \subseteq P
    BY DEF Ids
  <2> HIDE DEF P
  <2>2. QED
    BY <2>1, <1>1, SelectedAll
<1> HIDE DEF r, P
<1>6. /\ Len(r) \in Nat /\ DOMAIN r = 1..Len(r) /\ DOMAIN hits = 1..Len(hits) /\ Len(hits) \in Nat
      /\ DOMAIN named = 1..Len(r) /\ Len(named) = Len(r)
      /\ \A k \in 1..Len(r) : named[k] = r[k].id
  BY <1>1, <1>2, <1>4
<1>7. \A k \in 1..Len(r) : f[k] \in 1..Len(hits) /\ r[k] = hits[f[k]] /\ hits[f[k]].id # Foreign
  BY <1>3 DEF Picks, P
<1>9. x = [k \in 1..Len(r) |-> [chunk |-> named[k], dense |-> hits[k].score]]
  BY <1>6 DEF Scored
<1> HIDE DEF named, x
<1>10. \A k \in 1..Len(r) : k \in 1..Len(hits) /\ hits[k] \in Hit
  BY <1>8, <1>6, <1>1
<1>11. \A k \in 1..Len(r) : named[k] \in Chunks /\ hits[k].score \in Score
  <2>1. \A k \in 1..Len(hits) : hits[k].id \in Chunks \cup {Foreign} /\ hits[k].score \in Score
    <3>1. \A k \in 1..Len(hits) : hits[k] \in Hit
      BY <1>1, <1>6
    <3>2. \A h \in Hit : h.id \in Chunks \cup {Foreign} /\ h.score \in Score
      BY DEF Hit
    <3>3. QED
      BY <3>1, <3>2
  <2>2. QED
    BY <2>1, <1>6, <1>7, <1>10
<1>12. x \in Seq(Candidate) /\ Len(x) = Len(r) /\ DOMAIN x = 1..Len(r)
  <2>1. x \in [1..Len(r) -> Candidate]
    BY <1>9, <1>11 DEF Candidate
  <2>2. QED
    BY <2>1, <1>6
<1>13. \A k \in 1..Len(r) : x[k].chunk = hits[f[k]].id /\ x[k].chunk # Foreign
  BY <1>6, <1>7, <1>9
<1>14. ASSUME NEW j \in DOMAIN x, NEW k \in DOMAIN x, x[j].chunk = x[k].chunk
       PROVE  j = k
  <2>1. f[j] = f[k]
    <3>1. j \in 1..Len(r) /\ k \in 1..Len(r)
      BY <1>12, <1>14
    <3>2. /\ f[j] \in DOMAIN hits /\ f[k] \in DOMAIN hits
          /\ hits[f[j]].id = hits[f[k]].id /\ hits[f[j]].id # Foreign
      BY <3>1, <1>6, <1>7, <1>13, <1>14
    <3>3. QED
      BY <3>2, <1>1
  <2>2. ~(j < k) /\ ~(k < j)
    BY <2>1, <1>3, <1>7, <1>12, <1>6 DEF Picks
  <2>3. QED
    BY <2>2, <1>12, <1>6
<1>15. {x[k].chunk : k \in DOMAIN x} = Ids(hits) \ {Foreign}
  <2>1. \A k \in 1..Len(hits) : hits[k].id # Foreign => \E j \in 1..Len(r) : f[j] = k
    BY <1>3, <1>6 DEF Picks, P
  <2>2. \A k \in DOMAIN x : x[k].chunk \in Ids(hits) \ {Foreign}
    BY <1>6, <1>7, <1>12, <1>13 DEF Ids
  <2>3. \A k \in DOMAIN hits : hits[k].id # Foreign => \E j \in DOMAIN x : x[j].chunk = hits[k].id
    <3>1. ASSUME NEW k \in DOMAIN hits, hits[k].id # Foreign
          PROVE  \E j \in DOMAIN x : x[j].chunk = hits[k].id
      <4>1. k \in 1..Len(hits)
        BY <1>6, <3>1
      <4>2. PICK j \in 1..Len(r) : f[j] = k
        BY <2>1, <3>1, <4>1
      <4>3. j \in DOMAIN x /\ x[j].chunk = hits[k].id
        BY <4>2, <1>12, <1>13
      <4>4. QED
        BY <4>3
    <3>2. QED
      BY <3>1
  <2>4. QED
    BY <2>2, <2>3 DEF Ids
<1>16. ASSUME Foreign \notin Ids(hits)
       PROVE  /\ Len(x) = Len(hits)
              /\ \A k \in DOMAIN x : x[k] = [chunk |-> hits[k].id, dense |-> hits[k].score]
  <2>1. r = hits
    BY <1>5, <1>16
  <2>2. QED
    BY <2>1, <1>6, <1>9, <1>12
<1>17. Zipped(x, hits)
  BY <1>8, <1>12, <1>14, <1>15, <1>16 DEF Zipped
<1>18. QED
  BY <1>17 DEF x

\* The positions of the user's stored chunks among what was zipped.
OwnPositions(x, rows, own) == {k \in DOMAIN x : x[k].chunk \in rows \cap own}

\* What is left to rank: each stored chunk of the user that was found, once.
Candidates(x, hits, rows, own) ==
  /\ x \in Seq(Candidate)
  /\ \A j, k \in DOMAIN x : x[j].chunk = x[k].chunk => j = k
  /\ {x[k].chunk : k \in DOMAIN x} = Ids(hits) \cap rows \cap own
  /\ Foreign \notin Ids(hits) =>
       \A k \in DOMAIN x : \E i \in DOMAIN hits :
         x[k].chunk = hits[i].id /\ x[k].dense = hits[i].score

LEMMA OrderedAreCandidates ==
  ASSUME NEW hits \in Results, NEW rows \in SUBSET Chunks, NEW own
  PROVE  Candidates(Ordered(hits, rows, own), hits, rows, own)
<1> DEFINE x == Scored(hits)
           P == OwnPositions(x, rows, own)
           r == Selected(x, P)
<1>1. Ordered(hits, rows, own) = r
  BY DEF Ordered, OwnPositions
<1>2. Zipped(x, hits)
  BY ScoredIsZipped
<1> HIDE DEF x
<1>3. x \in Seq(Candidate)
  BY <1>2 DEF Zipped
<1>4. r \in Seq(Candidate)
  BY <1>3, SelectedPicks
<1>5. PICK f : Picks(f, r, x, P, Len(x))
  BY <1>3, SelectedPicks
<1> HIDE DEF r
<1>6. DOMAIN r = 1..Len(r) /\ DOMAIN x = 1..Len(x) /\ Len(r) \in Nat
  BY <1>3, <1>4
<1>7. \A j \in DOMAIN r : f[j] \in DOMAIN x /\ f[j] \in P /\ r[j] = x[f[j]]
  BY <1>5, <1>6 DEF Picks
<1>8. ASSUME NEW j \in DOMAIN r, NEW k \in DOMAIN r, r[j].chunk = r[k].chunk
      PROVE  j = k
  <2>1. f[j] = f[k]
    BY <1>2, <1>7, <1>8 DEF Zipped
  <2>2. ~(j < k) /\ ~(k < j)
    BY <2>1, <1>5, <1>7, <1>6 DEF Picks
  <2>3. QED
    BY <2>2, <1>6
<1>9. {r[k].chunk : k \in DOMAIN r} = Ids(hits) \cap rows \cap own
  <2>1. \A k \in P : \E j \in DOMAIN r : f[j] = k
    BY <1>5, <1>6 DEF Picks, OwnPositions
  <2>2. {x[k].chunk : k \in DOMAIN x} = Ids(hits) \ {Foreign}
    BY <1>2 DEF Zipped
  <2>3. Foreign \notin rows
    BY ChunksAssumption
  <2>4. ASSUME NEW k \in DOMAIN r
        PROVE  r[k].chunk \in Ids(hits) \cap rows \cap own
    <3>1. f[k] \in DOMAIN x /\ x[f[k]].chunk \in rows \cap own /\ r[k] = x[f[k]]
      BY <1>7 DEF OwnPositions
    <3>2. QED
      BY <3>1, <2>2
  <2>5. ASSUME NEW c \in Ids(hits) \cap rows \cap own
        PROVE  \E j \in DOMAIN r : r[j].chunk = c
    <3>1. PICK k \in DOMAIN x : x[k].chunk = c
      BY <2>2, <2>3
    <3>2. k \in P
      BY <3>1 DEF OwnPositions
    <3>3. QED
      BY <3>1, <3>2, <2>1, <1>7
  <2>6. QED
    BY <2>4, <2>5
<1>10. ASSUME Foreign \notin Ids(hits), NEW k \in DOMAIN r
       PROVE  \E i \in DOMAIN hits : r[k].chunk = hits[i].id /\ r[k].dense = hits[i].score
  <2>1. /\ Len(x) = Len(hits)
        /\ x[f[k]] = [chunk |-> hits[f[k]].id, dense |-> hits[f[k]].score]
    BY <1>2, <1>7, <1>10 DEF Zipped
  <2>2. hits \in Seq(Hit)
    BY ResultsNameOnce
  <2>3. f[k] \in DOMAIN hits
    BY <2>1, <2>2, <1>6, <1>7
  <2>4. QED
    BY <2>1, <2>3, <1>7
<1>11. Candidates(r, hits, rows, own)
  BY <1>4, <1>8, <1>9, <1>10 DEF Candidates
<1>12. QED
  BY <1>1, <1>11

\* As many are left as there are chunks to be found.
LEMMA CandidatesCount ==
  ASSUME NEW hits \in Results, NEW rows, NEW own, NEW x, Candidates(x, hits, rows, own)
  PROVE  /\ Len(x) \in Nat /\ DOMAIN x = 1..Len(x)
         /\ Cardinality(Ids(hits) \cap rows \cap own) = Len(x)
<1> DEFINE f == [k \in 1..Len(x) |-> x[k].chunk]
           E == Ids(hits) \cap rows \cap own
<1>1. /\ Len(x) \in Nat /\ DOMAIN x = 1..Len(x)
      /\ \A j, k \in 1..Len(x) : x[j].chunk = x[k].chunk => j = k
      /\ {x[k].chunk : k \in 1..Len(x)} = E
  BY DEF Candidates
<1>2. f \in Bijection(1..Len(x), E)
  <2>1. f \in [1..Len(x) -> E]
    BY <1>1
  <2>2. \A j, k \in 1..Len(x) : f[j] = f[k] => j = k
    BY <1>1
  <2>3. \A e \in E : \E k \in 1..Len(x) : f[k] = e
    BY <1>1
  <2> HIDE DEF f, E
  <2>4. QED
    BY <2>1, <2>2, <2>3 DEF Bijection, Injection, Surjection, IsInjective
<1>3. ExistsBijection(1..Len(x), E)
  BY <1>2 DEF ExistsBijection
<1>4. Cardinality(E) = Len(x)
  BY <1>1, <1>3, FS_CountingElements
<1>5. QED
  BY <1>1, <1>4

\* The lowest and the highest of scores that there are.
LEMMA Extremes ==
  ASSUME NEW n \in Nat \ {0}, NEW seq \in [1..n -> Score]
  PROVE  /\ Lowest(seq) \in Nat /\ Highest(seq) \in Nat
         /\ \A k \in 1..n : Lowest(seq) <= seq[k] /\ seq[k] <= Highest(seq)
<1> DEFINE T == {seq[k] : k \in DOMAIN seq}
           U == {MaxScore - t : t \in T}
<1>1. /\ DOMAIN seq = 1..n /\ 1 \in 1..n /\ MaxScore \in Nat
      /\ \A k \in 1..n : seq[k] \in T
      /\ \A k \in 1..n : seq[k] \in Nat /\ seq[k] <= MaxScore
  BY WeightsAssumption DEF Score
<1>2. T \subseteq Nat /\ T # {} /\ \A t \in T : t <= MaxScore
  BY <1>1
<1> HIDE DEF T
<1>3. \E t \in T : \A k \in DOMAIN seq : t <= seq[k]
  <2>1. PICK t \in T : \A u \in T : t <= u
    BY <1>2, LeastNat
  <2>2. QED
    BY <2>1, <1>1
<1>4. \E t \in T : \A k \in DOMAIN seq : t >= seq[k]
  <2>1. U \subseteq Nat /\ U # {}
    BY <1>1, <1>2
  <2>2. PICK u \in U : \A v \in U : u <= v
    <3> HIDE DEF U
    <3> QED BY <2>1, LeastNat
  <2>3. PICK t \in T : u = MaxScore - t
    BY <2>2
  <2>4. \A v \in T : MaxScore - t <= MaxScore - v
    BY <2>2, <2>3
  <2>5. \A v \in T : t >= v
    BY <2>4, <1>1, <1>2
  <2>6. QED
    BY <2>5, <1>1
<1>5. Lowest(seq) \in T /\ \A k \in DOMAIN seq : Lowest(seq) <= seq[k]
  BY <1>3 DEF Lowest, T
<1>6. Highest(seq) \in T /\ \A k \in DOMAIN seq : Highest(seq) >= seq[k]
  BY <1>4 DEF Highest, T
<1>7. QED
  BY <1>1, <1>2, <1>5, <1>6

\* Factors that are not negative keep a sum positive.
LEMMA PositiveSum ==
  ASSUME NEW a \in Nat, NEW b \in Nat, NEW s \in Nat \ {0}, NEW t \in Nat \ {0}, a + b > 0
  PROVE  a * t + b * s > 0
<1>1. a * t \in Nat /\ b * s \in Nat
  OBVIOUS
<1>2. CASE a > 0
  <2>1. a * t > 0
    BY <1>2
  <2>2. QED
    BY <2>1, <1>1
<1>3. CASE b > 0
  <2>1. b * s > 0
    BY <1>3
  <2>2. QED
    BY <2>1, <1>1
<1>4. QED
  BY <1>2, <1>3

\* The product of natural numbers is one, and it distributes.
LEMMA Products ==
  ASSUME NEW w \in Nat, NEW x \in Nat, NEW y \in Nat, x >= y
  PROVE  /\ w * (x - y) \in Nat
         /\ w * x = w * y + w * (x - y)
<1>1. w * (x - y) = w * x - w * y
  OBVIOUS
<1>2. x - y \in Nat
  OBVIOUS
<1>3. \A u, v \in Nat : u * v \in Nat
  OBVIOUS
<1>4. QED
  BY <1>1, <1>2, <1>3

\* Fused scores are numbers, and dominance is kept: better in one score and
\* not worse in the other is better fused.
LEMMA FusedIsMonotonic ==
  ASSUME NEW n \in Nat \ {0}, NEW dense \in [1..n -> Score], NEW words \in [1..n -> Score],
         NEW a \in 1..n
  PROVE  /\ Fused(dense, words, a) \in Int
         /\ \A b \in 1..n :
              /\ dense[a] >= dense[b] /\ words[a] >= words[b]
              /\ DenseWeight * (dense[a] - dense[b]) + LexicalWeight * (words[a] - words[b]) > 0
              => Fused(dense, words, a) > Fused(dense, words, b)
<1> DEFINE low == Lowest(dense)
           span == Highest(dense) - low
           top == Highest(words)
           s == IF span = 0 THEN 1 ELSE span
           t == IF top = 0 THEN 1 ELSE top
           gain(k) == IF span = 0 THEN 0 ELSE dense[k] - low
           value(k) == DenseWeight * gain(k) * t + LexicalWeight * words[k] * s
<1>1. \A k \in 1..n : Fused(dense, words, k) = value(k)
  BY DEF Fused
<1>2. /\ low \in Nat /\ span \in Nat /\ top \in Nat
      /\ \A k \in 1..n : /\ dense[k] \in Nat /\ words[k] \in Nat
                         /\ low <= dense[k] /\ dense[k] <= low + span
  <2>1. /\ low \in Nat /\ Highest(dense) \in Nat /\ top \in Nat
        /\ \A k \in 1..n : low <= dense[k] /\ dense[k] <= Highest(dense)
    BY Extremes
  <2>2. \A k \in 1..n : dense[k] \in Nat /\ words[k] \in Nat
    BY DEF Score
  <2>3. 1 \in 1..n
    OBVIOUS
  <2> HIDE DEF low, top
  <2>4. low <= Highest(dense)
    BY <2>1, <2>2, <2>3
  <2>5. QED
    BY <2>1, <2>2, <2>4
<1> HIDE DEF low, span, top
<1>3. s \in Nat \ {0} /\ t \in Nat \ {0}
  BY <1>2
<1>4. \A k \in 1..n : gain(k) \in Nat
  BY <1>2
<1> HIDE DEF s, t
<1>5. DenseWeight \in Nat /\ LexicalWeight \in Nat
  BY WeightsAssumption
<1>6. \A u, v, w \in Nat : u * v * w \in Nat
  OBVIOUS
<1>7. \A k \in 1..n : value(k) \in Int
  <2> HIDE DEF gain
  <2>1. \A k \in 1..n : DenseWeight * gain(k) * t \in Nat /\ LexicalWeight * words[k] * s \in Nat
    BY <1>2, <1>3, <1>4, <1>5, <1>6
  <2>2. QED
    BY <2>1
<1>8. ASSUME NEW b \in 1..n, dense[a] >= dense[b], words[a] >= words[b],
             DenseWeight * (dense[a] - dense[b]) + LexicalWeight * (words[a] - words[b]) > 0
      PROVE  value(a) > value(b)
  <2> DEFINE D == DenseWeight * (gain(a) - gain(b))
             W == LexicalWeight * (words[a] - words[b])
  <2>1. gain(a) >= gain(b) /\ gain(a) - gain(b) = dense[a] - dense[b]
    <3>1. dense[a] >= dense[b]
      BY <1>8
    <3>2. /\ dense[a] \in Nat /\ low <= dense[a] /\ dense[a] <= low + span
          /\ dense[b] \in Nat /\ low <= dense[b] /\ dense[b] <= low + span
          /\ low \in Nat /\ span \in Nat
      BY <1>2, <1>8
    <3>3. CASE span = 0
      BY <3>2, <3>3
    <3>4. CASE span # 0
      BY <3>1, <3>2, <3>4
    <3>5. QED
      BY <3>3, <3>4
  <2>2. gain(a) \in Nat /\ gain(b) \in Nat /\ words[a] \in Nat /\ words[b] \in Nat
    BY <1>2, <1>4
  <2>3. D + W > 0
    BY <1>8, <2>1
  <2> HIDE DEF gain
  <2>4. D \in Nat /\ DenseWeight * gain(a) = DenseWeight * gain(b) + D
    BY <2>1, <2>2, <1>5, Products
  <2>5. W \in Nat /\ LexicalWeight * words[a] = LexicalWeight * words[b] + W
    BY <1>8, <2>2, <1>5, Products
  <2> HIDE DEF D, W
  <2>6. D * t + W * s > 0
    BY <2>3, <2>4, <2>5, <1>3, PositiveSum
  <2> DEFINE x == DenseWeight * gain(b)
             y == LexicalWeight * words[b]
  <2>7. x \in Nat /\ y \in Nat
    BY <2>2, <1>5
  <2>8. value(a) = (x + D) * t + (y + W) * s /\ value(b) = x * t + y * s
    BY <2>4, <2>5
  <2> HIDE DEF x, y, value
  <2>9. (x + D) * t = x * t + D * t /\ (y + W) * s = y * s + W * s
    BY <2>4, <2>5, <2>7, <1>3
  <2>10. /\ x * t \in Int /\ D * t \in Int /\ y * s \in Int /\ W * s \in Int
    BY <2>4, <2>5, <2>7, <1>3
  <2>11. QED
    BY <2>6, <2>8, <2>9, <2>10
<1> HIDE DEF value
<1>9. QED
  BY <1>1, <1>7, <1>8

\* What holds from the question to its end: the inputs are what they were, and
\* the outcome is the one that follows from them.
RankingInv ==
  /\ found \in Results /\ stored \in SUBSET Chunks /\ mine \in SUBSET Chunks
  /\ lexical \in [Chunks -> Score] /\ wordless \in SUBSET Chunks
  /\ terms \in BOOLEAN /\ topK \in Nat \ {0}
  /\ status \in {"asked", "answered", "failed"}
  /\ Done => answer = Answer(found, stored, mine)
  /\ status = "failed" => Undefined(Ordered(found, stored, mine))

LEMMA RankingInvariant == RankingSpec => []RankingInv
<1>1. RankingInit => RankingInv
  BY WeightsAssumption DEF RankingInit, RankingInv, Done
<1>2. RankingInv /\ [RankingNext]_rankingVars => RankingInv'
  <2> SUFFICES ASSUME RankingInv, [RankingNext]_rankingVars
               PROVE  RankingInv'
    OBVIOUS
  <2>1. CASE RankingNext
    <3>1. UNCHANGED inputs
      BY <2>1 DEF RankingNext, Retrieve
    <3>2. UNCHANGED <<found, stored, mine, lexical, wordless, terms, topK>>
      BY <3>1 DEF inputs
    <3>3. \/ status' = "failed" /\ Undefined(Ordered(found, stored, mine))
          \/ status' = "answered" /\ answer' = Answer(found, stored, mine)
      BY <2>1 DEF RankingNext, Retrieve
    <3>4. /\ Answer(found, stored, mine)' = Answer(found, stored, mine)
          /\ Undefined(Ordered(found, stored, mine))' = Undefined(Ordered(found, stored, mine))
      BY <3>2 DEF Answer, Undefined, Words
    <3>5. QED
      BY <3>2, <3>3, <3>4 DEF RankingInv, Done
  <2>2. CASE UNCHANGED rankingVars
    <3>1. UNCHANGED <<found, stored, mine, lexical, wordless, terms, topK, status, answer>>
      BY <2>2 DEF rankingVars, inputs
    <3>2. /\ Answer(found, stored, mine)' = Answer(found, stored, mine)
          /\ Undefined(Ordered(found, stored, mine))' = Undefined(Ordered(found, stored, mine))
      BY <3>1 DEF Answer, Undefined, Words
    <3>3. QED
      BY <3>1, <3>2 DEF RankingInv, Done
  <2>3. QED
    BY <2>1, <2>2
<1>3. QED
  BY <1>1, <1>2, PTL DEF RankingSpec

\* The fused scores of candidates are numbers.
LEMMA FusionIsInt ==
  ASSUME RankingInv, NEW x \in Seq(Candidate)
  PROVE  Fusion(x, Words(x)) \in [1..Len(x) -> Int]
<1> DEFINE n == Len(x)
           dense == [k \in DOMAIN x |-> x[k].dense]
           words == Words(x)
<1>1. DOMAIN x = 1..n /\ n \in Nat
  OBVIOUS
<1>2. \A k \in 1..n : x[k].chunk \in Chunks /\ x[k].dense \in Score
  <2>1. \A k \in 1..n : x[k] \in Candidate
    BY <1>1
  <2>2. \A c \in Candidate : c.chunk \in Chunks /\ c.dense \in Score
    BY DEF Candidate
  <2>3. QED
    BY <2>1, <2>2
<1>3. dense \in [1..n -> Score] /\ words \in [1..n -> Score]
  BY <1>1, <1>2 DEF Words, RankingInv
<1>4. Fusion(x, Words(x)) = [k \in 1..n |-> Fused(dense, words, k)]
  BY <1>1 DEF Fusion
<1> HIDE DEF dense, words, n
<1>5. \A k \in 1..n : Fused(dense, words, k) \in Int
  <2> SUFFICES ASSUME NEW k \in 1..n
               PROVE  Fused(dense, words, k) \in Int
    OBVIOUS
  <2>1. n \in Nat \ {0}
    BY <1>1
  <2>2. QED
    BY <1>3, <2>1, FusedIsMonotonic
<1>6. QED
  BY <1>4, <1>5 DEF n

\* The answer a is the beginning of x ranked, p tells from where in x each of
\* its hits came.
Begins(a, x, p) ==
  /\ Sorts(p, Fusion(x, Words(x)), Len(x))
  /\ \A j, k \in 1..Len(x) : p[j] = p[k] => j = k
  /\ \A k \in 1..Len(x) : \E j \in 1..Len(x) : p[j] = k
  /\ Len(a) = Least(topK, Len(x)) /\ DOMAIN a = 1..Len(a)
  /\ \A k \in DOMAIN a : a[k] = x[p[k]]

LEMMA AnswerBegins ==
  ASSUME RankingInv, NEW hits \in Results, NEW rows \in SUBSET Chunks, NEW own
  PROVE  \E p : Begins(Answer(hits, rows, own), Ordered(hits, rows, own), p)
<1> DEFINE x == Ordered(hits, rows, own)
           n == Len(x)
           key == Fusion(x, Words(x))
           r == Ranked(x, Words(x))
           a == Answer(hits, rows, own)
<1>1. Candidates(x, hits, rows, own)
  BY OrderedAreCandidates
<1>2. a = SubSeq(r, 1, Least(topK, Len(r)))
  BY DEF Answer
<1> HIDE DEF x, a
<1>3. x \in Seq(Candidate)
  BY <1>1 DEF Candidates
<1>4. DOMAIN x = 1..n /\ n \in Nat
  BY <1>3
<1>5. \A k \in 1..n : x[k] \in Candidate
  BY <1>3, <1>4
<1>6. key \in [1..n -> Int]
  BY <1>3, FusionIsInt
<1> DEFINE p == Descending(key)
<1>7. r = [k \in 1..n |-> x[p[k]]]
  BY <1>4 DEF Ranked
<1> HIDE DEF key, n, r
<1>8. /\ Sorts(p, key, n)
      /\ \A j, k \in 1..n : p[j] = p[k] => j = k
      /\ \A k \in 1..n : \E j \in 1..n : p[j] = k
  BY <1>4, <1>6, DescendingSorts
<1> HIDE DEF p
<1>9. \A k \in 1..n : p[k] \in 1..n
  BY <1>8 DEF Sorts
<1>10. r \in Seq(Candidate) /\ Len(r) = n /\ \A k \in 1..n : r[k] = x[p[k]]
  <2>1. \A k \in 1..n : x[p[k]] \in Candidate
    BY <1>5, <1>9
  <2>2. QED
    BY <2>1, <1>4, <1>7
<1> DEFINE m == Least(topK, n)
<1>11. m \in Nat /\ m <= n
  BY <1>4 DEF Least, RankingInv
<1>12. a = SubSeq(r, 1, m)
  BY <1>2, <1>10
<1> HIDE DEF m
<1>13. Len(a) = m /\ DOMAIN a = 1..m /\ \A k \in 1..m : a[k] = r[k]
  BY <1>4, <1>10, <1>11, <1>12
<1>14. \A k \in DOMAIN a : a[k] = x[p[k]]
  BY <1>4, <1>10, <1>11, <1>13
<1>15. Begins(a, x, p)
  BY <1>8, <1>13, <1>14 DEF Begins, key, n, m
<1>16. QED
  BY <1>15 DEF a, x

-----------------------------------------------------------------------------
(* The properties of the ranking *)

\* The score of a chunk that was found is that of its vector.
LEMMA DenseOfFound ==
  ASSUME RankingInv, NEW i \in DOMAIN found, found[i].id # Foreign
  PROVE  DenseOf(found[i].id) = found[i].score
<1>1. \A j \in DOMAIN found : found[j].id = found[i].id => j = i
  BY ResultsNameOnce DEF RankingInv
<1>2. (CHOOSE k \in DOMAIN found : found[k].id = found[i].id) = i
  BY <1>1
<1>3. QED
  BY <1>2 DEF DenseOf

LEMMA EligibleAreCandidates ==
  ASSUME RankingInv
  PROVE  /\ Candidates(Ordered(found, stored, mine), found, stored, mine)
         /\ Eligible = Ids(found) \cap stored \cap mine
<1>1. Candidates(Ordered(found, stored, mine), found, stored, mine)
  BY OrderedAreCandidates DEF RankingInv
<1>2. QED
  BY <1>1 DEF Eligible, Ids

\* The hits of the answer are the eligible chunks of its first positions.
LEMMA CompleteAnswer == RankingInv => AnswerIsComplete
<1> SUFFICES ASSUME RankingInv, Done
             PROVE  AnswerIsComplete
  BY DEF AnswerIsComplete
<1> DEFINE x == Ordered(found, stored, mine)
           n == Len(x)
<1>1. Candidates(x, found, stored, mine) /\ Eligible = Ids(found) \cap stored \cap mine
  BY EligibleAreCandidates
<1>2. PICK p : Begins(answer, x, p)
  BY AnswerBegins DEF RankingInv
<1>3. n \in Nat /\ DOMAIN x = 1..n /\ Cardinality(Eligible) = n
  BY <1>1, CandidatesCount DEF RankingInv
<1> HIDE DEF x, n
<1>4. Len(answer) = Least(topK, n) /\ DOMAIN answer = 1..Len(answer)
  BY <1>2 DEF Begins, n
<1>5. Len(answer) \in Nat /\ Len(answer) <= n
  BY <1>3, <1>4 DEF Least, RankingInv
<1>6. \A k \in DOMAIN answer : k \in 1..n /\ p[k] \in DOMAIN x /\ answer[k] = x[p[k]]
  <2>1. p \in [1..n -> 1..n] /\ \A k \in DOMAIN answer : answer[k] = x[p[k]]
    BY <1>2 DEF Begins, Sorts, n
  <2>2. \A k \in DOMAIN answer : k \in 1..n
    BY <1>3, <1>4, <1>5
  <2>3. QED
    BY <1>3, <2>1, <2>2
<1>7. Chosen \subseteq Eligible
  <2>1. {x[k].chunk : k \in DOMAIN x} = Eligible
    BY <1>1 DEF Candidates
  <2>2. QED
    BY <2>1, <1>6 DEF Chosen
<1>8. ASSUME NEW j \in DOMAIN answer, NEW k \in DOMAIN answer, answer[j].chunk = answer[k].chunk
      PROVE  j = k
  <2>1. p[j] = p[k]
    BY <1>1, <1>6, <1>8 DEF Candidates
  <2>2. j \in 1..n /\ k \in 1..n
    BY <1>6, <1>8
  <2>3. QED
    BY <2>1, <2>2, <1>2 DEF Begins, n
<1>9. ASSUME Parsed, NEW k \in DOMAIN answer
      PROVE  answer[k].dense = DenseOf(answer[k].chunk)
  <2>1. Foreign \notin Ids(found)
    BY <1>9 DEF Parsed, Ids
  <2>2. PICK i \in DOMAIN found :
          answer[k].chunk = found[i].id /\ answer[k].dense = found[i].score
    BY <2>1, <1>1, <1>6, <1>9 DEF Candidates
  <2>3. found[i].id # Foreign
    BY <1>9 DEF Parsed
  <2>4. QED
    BY <2>2, <2>3, DenseOfFound
<1>10. Cardinality(Chosen) = Len(answer)
  <2> DEFINE m == Len(answer)
             f == [k \in 1..m |-> answer[k].chunk]
  <2>1. f \in Bijection(1..m, Chosen)
    <3>1. f \in [1..m -> Chosen] /\ \A c \in Chosen : \E k \in 1..m : f[k] = c
      BY <1>4 DEF Chosen
    <3>2. \A j, k \in 1..m : f[j] = f[k] => j = k
      BY <1>4, <1>8
    <3> HIDE DEF f, m
    <3>3. QED
      BY <3>1, <3>2 DEF Bijection, Injection, Surjection, IsInjective
  <2>2. ExistsBijection(1..m, Chosen)
    BY <2>1 DEF ExistsBijection
  <2>3. QED
    BY <2>2, <1>5, FS_CountingElements
<1>11. QED
  BY <1>3, <1>4, <1>7, <1>9, <1>10 DEF AnswerIsComplete

\* For any chunks, scores, weights and number of hits asked for: the answer
\* has as many of the eligible chunks as were asked for or could be, each of
\* them once and with the score of its own vector.
THEOREM Completeness == RankingSpec => []AnswerIsComplete
<1>1. QED
  BY RankingInvariant, CompleteAnswer, PTL

\* In a ranking the one with the higher key is before the other, wherever it
\* came from.
LEMMA HigherIsBefore ==
  ASSUME NEW n \in Nat, NEW key \in [1..n -> Int], NEW p, Sorts(p, key, n),
         NEW i \in 1..n, NEW j \in 1..n, key[p[i]] > key[p[j]]
  PROVE  i < j
<1>1. key[p[i]] \in Int /\ key[p[j]] \in Int
  BY DEF Sorts
<1>2. i # j
  BY <1>1
<1>3. ~(j < i)
  <2>1. j < i => Precedes(key, p[j], p[i])
    BY DEF Sorts
  <2>2. QED
    BY <1>1, <2>1 DEF Precedes
<1>4. QED
  BY <1>2, <1>3

\* Dominance orders the ranking, and its beginning is what is returned.
LEMMA BetterIsBefore == RankingInv => BetterComesFirst
<1> DEFINE x == Ordered(found, stored, mine)
           n == Len(x)
           key == Fusion(x, Words(x))
<1> SUFFICES ASSUME RankingInv, Done, Parsed, NEW c \in Eligible, NEW e \in Eligible,
                    DenseOf(c) >= DenseOf(e), lexical[c] >= lexical[e],
                    DenseWeight * (DenseOf(c) - DenseOf(e))
                      + LexicalWeight * (lexical[c] - lexical[e]) > 0,
                    e \in Chosen
             PROVE  \E j, k \in DOMAIN answer :
                      j < k /\ answer[j].chunk = c /\ answer[k].chunk = e
  BY DEF BetterComesFirst
<1>1. Candidates(x, found, stored, mine) /\ Eligible = Ids(found) \cap stored \cap mine
  BY EligibleAreCandidates
<1>2. PICK p : Begins(answer, x, p)
  BY AnswerBegins DEF RankingInv
<1>3. n \in Nat /\ DOMAIN x = 1..n
  BY <1>1, CandidatesCount DEF RankingInv
<1>4. x \in Seq(Candidate)
  BY <1>1 DEF Candidates
<1>5. key \in [1..n -> Int]
  BY <1>4, FusionIsInt
<1> HIDE DEF x
<1>6. \A k \in 1..n : DenseOf(x[k].chunk) = x[k].dense
  <2> SUFFICES ASSUME NEW k \in 1..n
               PROVE  DenseOf(x[k].chunk) = x[k].dense
    OBVIOUS
  <2>1. Foreign \notin Ids(found)
    BY DEF Parsed, Ids
  <2>2. PICK i \in DOMAIN found : x[k].chunk = found[i].id /\ x[k].dense = found[i].score
    BY <2>1, <1>1, <1>3 DEF Candidates
  <2>3. found[i].id # Foreign
    BY DEF Parsed
  <2>4. QED
    BY <2>2, <2>3, DenseOfFound
<1>7. PICK a \in 1..n : x[a].chunk = c
  <2>1. {x[k].chunk : k \in DOMAIN x} = Eligible
    BY <1>1 DEF Candidates
  <2>2. QED
    BY <2>1, <1>3
<1>8. PICK k \in DOMAIN answer : answer[k].chunk = e
  BY DEF Chosen
<1>9. Len(answer) \in Nat /\ Len(answer) <= n /\ DOMAIN answer = 1..Len(answer)
  BY <1>2, <1>3 DEF Begins, Least, RankingInv, n
<1>10. k \in 1..n /\ p[k] \in 1..n /\ x[p[k]].chunk = e
  <2>1. k \in 1..n
    BY <1>3, <1>8, <1>9
  <2>2. p \in [1..n -> 1..n]
    BY <1>2 DEF Begins, Sorts, n
  <2>3. answer[k] = x[p[k]]
    BY <1>2, <1>8 DEF Begins
  <2>4. QED
    BY <1>8, <2>1, <2>2, <2>3
<1>11. PICK j \in 1..n : p[j] = a
  BY <1>2 DEF Begins, n
<1>12. key[a] > key[p[k]]
  <2> DEFINE dense == [i \in DOMAIN x |-> x[i].dense]
             words == Words(x)
             b == p[k]
  <2>1. \A i \in 1..n : x[i].chunk \in Chunks /\ x[i].dense \in Score
    <3>1. \A i \in 1..n : x[i] \in Candidate
      BY <1>3, <1>4
    <3>2. \A h \in Candidate : h.chunk \in Chunks /\ h.dense \in Score
      BY DEF Candidate
    <3>3. QED
      BY <3>1, <3>2
  <2>2. dense \in [1..n -> Score] /\ words \in [1..n -> Score]
    BY <1>3, <2>1 DEF Words, RankingInv
  <2>3. \A i \in 1..n : dense[i] = x[i].dense /\ words[i] = lexical[x[i].chunk]
    BY <1>3 DEF Words
  <2>4. \A i \in 1..n : key[i] = Fused(dense, words, i)
    BY <1>3 DEF Fusion
  <2>5. /\ dense[a] = DenseOf(c) /\ dense[b] = DenseOf(e)
        /\ words[a] = lexical[c] /\ words[b] = lexical[e]
        /\ a \in 1..n /\ b \in 1..n /\ n \in Nat \ {0}
    BY <1>3, <1>6, <1>7, <1>10, <2>3
  <2> HIDE DEF dense, words, key, n, b
  <2>6. Fused(dense, words, a) > Fused(dense, words, b)
    BY <2>2, <2>5, FusedIsMonotonic
  <2>7. QED
    BY <2>4, <2>5, <2>6 DEF b
<1> HIDE DEF key
<1>13. Sorts(p, key, n)
  BY <1>2 DEF Begins, key, n
<1> HIDE DEF n
<1>14. j < k
  BY <1>3, <1>5, <1>10, <1>11, <1>12, <1>13, HigherIsBefore
<1>15. j \in DOMAIN answer /\ answer[j] = x[p[j]]
  BY <1>2, <1>8, <1>9, <1>14, <1>11 DEF Begins
<1>16. QED
  BY <1>7, <1>8, <1>11, <1>14, <1>15

\* For any scores and any two weights that are not negative: normalising and
\* fusing never puts a chunk behind one that is no better in either score and
\* worse in one that counts.
THEOREM Dominance == RankingSpec => []BetterComesFirst
<1>1. QED
  BY RankingInvariant, BetterIsBefore, PTL

\* What was found is read by position: taking other users' chunks out first
\* leaves results of the index, of which the same chunks are kept.
LEMMA MineAreResults ==
  ASSUME NEW hits \in Results, NEW P
  PROVE  Selected(hits, P) \in Results
<1> DEFINE r == Selected(hits, P)
<1>1. hits \in Seq(Hit)
  BY ResultsNameOnce
<1>2. r \in Seq(Hit) /\ Len(r) <= Len(hits)
  BY <1>1, SelectedPicks, SelectedIsShorter
<1>3. PICK f : Picks(f, r, hits, P, Len(hits))
  BY <1>1, SelectedPicks
<1> HIDE DEF r
<1>4. Cardinality(Chunks) \in Nat
  BY ChunksAssumption, FS_CardinalityType
<1>5. PICK n \in 0..Cardinality(Chunks) : hits \in [1..n -> Hit]
  BY DEF Results, Hit
<1>6. Len(hits) = n /\ n \in Nat /\ Len(r) \in Nat /\ DOMAIN r = 1..Len(r) /\ DOMAIN hits = 1..n
  BY <1>2, <1>4, <1>5
<1>7. r \in [1..Len(r) -> Hit] /\ Len(r) \in 0..Cardinality(Chunks)
  BY <1>2, <1>4, <1>5, <1>6
<1>8. ASSUME NEW j \in DOMAIN r, NEW k \in DOMAIN r, j < k
      PROVE  /\ r[j].score >= r[k].score
             /\ r[j].id = r[k].id => r[j].id = Foreign
  <2>1. /\ f[j] \in DOMAIN hits /\ f[k] \in DOMAIN hits /\ f[j] < f[k]
        /\ r[j] = hits[f[j]] /\ r[k] = hits[f[k]]
    BY <1>3, <1>6, <1>8 DEF Picks
  <2>2. /\ hits[f[j]].score >= hits[f[k]].score
        /\ hits[f[j]].id = hits[f[k]].id => hits[f[j]].id = Foreign
    BY <2>1 DEF Results
  <2>3. QED
    BY <2>1, <2>2
<1>9. r \in UNION {[1..m -> Hit] : m \in 0..Cardinality(Chunks)}
  BY <1>7
<1>10. r \in Results
  BY <1>8, <1>9 DEF Results, Hit
<1>11. QED
  BY <1>10 DEF r

LEMMA OthersAreTakenOut == RankingInv => OthersDoNotMatter
<1> SUFFICES ASSUME RankingInv, Done, Parsed
             PROVE  answer = Answer(Selected(found, {k \in DOMAIN found : found[k].id \in mine}),
                                    stored, mine)
  BY DEF OthersDoNotMatter
<1> DEFINE P == {k \in DOMAIN found : found[k].id \in mine}
           r == Selected(found, P)
           v == Scored(found)
           u == Scored(r)
           W == OwnPositions(v, stored, mine)
           Q == OwnPositions(u, stored, mine)
<1>1. found \in Results /\ found \in Seq(Hit)
  BY ResultsNameOnce DEF RankingInv
<1>2. r \in Results /\ r \in Seq(Hit)
  BY <1>1, MineAreResults, SelectedPicks
<1>3. PICK f : Picks(f, r, found, P, Len(found))
  BY <1>1, SelectedPicks
<1>4. Zipped(v, found) /\ Zipped(u, r)
  BY <1>1, <1>2, ScoredIsZipped
<1>5. /\ Ordered(found, stored, mine) = Selected(v, W)
      /\ Ordered(r, stored, mine) = Selected(u, Q)
  BY DEF Ordered, OwnPositions
<1> HIDE DEF r, u, v
<1>6. /\ DOMAIN r = 1..Len(r) /\ DOMAIN found = 1..Len(found)
      /\ Len(r) \in Nat /\ Len(found) \in Nat
  BY <1>1, <1>2
<1>7. \A j \in 1..Len(r) : f[j] \in 1..Len(found) /\ f[j] \in P /\ r[j] = found[f[j]]
  BY <1>3 DEF Picks
<1>8. Foreign \notin Ids(found) /\ Foreign \notin Ids(r)
  BY <1>6, <1>7 DEF Parsed, Ids
<1>9. /\ v \in Seq(Candidate) /\ Len(v) = Len(found) /\ DOMAIN v = 1..Len(found)
      /\ \A k \in 1..Len(found) : v[k] = [chunk |-> found[k].id, dense |-> found[k].score]
  BY <1>4, <1>6, <1>8 DEF Zipped
<1>10. /\ u \in Seq(Candidate) /\ Len(u) = Len(r) /\ DOMAIN u = 1..Len(r)
       /\ \A k \in 1..Len(r) : u[k] = [chunk |-> r[k].id, dense |-> r[k].score]
  BY <1>4, <1>6, <1>8 DEF Zipped
<1>11. Picks(f, u, v, P, Len(v))
  <2>1. \A j \in 1..Len(r) : u[j] = v[f[j]]
    BY <1>7, <1>9, <1>10
  <2>2. QED
    BY <2>1, <1>3, <1>7, <1>9, <1>10 DEF Picks
<1>12. W \subseteq P
  <2>1. \A k \in 1..Len(found) : v[k].chunk = found[k].id
    BY <1>9
  <2>2. QED
    BY <2>1, <1>6, <1>9 DEF OwnPositions
<1>13. \A j \in 1..Len(u) : j \in Q <=> f[j] \in W
  <2>1. \A j \in 1..Len(r) : u[j] = v[f[j]]
    BY <1>7, <1>9, <1>10
  <2>2. QED
    BY <2>1, <1>7, <1>9, <1>10 DEF OwnPositions
<1> HIDE DEF P, Q, W
<1>14. Selected(u, Q) = Selected(v, W)
  BY <1>9, <1>10, <1>11, <1>12, <1>13, SelectedThrough
<1>15. Ordered(found, stored, mine) = Ordered(r, stored, mine)
  BY <1>5, <1>14
<1>16. Answer(found, stored, mine) = Answer(r, stored, mine)
  BY <1>15 DEF Answer
<1>17. answer = Answer(r, stored, mine)
  BY <1>16 DEF RankingInv
<1>18. QED
  BY <1>17 DEF r, P

\* For any documents of other users among the candidates: the ranking is the
\* one that would be without them.
THEOREM Independence == RankingSpec => []OthersDoNotMatter
<1>1. QED
  BY RankingInvariant, OthersAreTakenOut, PTL
=============================================================================
