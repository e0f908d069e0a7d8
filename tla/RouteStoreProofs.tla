-------------------------- MODULE RouteStoreProofs --------------------------
(***************************************************************************)
(* Theorems about RouteStore, for any rows, files, uploads in progress,    *)
(* slots and storage errors.                                               *)
(***************************************************************************)
EXTENDS RouteStore, FiniteSetTheorems, TLAPS

\* Whoever holds a key that was readable still finds its object, unless a
\* deletion has begun on the row: the rows, a PUT past its store, a reconcile
\* run, a viewer.
Backed(k) == k[1] \notin touched => k \in objects
Readers ==
  /\ \A k \in Key : file[k].up => Backed(k)
  /\ \A h \in Handlers : put[h].pc = "stored" => Backed(put[h].key)
  /\ \A k \in rec.todo : Backed(k)
  /\ \A k \in rec.gone : k[1] \in touched
  /\ view.pc # "idle" => view.key # <<>> /\ Backed(view.key)

\* A deletion marks the row before it takes an object of it.
Deleting ==
  /\ \A k \in del.keys : k[1] \in touched
  /\ \A r \in del.rows : r \in del.todo \/ r \in touched

\* A handler works on a row that exists, and what it read as uploaded still is.
Putting ==
  \A h \in Handlers : put[h].pc # "idle" =>
    /\ put[h].key # <<>> /\ row[put[h].key[1]] # "new"
    /\ put[h].seen.up /\ put[h].key[1] \notin touched => file[put[h].key].up

Offered ==
  \A k \in acked : row[k[1]] # "new" /\ (k[1] \notin touched => file[k].up)

Inv == TypeOK /\ SlotsAccounted /\ Readers /\ Deleting /\ Putting /\ Offered

Storing(p) == {h \in Handlers : p[h].pc = "storing"}

LEMMA KeyRow == \A k \in Key : k[1] \in Rows /\ k # <<>>
BY DEF Key, Rows

LEMMA StoringFinite == \A p : IsFiniteSet(Storing(p)) /\ Cardinality(Storing(p)) \in Nat
<1> TAKE p
<1>1. Storing(p) \subseteq Handlers BY DEF Storing
<1>2. IsFiniteSet(Storing(p)) BY <1>1, RouteStoreAssumption, FS_Subset
<1> QED BY <1>2, FS_CardinalityType

LEMMA Accounted == SlotsAccounted <=> free + Cardinality(Storing(put)) = Slots
BY DEF SlotsAccounted, Storing

LEMMA AccountedNext == SlotsAccounted' <=> free' + Cardinality(Storing(put')) = Slots
BY DEF SlotsAccounted, Storing

\* Taking a slot adds one storing handler, giving it back removes one.
LEMMA StoringAdd ==
  ASSUME NEW p, NEW q, NEW h, h \notin Storing(p), Storing(q) = Storing(p) \cup {h}
  PROVE  Cardinality(Storing(q)) = Cardinality(Storing(p)) + 1
BY StoringFinite, FS_AddElement

LEMMA StoringRemove ==
  ASSUME NEW p, NEW q, NEW h, h \in Storing(p), Storing(q) = Storing(p) \ {h}
  PROVE  Cardinality(Storing(p)) = Cardinality(Storing(q)) + 1
<1>1. h \notin Storing(q) /\ Storing(p) = Storing(q) \cup {h} OBVIOUS
<1> QED BY <1>1, StoringAdd

LEMMA InitInv == Init => Inv
<1> SUFFICES ASSUME Init PROVE Inv OBVIOUS
<1> USE RouteStoreAssumption
<1>1. TypeOK BY DEF Init, TypeOK, Unnamed, IdlePut, IdleDel, IdleRec, IdleView, FileRow
<1>2. SlotsAccounted
  <2>1. Storing(put) = {} BY DEF Init, IdlePut, Storing
  <2> QED BY <2>1, FS_EmptySet DEF Init, SlotsAccounted, Storing
<1>3. Readers /\ Deleting /\ Putting /\ Offered
  BY DEF Init, Readers, Deleting, Putting, Offered, Unnamed, IdlePut, IdleDel, IdleRec, IdleView
<1> QED BY <1>1, <1>2, <1>3 DEF Inv

-----------------------------------------------------------------------------
(* One lemma per kind of step *)

LEMMA StartInv ==
  ASSUME Inv, NEW r \in Rows, NEW declared \in SUBSET Key, Start(r, declared),
         \A k \in declared : k[1] = r
  PROVE  Inv'
<1> USE DEF Inv, Start, uploads, history
<1>1. TypeOK' BY DEF TypeOK, Declared, FileRow
<1>2. SlotsAccounted' BY DEF SlotsAccounted
<1>3. Readers' /\ Deleting' BY DEF Readers, Deleting, Backed, Declared, TypeOK
<1>4. Putting'
  <2> SUFFICES ASSUME NEW h \in Handlers, put[h].pc # "idle"
               PROVE  /\ put[h].key # <<>> /\ row'[put[h].key[1]] # "new"
                      /\ put[h].seen.up /\ put[h].key[1] \notin touched => file'[put[h].key].up
    BY DEF Putting
  <2>1. put[h].key \in Key /\ put[h].key[1] \in Rows BY KeyRow DEF Putting, TypeOK
  <2> QED BY <2>1 DEF Putting, TypeOK
<1>5. Offered' BY KeyRow DEF Offered, TypeOK
<1> QED BY <1>1, <1>2, <1>3, <1>4, <1>5

LEMMA PutLoadInv ==
  ASSUME Inv, NEW h \in Handlers, NEW k \in Key, PutLoad(h, k)
  PROVE  Inv'
<1> USE DEF Inv, PutLoad, database, history
<1>1. TypeOK' BY DEF TypeOK
<1>2. SlotsAccounted'
  <2>1. Storing(put') = Storing(put) BY DEF Storing, TypeOK
  <2> QED BY <2>1, Accounted, AccountedNext
<1>3. Readers' /\ Deleting' /\ Offered' BY DEF Readers, Deleting, Offered, Backed, TypeOK
<1>4. Putting' BY KeyRow DEF Putting, Live, TypeOK
<1> QED BY <1>1, <1>2, <1>3, <1>4

LEMMA PutSlotInv ==
  ASSUME Inv, NEW h \in Handlers, PutSlot(h)
  PROVE  Inv'
<1> USE DEF Inv, PutSlot, database, history
<1>1. TypeOK' BY RouteStoreAssumption DEF TypeOK
<1>2. SlotsAccounted'
  <2>1. Storing(put') = Storing(put) \cup {h} /\ h \notin Storing(put) BY DEF Storing, TypeOK
  <2>2. Cardinality(Storing(put')) = Cardinality(Storing(put)) + 1 BY <2>1, StoringAdd
  <2>3. free + Cardinality(Storing(put)) = Slots BY Accounted
  <2>4. free' + Cardinality(Storing(put')) = Slots
    BY <2>2, <2>3, StoringFinite, RouteStoreAssumption DEF TypeOK
  <2> QED BY <2>4, AccountedNext
<1>3. Readers' /\ Deleting' /\ Offered' BY DEF Readers, Deleting, Offered, Backed, TypeOK
<1>4. Putting' BY DEF Putting, TypeOK
<1> QED BY <1>1, <1>2, <1>3, <1>4

\* A handler that leaves the store gives its slot back.
LEMMA SlotBack ==
  ASSUME TypeOK, SlotsAccounted, NEW h \in Handlers, put[h].pc = "storing", free' = free + 1,
         Storing(put') = Storing(put) \ {h}
  PROVE  SlotsAccounted' /\ free' \in 0 .. Slots
<1>1. h \in Storing(put) BY DEF Storing
<1>2. Cardinality(Storing(put)) = Cardinality(Storing(put')) + 1 BY <1>1, StoringRemove
<1>3. free + Cardinality(Storing(put)) = Slots BY Accounted
<1>4. free \in Nat /\ Slots \in Nat BY RouteStoreAssumption DEF TypeOK
<1>5. Cardinality(Storing(put)) \in Nat /\ Cardinality(Storing(put')) \in Nat BY StoringFinite
<1>6. free' + Cardinality(Storing(put')) = Slots /\ free' \in Nat BY <1>2, <1>3, <1>4, <1>5
<1> QED BY <1>4, <1>5, <1>6, AccountedNext

LEMMA PutStoreInv ==
  ASSUME Inv, NEW h \in Handlers, PutStore(h)
  PROVE  Inv'
<1> USE DEF Inv, PutStore, database, history
<1>1. Storing(put') = Storing(put) \ {h} BY DEF Storing, TypeOK
<1>2. SlotsAccounted' /\ free' \in 0 .. Slots BY <1>1, SlotBack
<1>3. TypeOK' BY <1>2 DEF TypeOK, Putting
<1>4. Readers' /\ Deleting' /\ Offered' BY DEF Readers, Deleting, Offered, Backed, TypeOK
<1>5. Putting' BY DEF Putting, TypeOK
<1> QED BY <1>2, <1>3, <1>4, <1>5

LEMMA PutRaisesInv ==
  ASSUME Inv, NEW h \in Handlers, PutRaises(h)
  PROVE  Inv'
<1> USE DEF Inv, PutRaises, database, history
<1>1. Storing(put') = Storing(put) \ {h} BY DEF Storing, TypeOK, IdlePut
<1>2. SlotsAccounted' /\ free' \in 0 .. Slots BY <1>1, SlotBack
<1>3. TypeOK' BY <1>2, RouteStoreAssumption DEF TypeOK, IdlePut, Unnamed, FileRow
<1>4. Readers' /\ Deleting' /\ Offered' BY DEF Readers, Deleting, Offered, Backed, TypeOK, IdlePut
<1>5. Putting' BY DEF Putting, TypeOK, IdlePut
<1> QED BY <1>2, <1>3, <1>4, <1>5

LEMMA StoredType == \A now, seen \in FileRow : Stored(now, seen) \in FileRow
<1> TAKE now, seen \in FileRow
<1>1. CASE seen.n = 0
  <2>1. \A n \in {1, 2} : [n |-> n, up |-> TRUE] \in FileRow BY DEF FileRow
  <2>2. (IF now.n = 0 THEN 1 ELSE 2) \in {1, 2} OBVIOUS
  <2> QED BY <1>1, <2>1, <2>2 DEF Stored
<1>2. CASE seen.n # 0
  <2>1. [now EXCEPT !.up = TRUE] \in FileRow BY DEF FileRow
  <2> QED BY <1>2, <2>1 DEF Stored
<1> QED BY <1>1, <1>2

LEMMA PutCommitInv ==
  ASSUME Inv, NEW h \in Handlers, PutCommit(h)
  PROVE  Inv'
<1> USE DEF Inv, PutCommit
<1>1. put[h].key \in Key /\ put[h].key[1] \in Rows /\ put[h].pc = "stored"
  BY KeyRow DEF TypeOK, Putting
<1>2. TypeOK'
  <2>1. put[h].seen \in FileRow /\ file[put[h].key] \in FileRow BY <1>1 DEF TypeOK
  <2>2. Stored(file[put[h].key], put[h].seen) \in FileRow BY <2>1, StoredType
  <2>3. file' \in [Key -> FileRow] /\ acked' \subseteq Key BY <1>1, <2>2 DEF TypeOK
  <2>4. put' \in [Handlers -> [pc : {"idle", "loaded", "storing", "stored"},
                               key : Key \cup {<<>>}, seen : FileRow]]
    BY DEF TypeOK, IdlePut, Unnamed, FileRow
  <2> QED BY <2>3, <2>4 DEF TypeOK
<1>3. SlotsAccounted'
  <2>1. Storing(put') = Storing(put) BY <1>1 DEF Storing, TypeOK, IdlePut
  <2> QED BY <2>1, Accounted, AccountedNext
<1>4. \A k \in Key : /\ file[k].up => file'[k].up
                     /\ file'[k].up => file[k].up \/ k = put[h].key
                     /\ row[k[1]] = "gone" => file'[k] = file[k]
  BY <1>1 DEF TypeOK, Stored, FileRow, MayCommit, Live
<1>5. Readers' /\ Deleting' BY <1>1, <1>4 DEF Readers, Deleting, Backed, TypeOK, IdlePut
<1>6. Putting' BY <1>4 DEF Putting, TypeOK, IdlePut
<1>7. row[put[h].key[1]] # "new" BY <1>1 DEF Putting
<1>8. MayCommit(put[h].key, put[h].seen) /\ put[h].key[1] \notin touched => file'[put[h].key].up
  BY <1>1 DEF Putting, TypeOK, Stored, FileRow
<1>9. Offered' BY <1>1, <1>4, <1>7, <1>8 DEF Offered, TypeOK
<1> QED BY <1>2, <1>3, <1>5, <1>6, <1>9

LEMMA DelRowsInv ==
  ASSUME Inv, NEW rs \in SUBSET Rows, DelRows(rs)
  PROVE  Inv'
<1> USE DEF Inv, DelRows, database, uploads, history
<1>1. TypeOK' BY DEF TypeOK
<1>2. SlotsAccounted' /\ Readers' /\ Deleting' /\ Putting' /\ Offered'
  BY DEF SlotsAccounted, Readers, Backed, Deleting, Putting, Offered
<1> QED BY <1>1, <1>2

LEMMA DelLoadInv ==
  ASSUME Inv, NEW r \in Rows, DelLoad(r)
  PROVE  Inv'
<1> USE DEF Inv, DelLoad, database, uploads
<1>1. Doomed(r) \subseteq KeysOf(r) BY DEF Doomed, Keyed
<1>2. KeysOf(r) \subseteq Key /\ \A k \in KeysOf(r) : k[1] = r BY DEF KeysOf
<1>3. TypeOK' BY <1>1, <1>2 DEF TypeOK
<1>4. SlotsAccounted' BY DEF SlotsAccounted
<1>5. Readers' BY DEF Readers, Backed
<1>6. Deleting' BY <1>1, <1>2 DEF Deleting, TypeOK
<1>7. Putting' /\ Offered' BY DEF Putting, Offered
<1> QED BY <1>3, <1>4, <1>5, <1>6, <1>7

LEMMA DelObjectInv ==
  ASSUME Inv, NEW k \in Key, DelObject(k)
  PROVE  Inv'
<1> USE DEF Inv, DelObject, database, uploads, history
<1>1. k[1] \in touched BY DEF Deleting
<1>2. TypeOK' BY DEF TypeOK
<1>3. \A j : Backed(j) => Backed(j)' BY <1>1 DEF Backed
<1>4. SlotsAccounted' BY DEF SlotsAccounted
<1>5. Readers' BY <1>3 DEF Readers
<1>6. Deleting' /\ Putting' /\ Offered' BY DEF Deleting, Putting, Offered, TypeOK
<1> QED BY <1>2, <1>4, <1>5, <1>6

LEMMA DelEndsInv ==
  ASSUME Inv, DelRaises \/ DelCommit
  PROVE  Inv'
<1>1. CASE DelRaises
  <2> USE <1>1 DEF Inv, DelRaises, database, uploads, history
  <2>1. TypeOK' BY RouteStoreAssumption DEF TypeOK
  <2>2. SlotsAccounted' /\ Readers' /\ Deleting' /\ Putting' /\ Offered'
    BY DEF SlotsAccounted, Readers, Backed, Deleting, Putting, Offered, TypeOK
  <2> QED BY <2>1, <2>2
<1>2. CASE DelCommit
  <2> USE <1>2 DEF Inv, DelCommit, uploads, history
  <2>1. \A r \in del.rows : r \in touched BY DEF Deleting
  <2>2. TypeOK' BY DEF TypeOK, IdleDel, Unnamed, FileRow
  <2>3. \A k \in Key : /\ file'[k].up => file[k].up
                       /\ k[1] \notin touched => file'[k] = file[k]
    BY <2>1 DEF Unnamed, TypeOK
  <2>4. \A r \in Rows : row[r] # "new" => row'[r] # "new" BY DEF TypeOK
  <2>5. SlotsAccounted' BY DEF SlotsAccounted
  <2>6. Readers' /\ Deleting' BY <2>3 DEF Readers, Backed, Deleting, IdleDel
  <2>7. Putting'
    <3>1. \A h \in Handlers : put[h].key \in Key \cup {<<>>} BY DEF TypeOK
    <3> QED BY <2>3, <2>4, <3>1, KeyRow DEF Putting
  <2>8. Offered' BY <2>3, <2>4, KeyRow DEF Offered, TypeOK
  <2> QED BY <2>2, <2>5, <2>6, <2>7, <2>8
<1> QED BY <1>1, <1>2

LEMMA ReconcileInv ==
  ASSUME Inv, RecBegin \/ RecCommit \/ \E k \in Key : RecHead(k)
  PROVE  Inv'
<1>1. CASE RecBegin
  <2> USE <1>1 DEF Inv, RecBegin, database, uploads, history
  <2>1. TypeOK' BY DEF TypeOK
  <2>2. SlotsAccounted' /\ Readers' /\ Deleting' /\ Putting' /\ Offered'
    BY DEF SlotsAccounted, Readers, Backed, Deleting, Putting, Offered, TypeOK
  <2> QED BY <2>1, <2>2
<1>2. ASSUME NEW k \in Key, RecHead(k) PROVE Inv'
  <2> USE <1>2 DEF Inv, RecHead, database, uploads, history
  <2>1. TypeOK' BY DEF TypeOK
  <2>2. SlotsAccounted' /\ Deleting' /\ Putting' /\ Offered'
    BY DEF SlotsAccounted, Deleting, Putting, Offered
  <2>3. Readers' BY DEF Readers, Backed, Missing, TypeOK
  <2> QED BY <2>1, <2>2, <2>3
<1>3. CASE RecCommit
  <2> USE <1>3 DEF Inv, RecCommit, uploads, history
  <2>1. TypeOK' BY DEF TypeOK, IdleRec, FileRow
  <2>2. \A k \in Key : /\ file'[k].up => file[k].up
                       /\ k[1] \notin touched => file'[k] = file[k]
    BY DEF Readers, TypeOK, FileRow
  <2>3. SlotsAccounted' /\ Deleting' BY DEF SlotsAccounted, Deleting
  <2>4. Readers' BY <2>2 DEF Readers, Backed, IdleRec
  <2>5. Putting'
    <3>1. \A h \in Handlers : put[h].key \in Key \cup {<<>>} BY DEF TypeOK
    <3> QED BY <2>2, <3>1 DEF Putting
  <2>6. Offered' BY <2>2 DEF Offered, TypeOK
  <2> QED BY <2>1, <2>3, <2>4, <2>5, <2>6
<1> QED BY <1>1, <1>2, <1>3

LEMMA ViewInv ==
  ASSUME Inv, DownloadRouteFile \/ DownloadLog \/ StreamSize \/ StreamGet \/ \E k \in Key : ViewLoad(k)
  PROVE  Inv'
<1> USE DEF database, uploads, history, IdleView
<1>1. UNCHANGED <<database, objects, uploads, del, rec, history, faults>>
  BY DEF DownloadRouteFile, DownloadLog, Download, StreamSize, StreamGet, ViewLoad
<1>2. view' = IdleView \/ (view' = [view EXCEPT !.pc = "sized"] /\ view.pc # "idle")
      \/ \E k \in Key : file[k].up /\ view' = [pc |-> "loaded", key |-> k]
  BY DEF DownloadRouteFile, DownloadLog, Download, StreamSize, StreamGet, ViewLoad
<1>3. TypeOK' BY <1>1, <1>2 DEF Inv, TypeOK
<1>4. SlotsAccounted' /\ Deleting' /\ Putting' /\ Offered'
  BY <1>1 DEF Inv, SlotsAccounted, Deleting, Putting, Offered
<1>5. Readers' BY <1>1, <1>2, KeyRow DEF Inv, TypeOK, Readers, Backed
<1> QED BY <1>3, <1>4, <1>5 DEF Inv

LEMMA CrashInv ==
  ASSUME Inv, Crash
  PROVE  Inv'
<1> USE DEF Inv, Crash, database, history, IdlePut, IdleDel, IdleRec, IdleView
<1>1. TypeOK' BY RouteStoreAssumption DEF TypeOK, Unnamed, FileRow
<1>2. SlotsAccounted'
  <2>1. Storing(put') = {} BY DEF Storing
  <2>2. Cardinality(Storing(put')) = 0 BY <2>1, FS_EmptySet
  <2> QED BY <2>2, AccountedNext, RouteStoreAssumption
<1>3. Readers' /\ Deleting' /\ Putting' /\ Offered' BY DEF Readers, Backed, Deleting, Putting, Offered
<1> QED BY <1>1, <1>2, <1>3

LEMMA NextInv == Inv /\ [Next]_vars => Inv'
<1> SUFFICES ASSUME Inv, [Next]_vars PROVE Inv' OBVIOUS
<1>1. CASE RouteStart \/ LogStart
  <2>1. PICK r \in Rows : \E declared \in SUBSET KeysOf(r) : Start(r, declared)
    BY <1>1 DEF RouteStart, LogStart, Rows
  <2>a. PICK declared \in SUBSET KeysOf(r) : Start(r, declared) BY <2>1
  <2>2. declared \in SUBSET Key /\ \A k \in declared : k[1] = r BY DEF KeysOf
  <2> QED BY <2>a, <2>2, StartInv
<1>2. ASSUME NEW h \in Handlers, FilePut(h) \/ LogPut(h) PROVE Inv'
  BY <1>2, PutLoadInv DEF FilePut, LogPut
<1>3. ASSUME NEW h \in Handlers, PutSlot(h) \/ PutStore(h) \/ PutRaises(h) \/ PutCommit(h) PROVE Inv'
  BY <1>3, PutSlotInv, PutStoreInv, PutRaisesInv, PutCommitInv
<1>4. CASE DeleteRoute \/ DeleteLog \/ DeleteAllRoutes \/ RunRetention
  <2>1. PICK rs \in SUBSET Rows : DelRows(rs)
    <3>1. DeleteAllRoutes => \E rs \in SUBSET Rows : DelRows(rs)
      <4>1. {r \in Routes : Live(r)} \in SUBSET Rows BY DEF Rows
      <4> QED BY <4>1 DEF DeleteAllRoutes
    <3>2. (DeleteRoute \/ DeleteLog) => \E rs \in SUBSET Rows : DelRows(rs)
      <4>1. \A r \in Routes \cup Logs : {r} \in SUBSET Rows BY DEF Rows
      <4> QED BY <4>1 DEF DeleteRoute, DeleteLog
    <3> QED BY <1>4, <3>1, <3>2 DEF RunRetention
  <2> QED BY <2>1, DelRowsInv
<1>5. CASE DelCommit \/ DelRaises BY <1>5, DelEndsInv
<1>6. ASSUME NEW r \in Rows, DelLoad(r) PROVE Inv' BY <1>6, DelLoadInv
<1>7. ASSUME NEW k \in Key, DelObject(k) PROVE Inv' BY <1>7, DelObjectInv
<1>8. CASE RecBegin \/ RecCommit \/ \E k \in Key : RecHead(k) BY <1>8, ReconcileInv
<1>9. CASE DownloadRouteFile \/ DownloadLog \/ StreamSize \/ StreamGet \/ \E k \in Key : ViewLoad(k)
  BY <1>9, ViewInv
<1>10. CASE Crash BY <1>10, CrashInv
<1>11. CASE UNCHANGED vars
  BY <1>11 DEF vars, database, uploads, history, Inv, TypeOK, SlotsAccounted, Readers, Backed,
     Deleting, Putting, Offered
<1> QED BY <1>1, <1>2, <1>3, <1>4, <1>5, <1>6, <1>7, <1>8, <1>9, <1>10, <1>11 DEF Next

LEMMA Invariant == Spec => []Inv
BY InitInv, NextInv, PTL DEF Spec
-----------------------------------------------------------------------------
\* Every variable of RouteStore keeps its type, for any number of uploads,
\* files and storage errors.
THEOREM TypeCorrect == Spec => []TypeOK
<1>1. Inv => TypeOK BY DEF Inv
<1> QED BY <1>1, Invariant, PTL

\* route_file_upload, log_upload: what was answered "stored" stays stored and
\* offered until a deletion begins on its own row.
THEOREM AnsweredIsStored == Spec => []AckedStored
<1>1. Inv => AckedStored
  BY DEF Inv, TypeOK, Offered, Readers, Backed, AckedStored
<1> QED BY <1>1, Invariant, PTL

\* delete_route, delete_log: no upload brings a row's file back after the
\* deletion committed. Inductive with the types alone: the flush of an upload
\* whose row is gone raises.
THEOREM DeletionIsFinal == Spec => []GoneStaysGone
<1>1. Init => GoneStaysGone BY DEF Init, GoneStaysGone, Unnamed
<1>2. TypeOK /\ GoneStaysGone /\ [Next]_vars => GoneStaysGone'
  <2> SUFFICES ASSUME TypeOK, GoneStaysGone, [Next]_vars,
                      NEW k \in Key, row'[k[1]] = "gone"
               PROVE  file'[k].n = 0
    BY DEF GoneStaysGone
  <2> k[1] \in Rows BY KeyRow
  <2>1. CASE RouteStart \/ LogStart
    <3>a. PICK r \in Rows : \E declared \in SUBSET KeysOf(r) : Start(r, declared)
      BY <2>1 DEF RouteStart, LogStart, Rows
    <3>1. PICK declared \in SUBSET KeysOf(r) : Start(r, declared) BY <3>a
    <3>2. k[1] # r /\ k \notin declared /\ row[k[1]] = "gone" BY <3>1 DEF Start, KeysOf, TypeOK
    <3> QED BY <3>1, <3>2 DEF Start, GoneStaysGone
  <2>2. ASSUME NEW h \in Handlers, PutCommit(h) PROVE file'[k].n = 0
    <3>1. row[k[1]] = "gone" /\ file[k].n = 0
      BY <2>2 DEF PutCommit, GoneStaysGone
    <3>2. file'[k] = file[k]
      <4>1. CASE put[h].key = k /\ MayCommit(k, put[h].seen)
        <5>1. put[h].seen.up BY <4>1, <3>1 DEF MayCommit, Live
        <5>2. Stored(file[k], put[h].seen) = file[k] BY <5>1 DEF Stored
        <5> QED BY <2>2, <4>1, <5>2 DEF PutCommit, TypeOK
      <4>2. CASE ~(put[h].key = k /\ MayCommit(k, put[h].seen))
        BY <2>2, <4>2 DEF PutCommit, TypeOK
      <4> QED BY <4>1, <4>2
    <3> QED BY <3>1, <3>2
  <2>3. CASE DelCommit BY <2>3 DEF DelCommit, GoneStaysGone, Unnamed, TypeOK
  <2>4. CASE RecCommit BY <2>4 DEF RecCommit, GoneStaysGone, TypeOK, FileRow
  <2>5. CASE UNCHANGED database BY <2>5 DEF database, GoneStaysGone
  <2> QED
    BY <2>1, <2>2, <2>3, <2>4, <2>5
    DEF Next, FilePut, LogPut, PutLoad, PutSlot, PutStore, PutRaises, DeleteRoute, DeleteLog,
        DeleteAllRoutes, RunRetention, DelRows, DelRaises, DelLoad, DelObject, RecBegin, RecHead,
        DownloadRouteFile, DownloadLog, Download, StreamSize, StreamGet, ViewLoad, Crash, vars, database
<1> QED BY <1>1, <1>2, TypeCorrect, PTL DEF Spec

\* _upload_slots: no interleaving of uploads, errors and restarts loses a slot.
THEOREM NoSlotLost == Spec => []SlotsAccounted
<1>1. Inv => SlotsAccounted BY DEF Inv
<1> QED BY <1>1, Invariant, PTL

\* download_route_file, download_log, stream_route_file: a file that was
\* offered is missing when it is fetched only if its row is being deleted.
THEOREM Served == Spec => ServedUnlessDeleted
<1>1. Inv => ((DownloadRouteFile \/ DownloadLog \/ StreamSize \/ StreamGet) /\ view.key \notin objects
                => view.key[1] \in touched)
  BY DEF Inv, Readers, Backed, DownloadRouteFile, DownloadLog, Download, StreamSize, StreamGet
<1> QED BY <1>1, Invariant, PTL DEF Spec, ServedUnlessDeleted
-----------------------------------------------------------------------------
(* Refinement: each step of the handlers is a step of Archive, or none *)

\* Only files of rows in use are flagged: a deletion leaves no flag behind, and
\* no late commit raises one after it.
UpIsLive == \A k \in Key : file[k].up => row[k[1]] = "live"

LEMMA UpIsLiveStep == TypeOK /\ UpIsLive /\ [Next]_vars => UpIsLive'
<1> SUFFICES ASSUME TypeOK, UpIsLive, [Next]_vars, NEW k \in Key, file'[k].up
             PROVE  row'[k[1]] = "live"
  BY DEF UpIsLive
<1> k[1] \in Rows BY KeyRow
<1>1. CASE RouteStart \/ LogStart
  <2>a. PICK r \in Rows : \E declared \in SUBSET KeysOf(r) : Start(r, declared)
    BY <1>1 DEF RouteStart, LogStart, Rows
  <2>1. PICK declared \in SUBSET KeysOf(r) : Start(r, declared) BY <2>a
  <2>2. file[k].up BY <2>1 DEF Start, Declared
  <2> QED BY <2>1, <2>2 DEF Start, UpIsLive, TypeOK
<1>2. ASSUME NEW h \in Handlers, PutCommit(h) PROVE row'[k[1]] = "live"
  <2>1. row' = row BY <1>2 DEF PutCommit
  <2>2. CASE file'[k] = file[k] BY <2>1, <2>2 DEF UpIsLive
  <2>3. CASE file'[k] # file[k]
    <3>1. put[h].key = k /\ MayCommit(k, put[h].seen) BY <1>2, <2>3 DEF PutCommit, TypeOK
    <3>2. ~put[h].seen.up BY <1>2, <2>3, <3>1 DEF PutCommit, Stored, TypeOK
    <3> QED BY <2>1, <3>1, <3>2 DEF MayCommit, Live
  <2> QED BY <2>2, <2>3
<1>3. CASE DelCommit BY <1>3 DEF DelCommit, UpIsLive, Unnamed, TypeOK
<1>4. CASE RecCommit BY <1>4 DEF RecCommit, UpIsLive, TypeOK, FileRow
<1>5. CASE UNCHANGED database BY <1>5 DEF database, UpIsLive
<1> QED
  BY <1>1, <1>2, <1>3, <1>4, <1>5
  DEF Next, FilePut, LogPut, PutLoad, PutSlot, PutStore, PutRaises, DeleteRoute, DeleteLog,
      DeleteAllRoutes, RunRetention, DelRows, DelRaises, DelLoad, DelObject, RecBegin, RecHead,
      DownloadRouteFile, DownloadLog, Download, StreamSize, StreamGet, ViewLoad, Crash, vars, database

\* The row, the objects and the history decide what the archive shows.
LEMMA ShelfStutters ==
  ASSUME UNCHANGED <<database, objects, history>>
  PROVE  UNCHANGED Shelf!avars
BY DEF database, history, Stage, Readable, Shelf!avars

\* Whatever happens to the files of rows that are being deleted.
LEMMA ShelfWavers ==
  ASSUME \A r \in Rows : Stage(r)' = Stage(r),
         \A k \in Key : Stage(k[1]) # "ending" => (k \in Readable' <=> k \in Readable),
         acked \subseteq acked', \A k \in acked' : k \in acked \/ (k \in Key /\ Stage(k[1]) # "open")
  PROVE  Shelf!Next
<1> DEFINE loose == {k \in Key : [r \in Rows |-> Stage(r)][k[1]] = "ending"}
       late == {k \in Key : [r \in Rows |-> Stage(r)][k[1]] # "open"}
<1>1. late = {k \in Key : Stage(k[1]) # "open"} /\ loose = {k \in Key : Stage(k[1]) = "ending"} BY KeyRow
<1>2. Readable \subseteq Key /\ Readable' \subseteq Key BY DEF Readable
<1>3. Readable' \ loose = Readable \ loose BY <1>1, <1>2
<1>4. acked' \subseteq acked \cup late BY <1>1
<1>5. [r \in Rows |-> Stage(r)]' = [r \in Rows |-> Stage(r)] OBVIOUS
<1>6. Shelf!Waver BY <1>3, <1>4, <1>5 DEF Shelf!Waver
<1> QED BY <1>6 DEF Shelf!Next

LEMMA StartSimulates ==
  ASSUME Inv, UpIsLive, NEW r \in Rows, NEW declared \in SUBSET Key, Start(r, declared),
         \A k \in declared : k[1] = r
  PROVE  UNCHANGED Shelf!avars
<1>1. \A k \in Key : file'[k].up = file[k].up
  <2> TAKE k \in Key
  <2>1. CASE k \in declared
    <3>1. file'[k].up = FALSE BY <2>1 DEF Start, Declared
    <3>2. ~file[k].up BY <2>1 DEF Start, UpIsLive
    <3>3. file[k].up \in BOOLEAN BY DEF Inv, TypeOK, FileRow
    <3> QED BY <3>1, <3>2, <3>3
  <2>2. CASE k \notin declared BY <2>2 DEF Start
  <2> QED BY <2>1, <2>2
<1>2. Readable' = Readable BY <1>1 DEF Start, Readable
<1>3. \A s \in Rows : Stage(s)' = Stage(s) BY DEF Start, Stage, Inv, TypeOK, history
<1>4. acked' = acked BY DEF Start, history
<1> QED BY <1>2, <1>3, <1>4 DEF Shelf!avars

LEMMA PutSimulates ==
  ASSUME Inv, UpIsLive, NEW h \in Handlers, PutStore(h) \/ PutCommit(h)
  PROVE  [Shelf!Next]_(Shelf!avars)
<1> DEFINE k == put[h].key
<1>0. k \in Key /\ k[1] \in Rows
  BY KeyRow DEF Inv, TypeOK, Putting, PutStore, PutCommit
<1>1. CASE PutStore(h)
  <2>1. \A r \in Rows : Stage(r)' = Stage(r) BY <1>1 DEF PutStore, Stage, database, history
  <2>2. \A j \in Key : Stage(j[1]) # "ending" => (j \in Readable' <=> j \in Readable)
    <3> TAKE j \in Key
    <3> HAVE Stage(j[1]) # "ending"
    <3>1. file[j].up => j \in objects
      BY KeyRow DEF Stage, UpIsLive, Inv, Readers, Backed
    <3> QED BY <1>1, <3>1 DEF PutStore, Readable, database
  <2> QED BY <1>1, <2>1, <2>2, ShelfWavers DEF PutStore, history
<1>2. CASE PutCommit(h) /\ ~MayCommit(k, put[h].seen)
  BY <1>2, ShelfStutters DEF PutCommit, database, history
<1>3. CASE PutCommit(h) /\ MayCommit(k, put[h].seen)
  <2>1. \A r \in Rows : Stage(r)' = Stage(r) BY <1>3 DEF PutCommit, Stage
  <2>2. /\ acked' = acked \cup {k} /\ objects' = objects
        /\ \A j \in Key : j # k => file'[j] = file[j]
    BY <1>3, <1>0 DEF PutCommit, Inv, TypeOK
  <2>3. \A j \in Key : j # k => (j \in Readable' <=> j \in Readable)
    BY <2>2 DEF Readable
  <2>4. CASE k[1] \in touched
    <3>1. Stage(k[1]) # "open" BY <2>4 DEF Stage
    <3>2. ASSUME Stage(k[1]) # "ending" PROVE k \in Readable' <=> k \in Readable
      <4>1. ~Live(k[1]) BY <2>4, <3>2 DEF Stage, Live
      <4>2. put[h].seen.up BY <1>3, <4>1 DEF MayCommit
      <4>3. Stored(file[k], put[h].seen) = file[k] BY <4>2 DEF Stored
      <4>4. file'[k] = file[k] BY <1>0, <1>3, <4>3 DEF PutCommit, Inv, TypeOK
      <4> QED BY <2>2, <4>4 DEF Readable
    <3>3. \A j \in Key : Stage(j[1]) # "ending" => (j \in Readable' <=> j \in Readable)
      BY <2>3, <3>2
    <3> QED BY <1>0, <2>1, <2>2, <3>1, <3>3, ShelfWavers
  <2>5. CASE k[1] \notin touched
    <3>1. Stage(k[1]) = "open"
      <4>1. put[h].seen.up => file[k].up BY <1>3, <2>5 DEF Inv, Putting, PutCommit
      <4>2. row[k[1]] = "live" BY <1>0, <1>3, <4>1 DEF UpIsLive, MayCommit, Live
      <4> QED BY <2>5, <4>2 DEF Stage
    <3>2. file'[k].up
      <4>1. put[h].seen.up => file[k].up BY <1>3, <2>5 DEF Inv, Putting, PutCommit
      <4>2. file' = [file EXCEPT ![k] = Stored(@, put[h].seen)] BY <1>3 DEF PutCommit
      <4>3. file'[k] = Stored(file[k], put[h].seen) BY <4>2, <1>0 DEF Inv, TypeOK
      <4>4. file[k] \in FileRow BY <1>0 DEF Inv, TypeOK
      <4> QED BY <4>1, <4>3, <4>4 DEF Stored, FileRow
    <3>3. k \in objects BY <1>3, <2>5 DEF Inv, Readers, Backed, PutCommit
    <3>4. Readable' = Readable \cup {k}
      BY <1>0, <2>2, <2>3, <3>2, <3>3 DEF Readable
    <3>5. Shelf!Upload(k) BY <1>0, <2>1, <2>2, <3>1, <3>4 DEF Shelf!Upload
    <3> QED BY <1>0, <3>5 DEF Shelf!Next
  <2> QED BY <2>4, <2>5
<1> QED BY <1>1, <1>2, <1>3

LEMMA DeletionSimulates ==
  ASSUME Inv, UpIsLive,
         DelCommit \/ (\E r \in Rows : DelLoad(r)) \/ (\E k \in Key : DelObject(k))
  PROVE  [Shelf!Next]_(Shelf!avars)
<1>1. ASSUME NEW r \in Rows, DelLoad(r) PROVE [Shelf!Next]_(Shelf!avars)
  <2>1. /\ touched' = touched \cup {r} /\ UNCHANGED <<row, file, objects, acked>>
    BY <1>1 DEF DelLoad, database
  <2>2. Readable' = Readable BY <2>1 DEF Readable
  <2>3. \A s \in Rows : s # r => Stage(s)' = Stage(s) BY <2>1 DEF Stage
  <2>4. CASE Stage(r) = "open"
    <3>1. Stage(r)' = "ending" BY <2>1, <2>4 DEF Stage
    <3>2. Shelf!BeginDeletion(r)
      BY <2>1, <2>2, <2>3, <2>4, <3>1 DEF Shelf!BeginDeletion
    <3> QED BY <3>2 DEF Shelf!Next
  <2>5. CASE Stage(r) # "open"
    <3>1. Stage(r)' = Stage(r) BY <2>1, <2>5 DEF Stage
    <3>2. \A s \in Rows : Stage(s)' = Stage(s) BY <2>3, <3>1
    <3> QED BY <2>1, <2>2, <3>2 DEF Shelf!avars
  <2> QED BY <2>4, <2>5
<1>2. ASSUME NEW k \in Key, DelObject(k) PROVE [Shelf!Next]_(Shelf!avars)
  <2>1. k[1] \in touched BY <1>2 DEF Inv, Deleting, DelObject
  <2>2. objects' = objects \ {k} /\ UNCHANGED <<row, file, acked, touched>>
    BY <1>2 DEF DelObject, database, history
  <2>3. \A r \in Rows : Stage(r)' = Stage(r) BY <2>2 DEF Stage
  <2>4. \A j \in Key : Stage(j[1]) # "ending" => (j \in Readable' <=> j \in Readable)
    BY <2>1, <2>2 DEF Readable, Stage, UpIsLive
  <2> QED BY <2>2, <2>3, <2>4, ShelfWavers
<1>3. CASE DelCommit
  <2>1. \A r \in del.rows : r \in touched BY <1>3 DEF Inv, Deleting, DelCommit
  <2>2. UNCHANGED <<objects, acked, touched>> BY <1>3 DEF DelCommit, history
  <2>3. del.rows \in SUBSET Rows BY DEF Inv, TypeOK
  <2>4. \A r \in Rows : Stage(r)' = IF r \in del.rows THEN "gone" ELSE Stage(r)
    BY <1>3, <2>2 DEF DelCommit, Stage
  <2>5. Readable' = {k \in Readable : k[1] \notin del.rows}
    BY <1>3, <2>2 DEF DelCommit, Readable, Unnamed
  <2>6. \A r \in del.rows : Stage(r) # "open" BY <2>1 DEF Stage
  <2>7. Shelf!EndDeletion(del.rows)
    BY <2>2, <2>3, <2>4, <2>5, <2>6 DEF Shelf!EndDeletion
  <2> QED BY <2>3, <2>7 DEF Shelf!Next
<1> QED BY <1>1, <1>2, <1>3

LEMMA ReconcileSimulates ==
  ASSUME Inv, UpIsLive, RecCommit
  PROVE  Shelf!Next
<1>1. UNCHANGED <<row, objects, acked, touched>> BY DEF RecCommit, history
<1>2. \A k \in Key : /\ file'[k].up => file[k].up
                     /\ k[1] \notin touched => file'[k] = file[k]
  BY DEF RecCommit, Inv, Readers, TypeOK, FileRow
<1>3. \A r \in Rows : Stage(r)' = Stage(r) BY <1>1 DEF Stage
<1>4. \A k \in Key : Stage(k[1]) # "ending" => (k \in Readable' <=> k \in Readable)
  BY <1>1, <1>2 DEF Readable, Stage, UpIsLive
<1> QED BY <1>1, <1>3, <1>4, ShelfWavers

LEMMA StepSimulates == Inv /\ UpIsLive /\ [Next]_vars => [Shelf!Next]_(Shelf!avars)
<1> SUFFICES ASSUME Inv, UpIsLive, [Next]_vars PROVE [Shelf!Next]_(Shelf!avars) OBVIOUS
<1>1. CASE RouteStart \/ LogStart
  <2>1. PICK r \in Rows : \E declared \in SUBSET KeysOf(r) : Start(r, declared)
    BY <1>1 DEF RouteStart, LogStart, Rows
  <2>2. PICK declared \in SUBSET KeysOf(r) : Start(r, declared) BY <2>1
  <2>3. declared \in SUBSET Key /\ \A k \in declared : k[1] = r BY DEF KeysOf
  <2> QED BY <2>2, <2>3, StartSimulates
<1>2. ASSUME NEW h \in Handlers, PutStore(h) \/ PutCommit(h) PROVE [Shelf!Next]_(Shelf!avars)
  BY <1>2, PutSimulates
<1>3. CASE DelCommit \/ (\E r \in Rows : DelLoad(r)) \/ (\E k \in Key : DelObject(k))
  BY <1>3, DeletionSimulates
<1>4. CASE RecCommit BY <1>4, ReconcileSimulates
<1>5. CASE UNCHANGED <<database, objects, history>> BY <1>5, ShelfStutters
<1> QED
  BY <1>1, <1>2, <1>3, <1>4, <1>5
  DEF Next, FilePut, LogPut, PutLoad, PutSlot, PutRaises, DeleteRoute, DeleteLog,
      DeleteAllRoutes, RunRetention, DelRows, DelRaises, RecBegin, RecHead,
      DownloadRouteFile, DownloadLog, Download, StreamSize, StreamGet, ViewLoad, Crash, vars

\* ingest.py, storage.py, routes_service.py: the database, the object store, and
\* every handler between them implement Archive, for any rows, files, uploads
\* in progress, storage errors and restarts.
THEOREM ImplementsArchive == Spec => KeepsArchive
<1>1. Init => UpIsLive BY DEF Init, UpIsLive, Unnamed
<1>2. Inv /\ UpIsLive /\ [Next]_vars => UpIsLive' BY UpIsLiveStep DEF Inv
<1>3. Init => Shelf!Init BY DEF Init, Shelf!Init, Stage, Readable, Unnamed
<1> QED BY <1>1, <1>2, <1>3, StepSimulates, Invariant, PTL DEF Spec, KeepsArchive, Shelf!Spec
=============================================================================
