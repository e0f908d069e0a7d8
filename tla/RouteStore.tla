------------------------------ MODULE RouteStore ------------------------------
(***************************************************************************)
(* What the stack keeps of uploaded drives and logs: the rows in the       *)
(* database, the bytes in the object store, and the handlers that write,   *)
(* delete, reconcile and serve them. The two stores are written one after  *)
(* the other, every handler interleaves with every other at its awaits,    *)
(* and a handler may outlive its request or die with the process.          *)
(*                                                                         *)
(* A row is a routes row with its route_files or a logs row with its one   *)
(* content; a key names one object. Nothing in the schema keeps two        *)
(* route_files rows of one name apart, so a key may have two. Sizes,       *)
(* content types and the geometry of a route are left out; the row's other *)
(* columns are in Uploads.                                                 *)
(***************************************************************************)
EXTENDS Naturals, FiniteSets

CONSTANTS
  Routes, Logs,   \* row ids
  Files,          \* file names of a route
  Handlers,       \* bound: PUT requests in progress at a time
  Slots,          \* max_concurrent_uploads
  MaxFaults       \* bound: storage errors and restarts of the process

ASSUME RouteStoreAssumption ==
  /\ Routes \cap Logs = {}
  /\ IsFiniteSet(Handlers)
  /\ Slots \in Nat \ {0} /\ MaxFaults \in Nat

VARIABLES
  row,       \* "new", "live" or "gone"
  file,      \* per key: the rows that name it, and their uploaded flag
  objects,   \* keys present in the object store
  put,       \* the PUT handlers
  free,      \* free slots of _upload_slots
  del,       \* the deletion or retention run in progress
  rec,       \* the reconcile run in progress
  view,      \* a viewer's download or stream request
  acked,     \* keys whose PUT was answered "stored"
  touched,   \* rows a deletion has begun on
  faults

database == <<row, file>>
uploads == <<put, free>>
history == <<acked, touched>>
vars == <<database, objects, uploads, del, rec, view, history, faults>>

Rows == Routes \cup Logs
Key == (Routes \X Files) \cup (Logs \X {"content"})
KeysOf(r) == {k \in Key : k[1] = r}

Unnamed == [n |-> 0, up |-> FALSE]

\* Mutant: the device's word for a file counts as its upload.
DeclaredUploaded == [n |-> 1, up |-> TRUE]

Declared == [n |-> 1, up |-> FALSE]

IdlePut == [pc |-> "idle", key |-> <<>>, seen |-> Unnamed]
IdleDel == [pc |-> "idle", rows |-> {}, todo |-> {}, keys |-> {}]
IdleRec == [pc |-> "idle", todo |-> {}, gone |-> {}]
IdleView == [pc |-> "idle", key |-> <<>>]

FileRow == [n : 0 .. 2, up : BOOLEAN]

TypeOK ==
  /\ row \in [Rows -> {"new", "live", "gone"}]
  /\ file \in [Key -> FileRow]
  /\ objects \subseteq Key
  /\ put \in [Handlers -> [pc : {"idle", "loaded", "storing", "stored"},
                           key : Key \cup {<<>>}, seen : FileRow]]
  /\ free \in 0 .. Slots
  /\ del \in [pc : {"idle", "busy"}, rows : SUBSET Rows, todo : SUBSET Rows,
              keys : SUBSET Key]
  /\ rec \in [pc : {"idle", "heads"}, todo : SUBSET Key, gone : SUBSET Key]
  /\ view \in [pc : {"idle", "loaded", "sized"}, key : Key \cup {<<>>}]
  /\ acked \subseteq Key /\ touched \subseteq Rows
  /\ faults \in 0 .. MaxFaults

Init ==
  /\ row = [r \in Rows |-> "new"]
  /\ file = [k \in Key |-> Unnamed]
  /\ objects = {}
  /\ put = [h \in Handlers |-> IdlePut] /\ free = Slots
  /\ del = IdleDel /\ rec = IdleRec /\ view = IdleView
  /\ acked = {} /\ touched = {}
  /\ faults = 0

Live(r) == row[r] = "live"
-----------------------------------------------------------------------------
(* The row, and the files the device declares with it *)

Start(r, declared) ==
  /\ row[r] = "new"
  /\ row' = [row EXCEPT ![r] = "live"]
  /\ file' = [k \in Key |-> IF k \in declared THEN Declared ELSE file[k]]
  /\ UNCHANGED <<objects, uploads, del, rec, view, history, faults>>

\* route_start: any part of the files may be declared.
RouteStart == \E r \in Routes : \E declared \in SUBSET KeysOf(r) : Start(r, declared)

\* log_start: the row has room for its one content.
LogStart == \E r \in Logs : Start(r, KeysOf(r))
-----------------------------------------------------------------------------
(* route_file_upload and log_upload: read, store, commit *)

PutLoad(h, k) ==
  /\ put[h].pc = "idle" /\ Live(k[1])
  /\ put' = [put EXCEPT ![h] = [pc |-> "loaded", key |-> k, seen |-> file[k]]]
  /\ UNCHANGED <<database, objects, free, del, rec, view, history, faults>>

\* The row and the file row are read. Two rows of one name: the query raises.
FilePut(h) == \E k \in Key : k[1] \in Routes /\ file[k].n < 2 /\ PutLoad(h, k)

LogPut(h) == \E k \in Key : k[1] \in Logs /\ PutLoad(h, k)

\* async with _upload_slots: the body is in memory since the signature check.
PutSlot(h) ==
  /\ put[h].pc = "loaded" /\ free > 0 /\ free' = free - 1
  /\ put' = [put EXCEPT ![h].pc = "storing"]
  /\ UNCHANGED <<database, objects, del, rec, view, history, faults>>

\* put_object
PutStore(h) ==
  /\ put[h].pc = "storing" /\ free' = free + 1
  /\ objects' = objects \cup {put[h].key}
  /\ put' = [put EXCEPT ![h].pc = "stored"]
  /\ UNCHANGED <<database, del, rec, view, history, faults>>

\* Mutant: the slot is given back on success only.
PutRaisesKeeping(h) ==
  /\ put[h].pc = "storing" /\ UNCHANGED free
  /\ faults < MaxFaults /\ faults' = faults + 1
  /\ put' = [put EXCEPT ![h] = IdlePut]
  /\ UNCHANGED <<database, objects, del, rec, view, history>>

\* put_object raises: a 500, and the slot is released all the same.
PutRaises(h) ==
  /\ put[h].pc = "storing" /\ free' = free + 1
  /\ faults < MaxFaults /\ faults' = faults + 1
  /\ put' = [put EXCEPT ![h] = IdlePut]
  /\ UNCHANGED <<database, objects, del, rec, view, history>>

\* Mutant: an insert-or-update of the file row, with no route behind it.
MayCommitAlways(k, seen) == TRUE

\* Flushing a row that was deleted meanwhile raises (StaleDataError, or the
\* foreign key of an inserted one); one that was read as uploaded is not flushed.
MayCommit(k, seen) == Live(k[1]) \/ seen.up

\* Only changed columns are written: a file that was read as uploaded is not
\* written again. One that was not read is inserted, whoever else inserted it
\* meanwhile (n = 2 stands for two or more).
Stored(now, seen) ==
  IF seen.up THEN now
  ELSE IF seen.n = 0 THEN [n |-> IF now.n = 0 THEN 1 ELSE 2, up |-> TRUE]
  ELSE [now EXCEPT !.up = TRUE]

\* Two handlers may have read the same nothing; a third reads their rows.
PutCommit(h) ==
  LET k == put[h].key IN
  /\ put[h].pc = "stored"
  /\ IF MayCommit(k, put[h].seen)
     THEN /\ file' = [file EXCEPT ![k] = Stored(@, put[h].seen)]
          /\ acked' = acked \cup {k}
     ELSE UNCHANGED <<file, acked>>
  /\ put' = [put EXCEPT ![h] = IdlePut]
  /\ UNCHANGED <<row, objects, free, del, rec, view, touched, faults>>
-----------------------------------------------------------------------------
(* delete_route, delete_log, delete_all_routes, run_retention *)

Idle == del.pc = "idle"

\* One transaction for all the rows.
DelRows(rs) ==
  /\ Idle /\ rs # {} /\ \A r \in rs : Live(r)
  /\ del' = [pc |-> "busy", rows |-> rs, todo |-> rs, keys |-> {}]
  /\ UNCHANGED <<database, objects, uploads, rec, view, history, faults>>

DeleteRoute == \E r \in Routes : DelRows({r})
DeleteLog == \E r \in Logs : DelRows({r})
DeleteAllRoutes == DelRows({r \in Routes : Live(r)})

\* Whatever is older than the two cutoffs, routes and logs together.
RunRetention == \E rs \in SUBSET Rows : DelRows(rs)

Keyed(r) == {k \in KeysOf(r) : file[k].up}

\* The stored keys of the row; a route without any falls back to its prefix.
Doomed(r) ==
  IF Keyed(r) = {} /\ r \in Routes THEN objects \cap KeysOf(r) ELSE Keyed(r)

DelLoad(r) ==
  /\ del.pc = "busy" /\ del.keys = {} /\ r \in del.todo
  /\ del' = [del EXCEPT !.todo = @ \ {r}, !.keys = Doomed(r)]
  /\ touched' = touched \cup {r}
  /\ UNCHANGED <<database, objects, uploads, rec, view, acked, faults>>

DelObject(k) ==
  /\ k \in del.keys
  /\ objects' = objects \ {k}
  /\ del' = [del EXCEPT !.keys = @ \ {k}]
  /\ UNCHANGED <<database, uploads, rec, view, history, faults>>

\* A storage error is swallowed; the other objects of this row stay.
DelRaises ==
  /\ del.keys # {} /\ faults < MaxFaults /\ faults' = faults + 1
  /\ del' = [del EXCEPT !.keys = {}]
  /\ UNCHANGED <<database, objects, uploads, rec, view, history>>

\* The commit; the file rows go with their route.
DelCommit ==
  /\ del.pc = "busy" /\ del.todo = {} /\ del.keys = {}
  /\ row' = [r \in Rows |-> IF r \in del.rows THEN "gone" ELSE row[r]]
  /\ file' = [k \in Key |-> IF k[1] \in del.rows THEN Unnamed ELSE file[k]]
  /\ del' = IdleDel
  /\ UNCHANGED <<objects, uploads, rec, view, history, faults>>
-----------------------------------------------------------------------------
(* reconcile_storage *)

RecBegin ==
  /\ rec.pc = "idle" /\ \E k \in Key : file[k].up
  /\ rec' = [pc |-> "heads", todo |-> {k \in Key : file[k].up}, gone |-> {}]
  /\ UNCHANGED <<database, objects, uploads, del, view, history, faults>>

\* Mutant: an object that is there counts as missing when its row has a twin.
MissingOrTwin(k) == k \notin objects \/ file[k].n = 2

Missing(k) == k \notin objects

RecHead(k) ==
  /\ k \in rec.todo
  /\ rec' = [rec EXCEPT !.todo = @ \ {k}, !.gone = IF Missing(k) THEN @ \cup {k} ELSE @]
  /\ UNCHANGED <<database, objects, uploads, del, view, history, faults>>

\* One commit for all: a row deleted meanwhile makes it fail as a whole.
RecCommit ==
  /\ rec.pc = "heads" /\ rec.todo = {}
  /\ file' = IF \A k \in rec.gone : Live(k[1])
             THEN [k \in Key |-> IF k \in rec.gone THEN [file[k] EXCEPT !.up = FALSE]
                                 ELSE file[k]]
             ELSE file
  /\ rec' = IdleRec
  /\ UNCHANGED <<row, objects, uploads, del, view, history, faults>>
-----------------------------------------------------------------------------
(* download_route_file, download_log, stream_route_file, route_hls_playlist *)

\* Mutant: declared files are offered too.
ViewDeclared(k) ==
  /\ view.pc = "idle" /\ Live(k[1]) /\ file[k].n > 0
  /\ view' = [pc |-> "loaded", key |-> k]
  /\ UNCHANGED <<database, objects, uploads, del, rec, history, faults>>

\* A file the pages and the playlist offer is clicked.
ViewLoad(k) ==
  /\ view.pc = "idle" /\ Live(k[1]) /\ file[k].up
  /\ view' = [pc |-> "loaded", key |-> k]
  /\ UNCHANGED <<database, objects, uploads, del, rec, history, faults>>

\* A download gets the object; ObjectNotFound is a 404.
Download(rs) ==
  /\ view.pc = "loaded" /\ view.key[1] \in rs
  /\ view' = IdleView
  /\ UNCHANGED <<database, objects, uploads, del, rec, history, faults>>

DownloadRouteFile == Download(Routes)
DownloadLog == Download(Logs)

\* A stream asks for the size first (404 when it is gone) ...
StreamSize ==
  /\ view.pc = "loaded" /\ view.key[1] \in Routes
  /\ view' = IF view.key \in objects THEN [view EXCEPT !.pc = "sized"] ELSE IdleView
  /\ UNCHANGED <<database, objects, uploads, del, rec, history, faults>>

\* ... and then gets the bytes, where nothing catches ObjectNotFound: a 500.
StreamGet ==
  /\ view.pc = "sized" /\ view' = IdleView
  /\ UNCHANGED <<database, objects, uploads, del, rec, history, faults>>
-----------------------------------------------------------------------------
\* The process restarts: every handler is gone, uncommitted work with it.
Crash ==
  /\ faults < MaxFaults /\ faults' = faults + 1
  /\ put' = [h \in Handlers |-> IdlePut] /\ free' = Slots
  /\ del' = IdleDel /\ rec' = IdleRec /\ view' = IdleView
  /\ UNCHANGED <<database, objects, history>>

Next ==
  \/ RouteStart \/ LogStart
  \/ \E h \in Handlers :
       \/ FilePut(h) \/ LogPut(h)
       \/ PutSlot(h) \/ PutStore(h) \/ PutRaises(h) \/ PutCommit(h)
  \/ DeleteRoute \/ DeleteLog \/ DeleteAllRoutes \/ RunRetention
  \/ DelCommit \/ DelRaises
  \/ (\E r \in Rows : DelLoad(r)) \/ (\E k \in Key : DelObject(k))
  \/ RecBegin \/ RecCommit \/ \E k \in Key : RecHead(k)
  \/ DownloadRouteFile \/ DownloadLog \/ StreamSize \/ StreamGet \/ \E k \in Key : ViewLoad(k)
  \/ Crash

Spec == Init /\ [][Next]_vars
-----------------------------------------------------------------------------
(* Properties *)

Readable == {k \in Key : file[k].up /\ k \in objects}
Stage(r) ==
  IF row[r] = "gone" THEN "gone" ELSE IF r \in touched THEN "ending" ELSE "open"

\* ingest.route_file_upload, storage, routes_service: the two stores and their
\* handlers look like one shelf. A file of an open row becomes readable with the
\* answer to its upload, not before, and stays so; a deletion is final; only in
\* between do the files of that row waver.
Shelf == INSTANCE Archive WITH
           stage <- [r \in Rows |-> Stage(r)], shelf <- Readable, answered <- acked
KeepsArchive == Shelf!Spec

\* route_file_upload ("stored"): a file whose upload was answered is stored and
\* offered, whatever other uploads, storage errors, restarts, reconcile runs
\* and deletions of other rows do, until a deletion begins on its own row.
AckedStored ==
  \A k \in acked : k[1] \notin touched => file[k].up /\ k \in objects

\* delete_route, with the cascade of models.Route.files: once the deletion of
\* a row is committed, no upload that was under way brings a file row back.
GoneStaysGone ==
  \A k \in Key : row[k[1]] = "gone" => file[k].n = 0

\* _upload_slots ("excess uploads await a slot"): slots are never lost, so the
\* uploads cannot come to a halt; a storage error or a restart gives them back.
SlotsAccounted ==
  free + Cardinality({h \in Handlers : put[h].pc = "storing"}) = Slots

\* download and stream ("a route file whose row exists but whose stored bytes
\* are gone"): a file that was offered is missing when it is fetched only if a
\* deletion has begun on its row.
ServedUnlessDeleted ==
  [][(DownloadRouteFile \/ DownloadLog \/ StreamSize \/ StreamGet) /\ view.key \notin objects
       => view.key[1] \in touched]_vars
=============================================================================
