------------------------------- MODULE Uploads -------------------------------
(***************************************************************************)
(* How one recorded drive reaches the stack: the agent's upload loop       *)
(* (scan the finished segments, declare the route, send the playable       *)
(* files, complete it, send the archive, complete it again, write down     *)
(* what landed) and the ingest handlers that answer it.                    *)
(*                                                                         *)
(* The drive is recorded in segments; a file is a segment and a kind. A    *)
(* GPS track is the set of segments that contributed a stretch to it; its  *)
(* number of points is their number. A routes row is reused by name and    *)
(* never comes back under the same id once it is deleted.                  *)
(*                                                                         *)
(* The agent sends one request at a time, but the server knows nothing of  *)
(* that: when the agent restarts (its first cycle follows at once) or its  *)
(* client gives up, the start it was waiting for goes on in the server and *)
(* may read and write beside the next one. The other handlers end with     *)
(* their request; RouteStore has what overlapping uploads do.              *)
(***************************************************************************)
EXTENDS Naturals, FiniteSets

CONSTANTS
  MaxSeg,     \* bound: segments of the drive
  MaxRows,    \* bound: routes rows the drive may get
  Configs,    \* drive_upload modes with the cabin toggle, on the device
  TooBig,     \* the files whose body is over max_upload_bytes
  Scenarios   \* the values of scenario

ASSUME UploadsAssumption ==
  /\ MaxSeg \in Nat /\ MaxRows \in Nat
  /\ Configs \subseteq [mode : {"off", "qcamera", "full"}, cabin : BOOLEAN]
  /\ Scenarios \subseteq [configs : SUBSET Configs, points : Nat, faults : Nat]

VARIABLES
  scenario,             \* fixed: the settings the owner chooses among, the longest
                        \* track RouteStartRequest accepts, and the bound on
                        \* failed requests, lost answers and agent restarts
  cfg, onroad, closed,  \* the device: its toggles, the car, finished segments
  done, sentTracks,     \* uploaded_segments.json: files, and "route/track/<n>"
  job,                  \* the route payload the loop is working through
  own, left,            \* route_start: of the agent's request; of one it gave up
  raced,                \* history: two starts have been past their lookup at once
  rows, db,             \* ids given out; the rows, deleted ones included
  faults

device == <<scenario, cfg, onroad, closed>>
file == <<done, sentTracks>>
starts == <<own, left, raced>>
api == <<rows, db>>
vars == <<device, file, job, starts, api, faults>>

Seg == 1 .. MaxSeg
Kind == {"qcamera", "fcamera", "dcamera"}
File == Seg \X Kind
Row == 1 .. MaxRows

NoRoute == [st |-> "none", nseg |-> 0, track |-> {}, files |-> {}, stored |-> {},
            dur |-> 0, dist |-> 0, size |-> 0, open |-> FALSE]
NoJob == [pc |-> "idle", row |-> 0, mark |-> 0, todo |-> {}, ok |-> {}]
\* A route_start: what it read (row, old), and its payload (nseg, track, files).
NoStart == [pc |-> "none", row |-> 0, old |-> {}, nseg |-> 0, track |-> {}, files |-> {}]

Route == [st : {"none", "uploading", "complete", "deleted"}, nseg : 0 .. MaxSeg,
          track : SUBSET Seg, files : SUBSET File, stored : SUBSET File,
          dur : 0 .. MaxSeg, dist : 0 .. MaxSeg, size : Nat, open : BOOLEAN]
Job == [pc : {"idle", "start", "playable", "archive", "mark"}, row : 0 .. MaxRows,
        mark : 0 .. MaxSeg, todo : SUBSET File, ok : SUBSET File]
Start == [pc : {"none", "asked", "read"}, row : 0 .. MaxRows, old : SUBSET Seg,
          nseg : 0 .. MaxSeg, track : SUBSET Seg, files : SUBSET File]

TypeOK ==
  /\ scenario \in Scenarios
  /\ cfg \in Configs /\ onroad \in BOOLEAN /\ closed \in 0 .. MaxSeg
  /\ done \subseteq File /\ sentTracks \subseteq Seg
  /\ job \in Job /\ own \in Start /\ left \in Start /\ raced \in BOOLEAN
  /\ rows \in 0 .. MaxRows /\ db \in [Row -> Route]
  /\ faults \in Nat

Init ==
  /\ scenario \in Scenarios
  /\ cfg \in scenario.configs /\ onroad = FALSE /\ closed = 0
  /\ done = {} /\ sentTracks = {}
  /\ job = NoJob /\ own = NoStart /\ left = NoStart /\ raced = FALSE
  /\ rows = 0 /\ db = [r \in Row |-> NoRoute]
  /\ faults = 0

Live(r) == r \in Row /\ db[r].st \in {"uploading", "complete"}
LiveRows == {r \in Row : Live(r)}
-----------------------------------------------------------------------------
(* The car and its owner *)

\* loggerd closes a segment: its lock files go.
CloseSegment ==
  /\ closed < MaxSeg /\ closed' = closed + 1
  /\ UNCHANGED <<scenario, cfg, onroad, file, job, starts, api, faults>>

DriveOff ==
  /\ onroad' = ~onroad
  /\ UNCHANGED <<scenario, cfg, closed, file, job, starts, api, faults>>

Configure(c) ==
  /\ c \in scenario.configs /\ cfg' = c
  /\ UNCHANGED <<scenario, onroad, closed, file, job, starts, api, faults>>

\* delete_route, delete_all, retention: the rows go with the route. What had
\* landed is remembered here for MarkedLanded only.
UserDeletes(r) ==
  /\ Live(r) /\ rows < MaxRows
  /\ db' = [db EXCEPT ![r] = [NoRoute EXCEPT !.st = "deleted", !.stored = db[r].stored]]
  /\ UNCHANGED <<device, file, job, starts, rows, faults>>
-----------------------------------------------------------------------------
(* The agent's loop: drive_upload_loop, collect_uploads, upload_route *)

\* _wanted_files
Wanted(c) ==
  {"qcamera"} \cup (IF c.mode = "full" THEN {"fcamera"} ELSE {})
              \cup (IF c.cabin THEN {"dcamera"} ELSE {})

\* scan_drives
Scan(c) == IF c.mode = "off" THEN {} ELSE (1 .. closed) \X Wanted(c)

\* Mutant: files are told apart by segment only.
TodoBySegment(c) == {f \in Scan(c) : \A g \in done : g[1] # f[1]}

\* The files of the payload that uploaded_segments.json does not name.
Todo(c) == Scan(c) \ done

\* extract_route_track: a segment whose qlog cannot be parsed adds nothing.
\* The marker is keyed by the number of segments; 0 stands for no marker.
Extract ==
  IF closed \in sentTracks THEN {[track |-> {}, mark |-> 0]}
  ELSE {[track |-> {}, mark |-> 0]} \cup
       {[track |-> t, mark |-> closed] : t \in SUBSET (1 .. closed)}

\* One cycle begins: offroad, not off, and something to send.
Collect ==
  /\ job.pc = "idle" /\ ~onroad /\ Scan(cfg) # {}
  /\ \E e \in Extract :
       /\ Todo(cfg) # {} \/ e.mark # 0
       /\ job' = [NoJob EXCEPT !.pc = "start", !.mark = e.mark, !.todo = Todo(cfg)]
       /\ own' = [NoStart EXCEPT !.pc = "asked", !.nseg = closed, !.track = e.track,
                                 !.files = Todo(cfg)]
  /\ UNCHANGED <<device, file, left, raced, api, faults>>

\* How a request can end: answered, failed before it did anything, or done
\* with its answer lost.
Outcome == {"ok", "failed", "unheard"}
Charge(o) ==
  faults' = IF o = "ok" THEN faults ELSE faults + 1
Allowed(o) == o = "ok" \/ faults < scenario.faults

-----------------------------------------------------------------------------
(* route_start, in two halves: the lookup of the name, and the commit *)

\* Mutant: the name is not looked up.
FindsNothing(h) == [h EXCEPT !.pc = "read"]

\* The row of this name, with its track.
Finds(h) ==
  IF LiveRows = {} THEN [h EXCEPT !.pc = "read"]
  ELSE LET r == CHOOSE r \in LiveRows : TRUE
       IN [h EXCEPT !.pc = "read", !.row = r, !.old = db[r].track]

\* The schema takes the track, and the lookup finds at most one row.
Answerable(h) == Cardinality(h.track) <= scenario.points /\ Cardinality(LiveRows) <= 1

\* Mutant: the last track wins, as before the fix _apply_track documents.
AdoptAny(old, new) == IF new = {} THEN old ELSE new

\* _apply_track: only a track with more points replaces the stored one.
Adopt(old, new) == IF Cardinality(new) > Cardinality(old) THEN new ELSE old

Declared(h) ==
  [NoRoute EXCEPT !.st = "uploading", !.nseg = h.nseg, !.track = Adopt({}, h.track),
                  !.files = h.files, !.open = TRUE]

\* A new name is inserted; of a row there was, the track is written when it
\* changes, and an uploads row added.
Writes(h) ==
  IF h.row = 0
  THEN /\ rows < MaxRows /\ rows' = rows + 1
       /\ db' = [db EXCEPT ![rows + 1] = Declared(h)]
  ELSE /\ UNCHANGED rows
       /\ db' = IF ~Live(h.row) THEN db
                ELSE [db EXCEPT ![h.row].open = TRUE,
                                ![h.row].track = IF Adopt(h.old, h.track) = h.old THEN @
                                                 ELSE Adopt(h.old, h.track)]

\* The row to be written was deleted between the halves: StaleDataError.
Stale(h) == h.row # 0 /\ ~Live(h.row) /\ Adopt(h.old, h.track) # h.old

\* 422, MultipleResultsFound or StaleDataError: nothing is written.
Raises(h) == (h.pc = "asked" /\ ~Answerable(h)) \/ (h.pc = "read" /\ Stale(h))

StartLoad ==
  /\ own.pc = "asked" /\ Answerable(own)
  /\ own' = Finds(own)
  /\ raced' = (raced \/ left.pc = "read")
  /\ UNCHANGED <<device, file, job, left, api, faults>>

\* The commit, and the request's end: the answer opens the file phase, anything
\* else ends the cycle (upload_route raises, nothing is written down).
StartCommit(o) ==
  /\ own.pc = "read" /\ ~Stale(own) /\ Allowed(o) /\ Charge(o)
  /\ IF o = "failed" THEN UNCHANGED api ELSE Writes(own)
  /\ job' = IF o # "ok" THEN NoJob
            ELSE [job EXCEPT !.pc = "playable",
                             !.row = IF own.row = 0 THEN rows + 1 ELSE own.row,
                             !.mark = IF Cardinality(Adopt(own.old, own.track))
                                           >= Cardinality(own.track) THEN @ ELSE 0]
  /\ own' = NoStart
  /\ UNCHANGED <<device, file, left, raced>>

StartRaises ==
  /\ Raises(own) /\ own' = NoStart /\ job' = NoJob
  /\ UNCHANGED <<device, file, left, raced, api, faults>>

\* The start nobody waits for any more. Its insert leaves a row id for the
\* agent's own (bound).
LeftLoad ==
  /\ left.pc = "asked" /\ Answerable(left)
  /\ left' = Finds(left)
  /\ raced' = (raced \/ own.pc = "read")
  /\ UNCHANGED <<device, file, job, own, api, faults>>

LeftCommit ==
  /\ left.pc = "read" /\ ~Stale(left)
  /\ left.row = 0 => rows + 1 < MaxRows
  /\ Writes(left)
  /\ left' = NoStart
  /\ UNCHANGED <<device, file, job, own, raced, faults>>

LeftRaises ==
  /\ Raises(left) /\ left' = NoStart
  /\ UNCHANGED <<device, file, job, own, raced, api, faults>>
-----------------------------------------------------------------------------
(* The files, the two completes and the marker file *)

Playable(fs) == {f \in fs : f[2] = "qcamera"}
Phase == IF job.pc = "playable" THEN Playable(job.todo) ELSE job.todo

\* Mutant: a file counts as uploaded once it was sent.
SentIsStored(f, o) == TRUE

\* raise_for_status: the row exists, the body is not refused (413, by its
\* Content-Length or its length), and the answer arrived.
Landed(f, o) == Live(job.row) /\ f \notin TooBig /\ o = "ok"

\* _upload_one and route_file_upload: segments in order; a failure is skipped.
UploadOne(f, o) ==
  /\ job.pc \in {"playable", "archive"} /\ f \in Phase
  /\ \A g \in Phase : f[1] <= g[1]
  /\ Allowed(o) /\ Charge(o)
  /\ db' = IF Live(job.row) /\ f \notin TooBig /\ o # "failed"
           THEN [db EXCEPT ![job.row].files = @ \cup {f}, ![job.row].stored = @ \cup {f}]
           ELSE db
  /\ job' = [job EXCEPT !.todo = @ \ {f}, !.ok = IF Landed(f, o) THEN @ \cup {f} ELSE @]
  /\ UNCHANGED <<device, file, starts, rows>>

Longest(track) == IF track = {} THEN 0 ELSE CHOOSE m \in track : \A n \in track : n <= m

\* fill_route_metadata, route_metrics: null (0) fields only; the last fix gives
\* the duration (the segment count, when there is no track), the fixes the distance.
Fill(route) ==
  [route EXCEPT !.dur = IF @ # 0 THEN @
                        ELSE IF route.track = {} THEN route.nseg ELSE Longest(route.track),
                !.dist = IF @ # 0 THEN @ ELSE Cardinality(route.track)]

SegmentsOf(route) == Cardinality({f[1] : f \in route.files})

\* route_complete
Completed(route) ==
  LET segs == SegmentsOf(route)
  IN Fill([route EXCEPT !.st = "complete", !.size = Cardinality(route.stored),
                        !.nseg = IF segs = 0 THEN @ ELSE segs, !.open = FALSE])

\* _complete_quietly: whatever goes wrong is swallowed.
Complete(o) ==
  /\ Allowed(o) /\ Charge(o)
  /\ db' = IF Live(job.row) /\ o # "failed"
           THEN [db EXCEPT ![job.row] = Completed(@)] ELSE db
Skip == UNCHANGED <<db, faults>>

\* The playable files are through: complete the route if one of them landed.
Viewable ==
  /\ job.pc = "playable" /\ Phase = {}
  /\ IF job.ok # {} THEN \E o \in Outcome : Complete(o) ELSE Skip
  /\ job' = [job EXCEPT !.pc = "archive"]
  /\ UNCHANGED <<device, file, starts, rows>>

\* The archive is through: again if some of it landed, or if nothing did.
Close ==
  /\ job.pc = "archive" /\ job.todo = {}
  /\ IF job.ok = Playable(job.ok) /\ job.ok # {} THEN Skip
     ELSE \E o \in Outcome : Complete(o)
  /\ job' = [job EXCEPT !.pc = "mark"]
  /\ UNCHANGED <<device, file, starts, rows>>

\* mark_uploaded: one atomic replace of the file.
MarkUploaded ==
  /\ job.pc = "mark"
  /\ done' = done \cup job.ok
  /\ sentTracks' = IF job.mark = 0 THEN sentTracks ELSE sentTracks \cup {job.mark}
  /\ job' = NoJob
  /\ UNCHANGED <<device, starts, api, faults>>

\* The agent restarts, or its client stops waiting for a start (aiohttp, 300 s):
\* only the file survives here, and the server carries on with that start
\* (bound: with one at a time).
Restart ==
  /\ job # NoJob /\ faults < scenario.faults /\ faults' = faults + 1
  /\ job' = NoJob /\ own' = NoStart
  /\ IF own = NoStart THEN UNCHANGED left ELSE left = NoStart /\ left' = own
  /\ UNCHANGED <<device, file, raced, api>>

\* backfill_route_metrics, run by an administrator.
Backfill ==
  /\ db' = [r \in Row |-> IF Live(r) THEN Fill(db[r]) ELSE db[r]]
  /\ UNCHANGED <<device, file, job, starts, rows, faults>>
-----------------------------------------------------------------------------
AgentStep ==
  \/ Collect \/ StartLoad \/ StartRaises
  \/ \E o \in Outcome : StartCommit(o)
  \/ \E f \in File, o \in Outcome : UploadOne(f, o)
  \/ Viewable \/ Close \/ MarkUploaded

Next ==
  \/ AgentStep \/ Restart
  \/ LeftLoad \/ LeftCommit \/ LeftRaises
  \/ CloseSegment \/ DriveOff \/ Backfill
  \/ \E c \in Configs : Configure(c)
  \/ \E r \in Row : UserDeletes(r)

\* The loop never raises out and never stops (runner, drive_upload_loop).
Spec == Init /\ [][Next]_vars /\ WF_vars(AgentStep)
-----------------------------------------------------------------------------
(* Properties *)

\* uploaded_segments.json ("so the caller can persist exactly those as done"):
\* a file it names has landed in a row of this drive, whatever failed, was lost
\* or restarted in between; deleting the row later is the owner's business.
MarkedLanded == \A f \in done : \E r \in Row : f \in db[r].stored

\* route_start ("Idempotent on (device, route name)"): as long as no start reads
\* the name while another is between its lookup and its commit, the drive has one
\* row, whatever was lost, given up, deleted or repeated. Without that condition
\* the code does not keep it (README, Observations).
OneRowInTurn == raced \/ Cardinality(LiveRows) <= 1

\* _apply_track ("A track only ever GROWS"): across cycles, partial extractions
\* and starts given up or repeated, no stored track loses points, as long as no
\* two starts are past their lookup at once (then the later commit wins).
TrackGrows ==
  [][\A r \in Row :
       \/ raced \/ db'[r].st = "deleted"
       \/ Cardinality(db'[r].track) >= Cardinality(db[r].track)]_vars

\* drive_upload_loop: once the car stays parked, the toggles stay as they are,
\* the drive has not got two rows and its tracks are short enough for the
\* schema (422 otherwise, for the whole drive, in every cycle), every wanted file
\* of every finished segment is uploaded and marked, except one whose body is
\* over the limit (413 in every cycle), whatever failed before.
EveryFileLands ==
  \A c \in Configs :
    <>[]( /\ cfg = c /\ ~onroad
          /\ Cardinality(LiveRows) <= 1
          /\ Cardinality(own.track) <= scenario.points )
      => <>[](Scan(c) \ TooBig \subseteq done)
=============================================================================
