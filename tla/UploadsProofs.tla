---------------------------- MODULE UploadsProofs ----------------------------
(***************************************************************************)
(* Theorems about Uploads, for any number of segments, rows, failed        *)
(* requests, lost answers and restarts.                                    *)
(***************************************************************************)
EXTENDS Uploads, FiniteSetTheorems, TLAPS

Arrived(f) == \E r \in Row : f \in db[r].stored

\* What the agent believes to have landed, has.
Believed == \A f \in done \cup job.ok : Arrived(f)

\* What a start has read is what is there, until it commits: the row of the
\* name, if it is still live, still has the track that was read, and if there was
\* none there still is none.
Sound(h) ==
  h.pc = "read" => /\ h.row = 0 => LiveRows = {}
                   /\ h.row # 0 /\ Live(h.row) => h.old = db[h.row].track

\* That is so while no two starts are past their lookup at once.
Reading ==
  ~raced => /\ own.pc # "read" \/ left.pc # "read"
            /\ Sound(own) /\ Sound(left)

\* An id that was not given out has no row.
Fresh == \A r \in Row : r > rows => db[r] = NoRoute

Unique == \A r, s \in Row : Live(r) /\ Live(s) => r = s

OneName == raced \/ Unique

Inv == TypeOK /\ Believed /\ Reading /\ Fresh /\ OneName
-----------------------------------------------------------------------------
(* Counting *)

LEMMA SegFinite == IsFiniteSet(Seg) /\ Cardinality(Seg) = MaxSeg
BY FS_Interval, UploadsAssumption DEF Seg

LEMMA TrackSize ==
  ASSUME NEW t \in SUBSET Seg
  PROVE  Cardinality(t) \in 0 .. MaxSeg
<1>1. IsFiniteSet(t) /\ Cardinality(t) <= MaxSeg BY SegFinite, FS_Subset
<1>2. Cardinality(t) \in Nat BY <1>1, FS_CardinalityType
<1> QED BY <1>1, <1>2, UploadsAssumption

LEMMA FilesSize ==
  ASSUME NEW fs \in SUBSET File
  PROVE  Cardinality(fs) \in Nat
<1>1. IsFiniteSet(Kind)
  <2>1. Kind = ({"qcamera"} \cup {"fcamera"}) \cup {"dcamera"} BY DEF Kind
  <2> QED BY <2>1, FS_Singleton, FS_Union
<1>2. IsFiniteSet(File) BY <1>1, SegFinite, FS_Product DEF File
<1> QED BY <1>2, FS_Subset, FS_CardinalityType

LEMMA LongestType ==
  ASSUME NEW t \in SUBSET Seg
  PROVE  Longest(t) \in 0 .. MaxSeg
<1>1. CASE t = {} BY <1>1, UploadsAssumption DEF Longest
<1>2. CASE t # {}
  <2>0. MaxSeg \in Nat /\ \A n \in t : n \in 1 .. MaxSeg BY UploadsAssumption DEF Seg
  <2> DEFINE below == {MaxSeg - n : n \in t}
  <2>1. below \subseteq Nat
    <3>1. ASSUME NEW n \in t PROVE MaxSeg - n \in Nat BY <2>0
    <3> QED BY <3>1
  <2>2. below # {} BY <1>2
  <2>3. PICK x \in below : \A y \in below : ~ (<<y, x>> \in OpToRel(<, Nat))
    BY <2>1, <2>2, WFMin, NatLessThanWellFounded
  <2>4. \A y \in below : ~ (y < x) BY <2>1, <2>3 DEF OpToRel
  <2>5. PICK m \in t : x = MaxSeg - m OBVIOUS
  <2>6. ASSUME NEW n \in t PROVE n <= m
    <3>1. ~ (MaxSeg - n < MaxSeg - m) BY <2>4, <2>5
    <3> QED BY <2>0, <3>1
  <2>7. Longest(t) \in t BY <1>2, <2>6 DEF Longest
  <2> QED BY <2>0, <2>7
<1> QED BY <1>1, <1>2

\* _apply_track: the stored track never has fewer points than before.
LEMMA AdoptGrows ==
  ASSUME NEW old \in SUBSET Seg, NEW new \in SUBSET Seg
  PROVE  Adopt(old, new) \in SUBSET Seg /\ Cardinality(Adopt(old, new)) >= Cardinality(old)
BY TrackSize DEF Adopt

LEMMA RouteUpdates ==
  ASSUME NEW route \in Route
  PROVE  /\ Fill(route) \in Route /\ Completed(route) \in Route
         /\ \A r \in {Fill(route), Completed(route)} :
              r.track = route.track /\ r.stored = route.stored
         /\ Fill(route).st = route.st /\ Completed(route).st = "complete"
<1>1. ASSUME NEW x \in Route
      PROVE  Fill(x) \in Route /\ Fill(x).track = x.track /\ Fill(x).stored = x.stored
             /\ Fill(x).st = x.st
  <2>1. Longest(x.track) \in 0 .. MaxSeg /\ Cardinality(x.track) \in 0 .. MaxSeg
    BY LongestType, TrackSize DEF Route
  <2> DEFINE d == IF x.dur # 0 THEN x.dur ELSE IF x.track = {} THEN x.nseg ELSE Longest(x.track)
             e == IF x.dist # 0 THEN x.dist ELSE Cardinality(x.track)
  <2>2. d \in 0 .. MaxSeg /\ e \in 0 .. MaxSeg BY <2>1 DEF Route
  <2>3. Fill(x) = [x EXCEPT !.dur = d, !.dist = e] BY DEF Fill, Route
  <2> HIDE DEF d, e
  <2> QED BY <2>2, <2>3 DEF Route
<1>2. SegmentsOf(route) \in 0 .. MaxSeg
  <2>1. {f[1] : f \in route.files} \in SUBSET Seg BY DEF Route, File
  <2> QED BY <2>1, TrackSize DEF SegmentsOf
<1>3. Cardinality(route.stored) \in Nat BY FilesSize DEF Route
<1> DEFINE n == IF SegmentsOf(route) = 0 THEN route.nseg ELSE SegmentsOf(route)
           x == [route EXCEPT !.st = "complete", !.size = Cardinality(route.stored),
                              !.nseg = n, !.open = FALSE]
<1>4. x \in Route /\ x.track = route.track /\ x.stored = route.stored /\ x.st = "complete"
  <2>1. n \in 0 .. MaxSeg BY <1>2 DEF Route
  <2> HIDE DEF n
  <2> QED BY <1>3, <2>1 DEF Route
<1>5. Completed(route) = Fill(x) BY DEF Completed, Route
<1> QED BY <1>1, <1>4, <1>5

LEMMA InitInv == Init => Inv
<1> SUFFICES ASSUME Init PROVE Inv OBVIOUS
<1>1. NoRoute \in Route /\ NoJob \in Job /\ NoStart \in Start
  BY UploadsAssumption DEF NoRoute, Route, NoJob, Job, NoStart, Start
<1>2. TypeOK
  <2>1. db \in [Row -> Route] /\ job \in Job BY <1>1 DEF Init
  <2>2. own \in Start /\ left \in Start /\ raced \in BOOLEAN BY <1>1 DEF Init
  <2>3. closed \in 0 .. MaxSeg /\ rows \in 0 .. MaxRows /\ faults \in Nat
    BY UploadsAssumption DEF Init
  <2>4. scenario \in Scenarios /\ cfg \in Configs BY UploadsAssumption DEF Init
  <2> QED BY <2>1, <2>2, <2>3, <2>4 DEF Init, TypeOK
<1>3. Believed /\ Reading /\ Fresh /\ OneName
  BY DEF Init, Believed, Reading, Sound, Fresh, OneName, Unique, Live, NoJob, NoStart, NoRoute
<1> QED BY <1>2, <1>3 DEF Inv

-----------------------------------------------------------------------------
(* Steps *)

\* A step that only rewrites live rows, and keeps what is stored and the tracks.
LEMMA Kept ==
  ASSUME Inv, rows' = rows, UNCHANGED starts, db' \in [Row -> Route],
         \A r \in Row : /\ db[r].stored \subseteq db'[r].stored
                        /\ Live(r)' => Live(r) /\ db'[r].track = db[r].track
                        /\ ~Live(r) => db'[r] = db[r]
  PROVE  Fresh' /\ OneName' /\ Reading' /\ (\A f : Arrived(f) => Arrived(f)')
<1>0. own' = own /\ left' = left /\ raced' = raced BY DEF starts
<1>1. Fresh'
  <2>1. \A r \in Row : r > rows => ~Live(r) BY DEF Inv, Fresh, Live, NoRoute
  <2> QED BY <2>1 DEF Inv, Fresh
<1>2. OneName' BY <1>0 DEF Inv, OneName, Unique
<1>3. LiveRows' \subseteq LiveRows BY DEF LiveRows
<1>4. \A f : Arrived(f) => Arrived(f)' BY DEF Arrived
<1>5. Reading'
  <2>1. ASSUME NEW h, Sound(h), h.pc = "read"
        PROVE  /\ h.row = 0 => LiveRows' = {}
               /\ h.row # 0 /\ Live(h.row)' => h.old = db'[h.row].track
    <3>1. h.row = 0 => LiveRows' = {} BY <1>3, <2>1 DEF Sound
    <3>2. Live(h.row)' => h.row \in Row BY DEF Live
    <3> QED BY <2>1, <3>1, <3>2 DEF Sound
  <2>2. Sound(own) => Sound(own)' BY <1>0, <2>1 DEF Sound
  <2>3. Sound(left) => Sound(left)' BY <1>0, <2>1 DEF Sound
  <2> QED BY <1>0, <2>2, <2>3 DEF Inv, Reading
<1> QED BY <1>1, <1>2, <1>4, <1>5

LEMMA QuietStep ==
  ASSUME Inv, CloseSegment \/ DriveOff \/ (\E c \in Configs : Configure(c))
  PROVE  Inv'
<1>0. UNCHANGED <<file, job, starts, api>> BY DEF CloseSegment, DriveOff, Configure
<1>1. TypeOK'
  <2>1. CASE CloseSegment
    <3>1. closed' \in 0 .. MaxSeg BY <2>1, UploadsAssumption DEF CloseSegment, Inv, TypeOK
    <3> QED BY <2>1, <3>1 DEF CloseSegment, Inv, TypeOK, file, starts, api
  <2>2. CASE DriveOff BY <2>2 DEF DriveOff, Inv, TypeOK, file, starts, api
  <2>3. ASSUME NEW c \in Configs, Configure(c) PROVE TypeOK'
    BY <2>3 DEF Configure, Inv, TypeOK, file, starts, api
  <2> QED BY <2>1, <2>2, <2>3
<1> QED BY <1>0, <1>1
        DEF Inv, Believed, Arrived, Reading, Sound, Fresh, OneName, Unique, Live, LiveRows, file,
            starts, api

LEMMA DeleteStep == ASSUME Inv, NEW r \in Row, UserDeletes(r) PROVE Inv'
<1> DEFINE gone == [NoRoute EXCEPT !.st = "deleted", !.stored = db[r].stored]
<1>1. db' = [db EXCEPT ![r] = gone] /\ UNCHANGED <<device, file, job, starts, rows, faults>>
  BY DEF UserDeletes
<1>2. gone \in Route /\ gone.stored = db[r].stored /\ gone.st = "deleted"
  <2>1. db[r].stored \in SUBSET File BY DEF Inv, TypeOK, Route
  <2>2. NoRoute \in Route BY UploadsAssumption DEF NoRoute, Route
  <2> QED BY <2>1, <2>2 DEF Route
<1> HIDE DEF gone
<1>3. db' \in [Row -> Route] BY <1>1, <1>2 DEF Inv, TypeOK
<1>4. \A q \in Row : /\ db[q].stored \subseteq db'[q].stored
                     /\ Live(q)' => Live(q) /\ db'[q].track = db[q].track
                     /\ ~Live(q) => db'[q] = db[q]
  BY <1>1, <1>2 DEF Inv, TypeOK, UserDeletes, Live
<1>5. Fresh' /\ OneName' /\ Reading' /\ (\A f : Arrived(f) => Arrived(f)')
  BY <1>1, <1>3, <1>4, Kept
<1>6. TypeOK' BY <1>1, <1>3 DEF Inv, TypeOK, device, file, starts
<1>7. Believed' BY <1>1, <1>5 DEF Inv, Believed, file
<1> QED BY <1>5, <1>6, <1>7 DEF Inv

LEMMA BackfillStep == ASSUME Inv, Backfill PROVE Inv'
<1>1. db' = [r \in Row |-> IF Live(r) THEN Fill(db[r]) ELSE db[r]]
      /\ UNCHANGED <<device, file, job, starts, rows, faults>>
  BY DEF Backfill
<1>2. \A r \in Row : db[r] \in Route BY DEF Inv, TypeOK
<1>3. \A r \in Row : db'[r] \in Route /\ db'[r].st = db[r].st /\ db'[r].track = db[r].track
                     /\ db'[r].stored = db[r].stored /\ (~Live(r) => db'[r] = db[r])
  <2> SUFFICES ASSUME NEW r \in Row
               PROVE  db'[r] \in Route /\ db'[r].st = db[r].st /\ db'[r].track = db[r].track
                      /\ db'[r].stored = db[r].stored /\ (~Live(r) => db'[r] = db[r])
    OBVIOUS
  <2>1. db[r] \in Route BY <1>2
  <2>2. Fill(db[r]) \in Route /\ Fill(db[r]).st = db[r].st
        /\ Fill(db[r]).track = db[r].track /\ Fill(db[r]).stored = db[r].stored
    BY <2>1, RouteUpdates
  <2>3. db'[r] = IF Live(r) THEN Fill(db[r]) ELSE db[r] BY <1>1
  <2> QED BY <2>1, <2>2, <2>3
<1>4. db' \in [Row -> Route] BY <1>1, <1>3
<1>5. \A r \in Row : Live(r)' <=> Live(r) BY <1>3 DEF Live
<1>6. Fresh' /\ OneName' /\ Reading' /\ (\A f : Arrived(f) => Arrived(f)')
  BY <1>1, <1>3, <1>4, <1>5, Kept
<1>7. TypeOK' BY <1>1, <1>4 DEF Inv, TypeOK, device, file, starts
<1>8. Believed' BY <1>1, <1>6 DEF Inv, Believed, file
<1> QED BY <1>6, <1>7, <1>8 DEF Inv

LEMMA TodoType == ASSUME TypeOK PROVE Todo(cfg) \in SUBSET File
<1>1. Wanted(cfg) \subseteq Kind BY DEF Wanted, Kind
<1>2. 1 .. closed \subseteq Seg BY UploadsAssumption DEF TypeOK, Seg
<1> QED BY <1>1, <1>2 DEF Todo, Scan, File

LEMMA CollectStep == ASSUME Inv, Collect PROVE Inv'
<1>1. PICK e \in Extract :
        /\ job' = [NoJob EXCEPT !.pc = "start", !.mark = e.mark, !.todo = Todo(cfg)]
        /\ own' = [NoStart EXCEPT !.pc = "asked", !.nseg = closed, !.track = e.track,
                                  !.files = Todo(cfg)]
  BY DEF Collect
<1>2. e.track \in SUBSET Seg /\ e.mark \in 0 .. MaxSeg /\ closed \in 0 .. MaxSeg
  <2>1. closed \in 0 .. MaxSeg /\ 0 \in 0 .. MaxSeg /\ 1 .. closed \subseteq Seg
    BY UploadsAssumption DEF Inv, TypeOK, Seg
  <2>2. \/ e = [track |-> {}, mark |-> 0]
        \/ \E t \in SUBSET (1 .. closed) : e = [track |-> t, mark |-> closed]
    BY DEF Extract
  <2>3. CASE e = [track |-> {}, mark |-> 0] BY <2>1, <2>3
  <2>4. ASSUME NEW t \in SUBSET (1 .. closed), e = [track |-> t, mark |-> closed]
        PROVE  e.track \in SUBSET Seg /\ e.mark \in 0 .. MaxSeg
    <3>1. e.track = t /\ e.mark = closed BY <2>4
    <3>2. t \subseteq Seg BY <2>1
    <3> QED BY <2>1, <3>1, <3>2
  <2> QED BY <2>1, <2>2, <2>3, <2>4
<1>3. Todo(cfg) \in SUBSET File BY TodoType DEF Inv
<1>4. job' \in Job /\ job'.ok = {} /\ own' \in Start /\ own'.pc = "asked"
  <2>1. /\ job' = [pc |-> "start", row |-> 0, mark |-> e.mark, todo |-> Todo(cfg), ok |-> {}]
        /\ own' = [pc |-> "asked", row |-> 0, old |-> {}, nseg |-> closed, track |-> e.track,
                   files |-> Todo(cfg)]
    BY <1>1 DEF NoJob, NoStart
  <2>2. 0 \in 0 .. MaxRows BY UploadsAssumption
  <2> QED BY <1>2, <1>3, <2>1, <2>2 DEF Job, Start
<1>5. UNCHANGED <<device, file, left, raced, api, faults>> BY DEF Collect
<1>6. TypeOK' BY <1>4, <1>5 DEF Inv, TypeOK, device, file, api
<1>7. Reading' BY <1>4, <1>5 DEF Inv, Reading, Sound, Live, LiveRows, api
<1>8. Believed' /\ Fresh' /\ OneName'
  BY <1>4, <1>5 DEF Inv, Believed, Arrived, Fresh, OneName, Unique, Live, file, api
<1> QED BY <1>6, <1>7, <1>8 DEF Inv

LEMMA NoneBusy == NoJob \in Job /\ NoJob.ok = {} /\ NoStart \in Start /\ NoStart.pc = "none"
BY UploadsAssumption DEF NoJob, Job, NoStart, Start

LEMMA Charged == ASSUME TypeOK, NEW o, Allowed(o), Charge(o) PROVE faults' \in Nat
BY UploadsAssumption DEF TypeOK, Allowed, Charge

\* The lookup: what it finds is there, and nothing else of the start changes.
LEMMA FindsSound ==
  ASSUME Inv, NEW h \in Start
  PROVE  /\ Finds(h) \in Start /\ Finds(h).pc = "read"
         /\ Sound(Finds(h))
<1>1. CASE LiveRows = {}
  <2>1. Finds(h) = [h EXCEPT !.pc = "read"] BY <1>1 DEF Finds
  <2>2. h.row \in 0 .. MaxRows BY DEF Start
  <2>3. Finds(h) \in Start /\ Finds(h).pc = "read" /\ Finds(h).row = h.row BY <2>1 DEF Start
  <2>4. h.row # 0 => ~Live(h.row) BY <1>1 DEF LiveRows, Live
  <2> QED BY <1>1, <2>3, <2>4 DEF Sound
<1>2. CASE LiveRows # {}
  <2> DEFINE r == CHOOSE q \in LiveRows : TRUE
  <2>1. r \in Row BY <1>2 DEF LiveRows
  <2>2. Finds(h) = [h EXCEPT !.pc = "read", !.row = r, !.old = db[r].track]
    BY <1>2 DEF Finds
  <2> HIDE DEF r
  <2>3. r \in 0 .. MaxRows /\ r # 0 /\ db[r].track \in SUBSET Seg
    BY <2>1, UploadsAssumption DEF Row, Inv, TypeOK, Route
  <2>4. /\ Finds(h) \in Start /\ Finds(h).pc = "read" /\ Finds(h).row = r
        /\ Finds(h).old = db[r].track
    BY <2>2, <2>3 DEF Start
  <2> QED BY <2>3, <2>4 DEF Sound
<1> QED BY <1>1, <1>2

LEMMA LoadStep == ASSUME Inv, StartLoad \/ LeftLoad PROVE Inv'
<1>1. UNCHANGED <<device, file, job, api, faults>> BY DEF StartLoad, LeftLoad
<1>2. \A h : Sound(h)' <=> Sound(h) BY <1>1 DEF Sound, Live, LiveRows, api
<1>3. TypeOK' /\ Reading' /\ (raced => raced')
  <2>1. CASE StartLoad
    <3>1. own' = Finds(own) /\ left' = left /\ raced' = (raced \/ left.pc = "read")
      BY <2>1 DEF StartLoad
    <3>2. own' \in Start /\ Sound(own') BY <3>1, FindsSound DEF Inv, TypeOK
    <3>3. TypeOK' BY <1>1, <3>1, <3>2 DEF Inv, TypeOK, device, file, api
    <3>4. Sound(own)' BY <1>1, <3>2 DEF Sound, Live, LiveRows, api
    <3>5. Sound(left)' <=> Sound(left) BY <1>1, <3>1 DEF Sound, Live, LiveRows, api
    <3> QED BY <3>1, <3>3, <3>4, <3>5 DEF Inv, Reading
  <2>2. CASE LeftLoad
    <3>1. left' = Finds(left) /\ own' = own /\ raced' = (raced \/ own.pc = "read")
      BY <2>2 DEF LeftLoad
    <3>2. left' \in Start /\ Sound(left') BY <3>1, FindsSound DEF Inv, TypeOK
    <3>3. TypeOK' BY <1>1, <3>1, <3>2 DEF Inv, TypeOK, device, file, api
    <3>4. Sound(left)' BY <1>1, <3>2 DEF Sound, Live, LiveRows, api
    <3>5. Sound(own)' <=> Sound(own) BY <1>1, <3>1 DEF Sound, Live, LiveRows, api
    <3> QED BY <3>1, <3>3, <3>4, <3>5 DEF Inv, Reading
  <2> QED BY <2>1, <2>2
<1> QED BY <1>1, <1>3
        DEF Inv, Believed, Arrived, Fresh, OneName, Unique, Live, file, api

\* The commit of a start: its row exists afterwards, nothing that was stored is
\* gone, and a start that read soundly leaves one row of the name.
LEMMA WriteStep ==
  ASSUME Inv, NEW h \in Start, h.pc = "read", Writes(h)
  PROVE  /\ rows' \in 0 .. MaxRows /\ db' \in [Row -> Route] /\ Fresh'
         /\ \A f : Arrived(f) => Arrived(f)'
         /\ Unique /\ Sound(h) => Unique'
<1>0. db \in [Row -> Route] /\ rows \in 0 .. MaxRows BY DEF Inv, TypeOK
<1>1. CASE h.row = 0
  <2>1. rows < MaxRows /\ rows' = rows + 1 /\ db' = [db EXCEPT ![rows + 1] = Declared(h)]
    BY <1>1 DEF Writes
  <2>2. PICK n \in Row : n = rows + 1 BY <1>0, <2>1, UploadsAssumption DEF Row
  <2>3. Declared(h) \in Route /\ Declared(h).stored = {}
    <3>1. h.nseg \in 0 .. MaxSeg /\ h.track \in SUBSET Seg /\ h.files \in SUBSET File
      BY DEF Start
    <3>2. Adopt({}, h.track) \in SUBSET Seg BY <3>1, AdoptGrows
    <3>3. NoRoute \in Route /\ NoRoute.stored = {} BY UploadsAssumption DEF NoRoute, Route
    <3> QED BY <3>1, <3>2, <3>3 DEF Declared, Route
  <2>4. db[n] = NoRoute BY <1>0, <2>2 DEF Inv, Fresh
  <2>5. \A q \in Row : db'[q] = IF q = n THEN Declared(h) ELSE db[q] BY <1>0, <2>1, <2>2
  <2>6. rows' \in 0 .. MaxRows /\ db' \in [Row -> Route]
    BY <1>0, <2>1, <2>2, <2>3, UploadsAssumption
  <2>7. Fresh'
    <3>1. \A q \in Row : q > n => q # n /\ q > rows BY <1>0, <2>2 DEF Row
    <3> QED BY <2>1, <2>2, <2>5, <3>1 DEF Inv, Fresh
  <2>8. \A f : Arrived(f) => Arrived(f)' BY <2>4, <2>5 DEF Arrived, NoRoute
  <2>9. Sound(h) => \A q \in Row : ~Live(q) BY <1>1 DEF Sound, LiveRows
  <2>10. Sound(h) => Unique' BY <2>5, <2>9 DEF Unique, Live
  <2> QED BY <2>6, <2>7, <2>8, <2>10
<1>2. CASE h.row # 0
  <2>1. PICK r \in Row : r = h.row BY <1>2, UploadsAssumption DEF Start, Row
  <2> DEFINE t == IF Adopt(h.old, h.track) = h.old THEN db[r].track ELSE Adopt(h.old, h.track)
             x == [[db[r] EXCEPT !.open = TRUE] EXCEPT !.track = t]
  <2>2. /\ rows' = rows
        /\ db' = db \/ (Live(r) /\ db' = [db EXCEPT ![r] = x])
    BY <1>0, <1>2, <2>1 DEF Writes
  <2>3. t \in SUBSET Seg
    <3>1. Adopt(h.old, h.track) \in SUBSET Seg BY AdoptGrows DEF Start
    <3>2. db[r].track \in SUBSET Seg BY <1>0, <2>1 DEF Route
    <3> QED BY <3>1, <3>2
  <2> HIDE DEF t
  <2>4. x \in Route /\ x.stored = db[r].stored /\ x.st = db[r].st
    <3>1. PICK y \in Route : y = db[r] BY <1>0, <2>1
    <3>2. x = [[y EXCEPT !.open = TRUE] EXCEPT !.track = t] BY <3>1
    <3>3. x \in Route /\ x.stored = y.stored /\ x.st = y.st BY <2>3, <3>2 DEF Route
    <3> QED BY <3>1, <3>3
  <2> HIDE DEF x
  <2>5. \A q \in Row : db'[q] = db[q] \/ (q = r /\ Live(r) /\ db'[q] = x) BY <1>0, <2>2
  <2>6. db' \in [Row -> Route] BY <1>0, <2>2, <2>4
  <2>7. Fresh'
    <3>1. \A q \in Row : q > rows => ~Live(q) BY DEF Inv, Fresh, Live, NoRoute
    <3> QED BY <2>2, <2>5, <3>1 DEF Inv, Fresh
  <2>8. \A f : Arrived(f) => Arrived(f)' BY <2>4, <2>5 DEF Arrived
  <2>9. \A q \in Row : Live(q)' => Live(q) BY <2>4, <2>5 DEF Live
  <2> QED BY <1>0, <2>2, <2>6, <2>7, <2>8, <2>9 DEF Unique
<1> QED BY <1>1, <1>2

LEMMA CommitStep == ASSUME Inv, NEW o \in Outcome, StartCommit(o) PROVE Inv'
<1>1. /\ own.pc = "read" /\ Allowed(o) /\ Charge(o) /\ own' = NoStart
      /\ UNCHANGED <<device, file, left, raced>>
      /\ UNCHANGED api \/ Writes(own)
  BY DEF StartCommit
<1>2. own \in Start BY DEF Inv, TypeOK
<1>3. /\ rows' \in 0 .. MaxRows /\ db' \in [Row -> Route] /\ Fresh'
      /\ \A f : Arrived(f) => Arrived(f)'
      /\ Unique /\ Sound(own) => Unique'
  <2>1. CASE UNCHANGED api
    BY <2>1 DEF Inv, TypeOK, Fresh, Arrived, Unique, Live, api
  <2>2. CASE Writes(own) BY <1>1, <1>2, <2>2, WriteStep
  <2> QED BY <1>1, <2>1, <2>2
<1>4. job' \in Job /\ job'.ok \subseteq job.ok
  <2>1. CASE o # "ok" BY <2>1, NoneBusy DEF StartCommit
  <2>2. CASE o = "ok"
    <3> DEFINE m == IF Cardinality(Adopt(own.old, own.track)) >= Cardinality(own.track)
                    THEN job.mark ELSE 0
               r == IF own.row = 0 THEN rows + 1 ELSE own.row
    <3>1. job' = [job EXCEPT !.pc = "playable", !.row = r, !.mark = m] BY <2>2 DEF StartCommit
    <3>2. job \in Job /\ m \in 0 .. MaxSeg BY UploadsAssumption DEF Inv, TypeOK, Job
    <3>3. r \in 0 .. MaxRows
      <4>1. CASE own.row = 0
        <5>1. Writes(own) BY <2>2 DEF StartCommit, Outcome
        <5> QED BY <1>3, <4>1, <5>1 DEF Writes
      <4>2. CASE own.row # 0 BY <1>2, <4>2 DEF Start
      <4> QED BY <4>1, <4>2
    <3> HIDE DEF m, r
    <3> QED BY <3>1, <3>2, <3>3 DEF Job
  <2> QED BY <2>1, <2>2
<1>5. TypeOK'
  <2>1. faults' \in Nat BY <1>1, Charged DEF Inv
  <2> QED BY <1>1, <1>3, <1>4, <2>1, NoneBusy DEF Inv, TypeOK, device, file
<1>6. Believed' BY <1>1, <1>3, <1>4 DEF Inv, Believed, file
<1>7. Reading' BY <1>1, NoneBusy DEF Inv, Reading, Sound
<1>8. OneName' BY <1>1, <1>3 DEF Inv, OneName, Reading
<1> QED BY <1>3, <1>5, <1>6, <1>7, <1>8 DEF Inv

LEMMA LeftCommitStep == ASSUME Inv, LeftCommit PROVE Inv'
<1>1. /\ left.pc = "read" /\ Writes(left) /\ left' = NoStart
      /\ UNCHANGED <<device, file, job, own, raced, faults>>
  BY DEF LeftCommit
<1>2. /\ rows' \in 0 .. MaxRows /\ db' \in [Row -> Route] /\ Fresh'
      /\ \A f : Arrived(f) => Arrived(f)'
      /\ Unique /\ Sound(left) => Unique'
  BY <1>1, WriteStep DEF Inv, TypeOK
<1>3. TypeOK' BY <1>1, <1>2, NoneBusy DEF Inv, TypeOK, device, file
<1>4. Believed' BY <1>1, <1>2 DEF Inv, Believed, file
<1>5. Reading' BY <1>1, NoneBusy DEF Inv, Reading, Sound
<1>6. OneName' BY <1>1, <1>2 DEF Inv, OneName, Reading
<1> QED BY <1>2, <1>3, <1>4, <1>5, <1>6 DEF Inv

LEMMA EndStep ==
  ASSUME Inv, StartRaises \/ LeftRaises \/ MarkUploaded \/ Restart
  PROVE  Inv'
<1>1. /\ job' = NoJob \/ job' = job
      /\ UNCHANGED <<device, api>> /\ raced' = raced
      /\ own' = NoStart \/ own' = own
      /\ left' = NoStart \/ left' = left \/ (left' = own /\ own' = NoStart)
  BY DEF StartRaises, LeftRaises, MarkUploaded, Restart, starts
<1>2. TypeOK'
  <2>1. job' \in Job /\ own' \in Start /\ left' \in Start BY <1>1, NoneBusy DEF Inv, TypeOK
  <2>2. faults' \in Nat
    BY UploadsAssumption DEF Inv, TypeOK, StartRaises, LeftRaises, MarkUploaded, Restart
  <2>3. job.ok \in SUBSET File /\ (job.mark # 0 => job.mark \in Seg)
    BY UploadsAssumption DEF Inv, TypeOK, Job, Seg
  <2>4. done' \subseteq File /\ sentTracks' \subseteq Seg
    BY <2>3 DEF Inv, TypeOK, StartRaises, LeftRaises, MarkUploaded, Restart, file
  <2> QED BY <1>1, <2>1, <2>2, <2>4 DEF Inv, TypeOK, device, api
<1>3. Believed'
  <2>1. done' \subseteq done \cup job.ok
    BY DEF StartRaises, LeftRaises, MarkUploaded, Restart, file
  <2> QED BY <1>1, <2>1, NoneBusy DEF Inv, Believed, Arrived, api
<1>4. Reading'
  <2>1. \A h : Sound(h) => (h.pc = "read" => /\ h.row = 0 => LiveRows' = {}
                                             /\ h.row # 0 /\ Live(h.row)' => h.old = db'[h.row].track)
    BY <1>1 DEF Sound, Live, LiveRows, api
  <2>2. Sound(own) /\ Sound(left) => Sound(own)' /\ Sound(left)'
    BY <1>1, <2>1, NoneBusy DEF Sound
  <2> QED BY <1>1, <2>2, NoneBusy DEF Inv, Reading
<1>5. Fresh' /\ OneName' BY <1>1 DEF Inv, Fresh, OneName, Unique, Live, api
<1> QED BY <1>2, <1>3, <1>4, <1>5 DEF Inv

LEMMA UploadStep ==
  ASSUME Inv, NEW f \in File, NEW o \in Outcome, UploadOne(f, o)
  PROVE  Inv'
<1>1. Allowed(o) /\ Charge(o) /\ UNCHANGED <<device, file, starts, rows>>
  BY DEF UploadOne
<1>2. job \in Job /\ db \in [Row -> Route] BY DEF Inv, TypeOK
<1> DEFINE ok == IF Landed(f, o) THEN job.ok \cup {f} ELSE job.ok
           x == [[db[job.row] EXCEPT !.files = db[job.row].files \cup {f}]
                   EXCEPT !.stored = db[job.row].stored \cup {f}]
<1>3. job' = [[job EXCEPT !.todo = job.todo \ {f}] EXCEPT !.ok = ok] BY DEF UploadOne
<1>4. ok \in SUBSET File BY <1>2 DEF Job
<1>5. db' = IF Live(job.row) /\ f \notin TooBig /\ o # "failed" THEN [db EXCEPT ![job.row] = x] ELSE db
  BY <1>2 DEF UploadOne
<1>6. Live(job.row) => /\ job.row \in Row /\ x \in Route /\ x.st = db[job.row].st
                       /\ x.track = db[job.row].track
                       /\ x.stored = db[job.row].stored \cup {f}
  <2> SUFFICES ASSUME Live(job.row)
               PROVE  /\ job.row \in Row /\ x \in Route /\ x.st = db[job.row].st
                      /\ x.track = db[job.row].track
                      /\ x.stored = db[job.row].stored \cup {f}
    OBVIOUS
  <2>1. job.row \in Row BY DEF Live
  <2>2. db[job.row] \in Route BY <1>2, <2>1
  <2> DEFINE fs == db[job.row].files \cup {f}
             st == db[job.row].stored \cup {f}
  <2>3. x = [[db[job.row] EXCEPT !.files = fs] EXCEPT !.stored = st] OBVIOUS
  <2> HIDE DEF x
  <2>4. fs \in SUBSET File /\ st \in SUBSET File /\ st = db[job.row].stored \cup {f}
    BY <2>2 DEF Route
  <2> HIDE DEF fs, st
  <2>5. /\ x \in Route /\ x.st = db[job.row].st /\ x.track = db[job.row].track
        /\ x.stored = st
    <3>1. PICK y \in Route : y = db[job.row] BY <2>2
    <3>2. x = [[y EXCEPT !.files = fs] EXCEPT !.stored = st] BY <2>3, <3>1
    <3>3. x \in Route /\ x.st = y.st /\ x.track = y.track /\ x.stored = st
      BY <2>4, <3>2 DEF Route
    <3> QED BY <3>1, <3>3
  <2> QED BY <2>1, <2>4, <2>5
<1>7. \A g \in ok : g \in job.ok \/ (g = f /\ Landed(f, o)) OBVIOUS
<1> HIDE DEF ok, x
<1>8. job' \in Job /\ job'.ok = ok /\ job'.pc = job.pc BY <1>2, <1>3, <1>4 DEF Job
<1>9. \A q \in Row :
        db'[q] = IF Live(job.row) /\ f \notin TooBig /\ o # "failed" /\ q = job.row
                 THEN x ELSE db[q]
  BY <1>2, <1>5, <1>6
<1>10. db' \in [Row -> Route] BY <1>2, <1>5, <1>6
<1>11. \A q \in Row : /\ db[q].stored \subseteq db'[q].stored
                      /\ Live(q)' => Live(q) /\ db'[q].track = db[q].track
                      /\ ~Live(q) => db'[q] = db[q]
  BY <1>6, <1>9 DEF Live
<1>12. Fresh' /\ OneName' /\ Reading' /\ (\A g : Arrived(g) => Arrived(g)') BY <1>1, <1>10, <1>11, Kept
<1>13. TypeOK'
  <2>1. faults' \in Nat BY <1>1, Charged DEF Inv
  <2> QED BY <1>1, <1>8, <1>10, <2>1 DEF Inv, TypeOK, device, file, starts
<1>14. Believed'
  <2>1. Landed(f, o) => Arrived(f)'
    <3> SUFFICES ASSUME Landed(f, o) PROVE Arrived(f)' OBVIOUS
    <3>1. Live(job.row) /\ f \notin TooBig /\ o = "ok" BY DEF Landed
    <3>2. job.row \in Row /\ db'[job.row] = x BY <1>6, <1>9, <3>1
    <3>3. f \in db'[job.row].stored BY <1>6, <3>1, <3>2
    <3> QED BY <3>2, <3>3 DEF Arrived
  <2> QED BY <1>1, <1>7, <1>8, <1>12, <2>1 DEF Inv, Believed, file
<1> QED BY <1>12, <1>13, <1>14 DEF Inv

\* What route_complete does to the rows, whether or not it is answered.
LEMMA CompleteEnds ==
  ASSUME Inv, UNCHANGED <<device, file, starts, rows>>,
         job' \in Job, job'.ok = job.ok,
         Skip \/ \E o \in Outcome : Complete(o)
  PROVE  Inv'
<1>1. faults' \in Nat BY Charged DEF Skip, Complete, Inv, TypeOK
<1>2. \/ UNCHANGED db
      \/ Live(job.row) /\ db' = [db EXCEPT ![job.row] = Completed(db[job.row])]
  BY DEF Skip, Complete
<1>3. /\ db' \in [Row -> Route]
      /\ \A q \in Row : /\ db[q].stored \subseteq db'[q].stored
                        /\ Live(q)' => Live(q) /\ db'[q].track = db[q].track
                        /\ ~Live(q) => db'[q] = db[q]
  <2>1. CASE UNCHANGED db BY <2>1 DEF Inv, TypeOK, Live
  <2>2. CASE Live(job.row) /\ db' = [db EXCEPT ![job.row] = Completed(db[job.row])]
    <3>1. PICK r \in Row : r = job.row BY <2>2 DEF Live
    <3> DEFINE x == Completed(db[r])
    <3>2. db[r] \in Route BY DEF Inv, TypeOK
    <3>3. x \in Route /\ x.stored = db[r].stored /\ x.track = db[r].track BY <3>2, RouteUpdates
    <3>4. db' = [db EXCEPT ![r] = x] /\ Live(r) BY <2>2, <3>1
    <3> HIDE DEF x
    <3>5. \A q \in Row : db'[q] = IF q = r THEN x ELSE db[q] BY <3>4 DEF Inv, TypeOK
    <3>6. db' \in [Row -> Route] BY <3>3, <3>4 DEF Inv, TypeOK
    <3> QED BY <3>3, <3>4, <3>5, <3>6 DEF Live
  <2> QED BY <1>2, <2>1, <2>2
<1>4. Fresh' /\ OneName' /\ Reading' /\ (\A f : Arrived(f) => Arrived(f)') BY <1>3, Kept
<1>5. TypeOK' BY <1>1, <1>3 DEF Inv, TypeOK, device, file, starts
<1>6. Believed' BY <1>4 DEF Inv, Believed, file
<1> QED BY <1>4, <1>5, <1>6 DEF Inv

LEMMA PhaseStep == ASSUME Inv, Viewable \/ Close PROVE Inv'
<1>1. /\ UNCHANGED <<device, file, starts, rows>>
      /\ Skip \/ \E o \in Outcome : Complete(o)
  BY DEF Viewable, Close
<1>2. job' = [job EXCEPT !.pc = "archive"] \/ job' = [job EXCEPT !.pc = "mark"]
  BY DEF Viewable, Close
<1>3. job' \in Job /\ job'.ok = job.ok BY <1>2 DEF Inv, TypeOK, Job
<1> QED BY <1>1, <1>3, CompleteEnds

LEMMA NextInv == Inv /\ [Next]_vars => Inv'
<1> SUFFICES ASSUME Inv, [Next]_vars PROVE Inv' OBVIOUS
<1>1. CASE AgentStep
  <2>1. CASE Collect BY <2>1, CollectStep
  <2>2. CASE StartLoad BY <2>2, LoadStep
  <2>3. ASSUME NEW o \in Outcome, StartCommit(o) PROVE Inv' BY <2>3, CommitStep
  <2>4. ASSUME NEW f \in File, NEW o \in Outcome, UploadOne(f, o) PROVE Inv'
    BY <2>4, UploadStep
  <2>5. CASE Viewable \/ Close BY <2>5, PhaseStep
  <2>6. CASE StartRaises \/ MarkUploaded BY <2>6, EndStep
  <2> QED BY <1>1, <2>1, <2>2, <2>3, <2>4, <2>5, <2>6 DEF AgentStep
<1>2. CASE Restart \/ LeftRaises BY <1>2, EndStep
<1>3. CASE CloseSegment \/ DriveOff \/ \E c \in Configs : Configure(c) BY <1>3, QuietStep
<1>4. CASE Backfill BY <1>4, BackfillStep
<1>5. ASSUME NEW r \in Row, UserDeletes(r) PROVE Inv' BY <1>5, DeleteStep
<1>6. CASE UNCHANGED vars
  BY <1>6 DEF vars, device, file, starts, api, Inv, TypeOK, Believed, Arrived, Reading, Sound,
              Fresh, OneName, Unique, Live, LiveRows
<1>7. CASE LeftLoad BY <1>7, LoadStep
<1>8. CASE LeftCommit BY <1>8, LeftCommitStep
<1> QED BY <1>1, <1>2, <1>3, <1>4, <1>5, <1>6, <1>7, <1>8 DEF Next

LEMMA Invariant == Spec => []Inv
BY InitInv, NextInv, PTL DEF Spec
-----------------------------------------------------------------------------
(* Theorems *)

\* Every variable keeps its type.
THEOREM TypeCorrect == Spec => []TypeOK
<1>1. Inv => TypeOK BY DEF Inv
<1> QED BY <1>1, Invariant, PTL

\* uploaded_segments.json names only files that landed, for any number of
\* segments, lost answers, failures and restarts.
THEOREM MarkedHasLanded == Spec => []MarkedLanded
<1>1. Inv => MarkedLanded BY DEF Inv, Believed, Arrived, MarkedLanded
<1> QED BY <1>1, Invariant, PTL

\* As long as no two starts are past their lookup at once, a drive has one row,
\* for any number of starts given up, lost answers, deletions and cycles.
THEOREM OneRow == Spec => []OneRowInTurn
<1>1. Inv => OneRowInTurn
  <2> SUFFICES ASSUME Inv, ~raced PROVE Cardinality(LiveRows) <= 1 BY DEF OneRowInTurn
  <2>1. CASE LiveRows = {}
    <3>1. Cardinality({}) = 0 BY FS_EmptySet
    <3> QED BY <2>1, <3>1
  <2>2. CASE LiveRows # {}
    <3>1. PICK r \in LiveRows : TRUE BY <2>2
    <3>2. LiveRows = {r} BY <3>1 DEF Inv, OneName, Unique, LiveRows
    <3>3. Cardinality({r}) = 1 BY FS_Singleton
    <3> QED BY <3>2, <3>3
  <2> QED BY <2>1, <2>2
<1> QED BY <1>1, Invariant, PTL

\* What a step may do to the tracks.
Growing ==
  \A r \in Row :
    \/ raced \/ db'[r].st = "deleted"
    \/ Cardinality(db'[r].track) >= Cardinality(db[r].track)

LEMMA SameTracks ==
  ASSUME TypeOK, \A r \in Row : db'[r].track = db[r].track \/ db'[r].st = "deleted"
  PROVE  Growing
<1>1. \A r \in Row : Cardinality(db[r].track) \in 0 .. MaxSeg
  BY TrackSize DEF TypeOK, Route
<1> QED BY <1>1, UploadsAssumption DEF Growing

LEMMA StartGrows ==
  ASSUME Inv, NEW h \in Start, h.pc = "read", raced \/ Sound(h), Writes(h) \/ UNCHANGED db
  PROVE  Growing
<1>0. \A r \in Row : /\ db[r].track \in SUBSET Seg
                     /\ Cardinality(db[r].track) \in 0 .. MaxSeg
                     /\ Cardinality(db[r].track) >= Cardinality(db[r].track)
  <2>1. \A r \in Row : db[r].track \in SUBSET Seg BY DEF Inv, TypeOK, Route
  <2>2. \A r \in Row : Cardinality(db[r].track) \in 0 .. MaxSeg BY <2>1, TrackSize
  <2> QED BY <2>1, <2>2, UploadsAssumption
<1>1. CASE UNCHANGED db BY <1>0, <1>1 DEF Growing
<1>2. CASE Writes(h) /\ h.row = 0
  <2>1. db' = [db EXCEPT ![rows + 1] = Declared(h)] /\ rows < MaxRows BY <1>2 DEF Writes
  <2>2. PICK n \in Row : n = rows + 1
    BY <2>1, UploadsAssumption DEF Inv, TypeOK, Row
  <2>3. db[n].track = {}
    <3>1. n > rows BY <2>2, UploadsAssumption DEF Inv, TypeOK
    <3> QED BY <3>1 DEF Inv, Fresh, NoRoute
  <2>4. Declared(h).track = Adopt({}, h.track) BY DEF Declared, NoRoute
  <2>5. Cardinality(Adopt({}, h.track)) >= Cardinality({}) BY AdoptGrows DEF Start
  <2>6. \A r \in Row : db'[r] = IF r = n THEN Declared(h) ELSE db[r]
    BY <2>1, <2>2 DEF Inv, TypeOK
  <2> QED BY <1>0, <2>3, <2>4, <2>5, <2>6 DEF Growing
<1>3. CASE Writes(h) /\ h.row # 0 /\ db' # db /\ ~raced
  <2>1. PICK n \in Row : n = h.row BY <1>3, UploadsAssumption DEF Start, Row
  <2> DEFINE t == IF Adopt(h.old, h.track) = h.old THEN db[n].track ELSE Adopt(h.old, h.track)
  <2>2. Live(n) /\ db' = [db EXCEPT ![n] = [[db[n] EXCEPT !.open = TRUE] EXCEPT !.track = t]]
    BY <1>3, <2>1 DEF Writes, Inv, TypeOK
  <2>3. h.old = db[n].track BY <1>3, <2>1, <2>2 DEF Sound
  <2>4. Cardinality(t) >= Cardinality(db[n].track)
    <3>1. h.old \in SUBSET Seg /\ h.track \in SUBSET Seg BY DEF Start
    <3> QED BY <1>0, <2>3, <3>1, AdoptGrows
  <2> HIDE DEF t
  <2>5. \A r \in Row : db'[r].track = IF r = n THEN t ELSE db[r].track
    <3>1. [[db[n] EXCEPT !.open = TRUE] EXCEPT !.track = t].track = t
      BY DEF Inv, TypeOK, Route
    <3> QED BY <2>2, <3>1 DEF Inv, TypeOK
  <2> QED BY <1>0, <2>4, <2>5 DEF Growing
<1>4. CASE raced BY <1>4 DEF Growing
<1> QED BY <1>1, <1>2, <1>3, <1>4

LEMMA StepGrows == Inv /\ Next => Growing
<1> SUFFICES ASSUME Inv, Next PROVE Growing OBVIOUS
<1>1. ASSUME NEW o \in Outcome, StartCommit(o) PROVE Growing
  <2>1. own.pc = "read" /\ (Writes(own) \/ UNCHANGED db) BY <1>1 DEF StartCommit, api
  <2>2. own \in Start /\ (raced \/ Sound(own)) BY DEF Inv, TypeOK, Reading
  <2> QED BY <2>1, <2>2, StartGrows
<1>2. CASE UNCHANGED db BY <1>2, SameTracks DEF Inv
<1>3. ASSUME NEW r \in Row, UserDeletes(r) PROVE Growing
  <2>1. \A q \in Row : db'[q].track = db[q].track \/ db'[q].st = "deleted"
    BY <1>3 DEF UserDeletes, Inv, TypeOK
  <2> QED BY <2>1, SameTracks DEF Inv
<1>4. CASE Backfill
  <2>1. \A q \in Row : Fill(db[q]).track = db[q].track
    BY RouteUpdates DEF Inv, TypeOK
  <2>2. \A q \in Row : db'[q].track = db[q].track BY <1>4, <2>1 DEF Backfill
  <2> QED BY <2>2, SameTracks DEF Inv
<1>5. ASSUME NEW f \in File, NEW o \in Outcome, UploadOne(f, o) PROVE Growing
  <2>1. \A q \in Row : db'[q].track = db[q].track
    BY <1>5 DEF UploadOne, Live, Inv, TypeOK, Route
  <2> QED BY <2>1, SameTracks DEF Inv
<1>6. CASE Viewable \/ Close
  <2>1. \/ UNCHANGED db
        \/ Live(job.row) /\ db' = [db EXCEPT ![job.row] = Completed(db[job.row])]
    BY <1>6 DEF Viewable, Close, Skip, Complete
  <2>2. \A q \in Row : Completed(db[q]).track = db[q].track
    BY RouteUpdates DEF Inv, TypeOK
  <2>3. \A q \in Row : db'[q].track = db[q].track BY <2>1, <2>2 DEF Live, Inv, TypeOK
  <2> QED BY <2>3, SameTracks DEF Inv
<1>7. Collect \/ StartLoad \/ StartRaises \/ LeftLoad \/ LeftRaises \/ MarkUploaded \/ Restart
      \/ CloseSegment \/ DriveOff \/ (\E c \in Configs : Configure(c)) => UNCHANGED db
  BY DEF Collect, StartLoad, StartRaises, LeftLoad, LeftRaises, MarkUploaded, Restart,
         CloseSegment, DriveOff, Configure, api
<1>8. CASE LeftCommit
  <2>1. left.pc = "read" /\ Writes(left) BY <1>8 DEF LeftCommit
  <2>2. left \in Start /\ (raced \/ Sound(left)) BY DEF Inv, TypeOK, Reading
  <2> QED BY <2>1, <2>2, StartGrows
<1> QED BY <1>1, <1>2, <1>3, <1>4, <1>5, <1>6, <1>7, <1>8 DEF Next, AgentStep

\* _apply_track: whichever partial tracks, lost answers and starts given up come,
\* no stored track loses a point while no two starts are past their lookup at once.
THEOREM TracksOnlyGrow == Spec => TrackGrows
<1>1. Inv /\ [Next]_vars => [Growing]_vars BY StepGrows
<1>2. [Growing]_vars =>
        [\A r \in Row :
           \/ raced \/ db'[r].st = "deleted"
           \/ Cardinality(db'[r].track) >= Cardinality(db[r].track)]_vars
  BY DEF Growing
<1> QED BY <1>1, <1>2, Invariant, PTL DEF Spec, TrackGrows
=============================================================================
