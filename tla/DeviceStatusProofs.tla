-------------------------- MODULE DeviceStatusProofs --------------------------
(***************************************************************************)
(* Theorems about the two writers of a device's live status.               *)
(*                                                                         *)
(* LiveTrack, the beats of a real device: for every trail bound, gap,      *)
(* expiry, persist interval and number of failures, its types, the bound on *)
(* every trail and how far the row falls behind; and, when no handler dies *)
(* half-way, that it implements DriveTrail.                                *)
(*                                                                         *)
(* Replay, the replays of a simulated device: for any number of tasks,     *)
(* overlapping requests and failures, its types, that the last task leaves *)
(* the device parked, and that an old park never follows a newer start.    *)
(***************************************************************************)
EXTENDS LiveTrack, Replay, TLAPS

LEMMA AppendPointType ==
  ASSUME NEW current \in Seq(Point), NEW onroad \in BOOLEAN,
         NEW fix \in Point \cup {NoFix}
  PROVE  AppendPoint(current, onroad, fix) \in Seq(Point)
BY DEF AppendPoint

\* A thinning of a trail is a trail.
LEMMA ThinningType ==
  ASSUME NEW track \in Seq(Point), NEW s \in Thinnings(track)
  PROVE  s \in Seq(Point)
<1>0. PICK m \in 1 .. Len(track) :
        \E g \in Choices(Len(track), m) : s = [i \in 1 .. m |-> track[g[i]]]
  BY DEF Thinnings
<1>1. PICK g \in Choices(Len(track), m) : s = [i \in 1 .. m |-> track[g[i]]]
  BY <1>0
<1>2. g \in [1 .. m -> 1 .. Len(track)] BY DEF Choices
<1>3. s \in [1 .. m -> Point] BY <1>1, <1>2
<1>4. m \in Nat BY <1>0
<1> QED BY <1>3, <1>4

\* The hard cap leaves at most TrailMax points.
LEMMA CappedBound ==
  ASSUME NEW track \in Seq(Point)
  PROVE  Capped(track) \in Seq(Point) /\ Len(Capped(track)) <= TrailMax
<1>1. CASE Len(track) > TrailMax
  <2>1. Capped(track) = SubSeq(track, Len(track) - TrailMax + 1, Len(track))
    BY <1>1 DEF Capped
  <2> QED BY <1>1, <2>1, TrailAssumption
<1>2. CASE ~(Len(track) > TrailMax) BY <1>2, TrailAssumption DEF Capped
<1> QED BY <1>1, <1>2

\* Whatever the trail before a beat, the trail after it is below the trigger.
LEMMA NextTrailsBound ==
  ASSUME NEW current \in Seq(Point), NEW onroad \in BOOLEAN,
         NEW fix \in Point \cup {NoFix}
  PROVE  NextTrails(current, onroad, fix) \subseteq Trails
<1> DEFINE track == AppendPoint(current, onroad, fix)
<1>1. track \in Seq(Point) BY AppendPointType
<1> HIDE DEF track
<1>2. CASE SimplifyDue(track)
  <2>1. \A s \in Thinnings(track) : Capped(s) \in Trails
    <3> TAKE s \in Thinnings(track)
    <3>1. s \in Seq(Point) BY <1>1, ThinningType
    <3>2. Capped(s) \in Seq(Point) /\ Len(Capped(s)) <= TrailMax BY <3>1, CappedBound
    <3> QED BY <3>2, TrailAssumption DEF Trails
  <2> QED BY <2>1, <1>2 DEF NextTrails, track
<1>3. CASE ~SimplifyDue(track)
  <2>1. track \in Trails BY <1>1, <1>3, TrailAssumption DEF SimplifyDue, Trails
  <2> QED BY <2>1, <1>3 DEF NextTrails, track
<1> QED BY <1>2, <1>3
-----------------------------------------------------------------------------
\* Inductive: a beat under way carries a bounded trail and a drive within bounds.
Bounded ==
  /\ TypeOK /\ TrailBounded
  /\ beat.track \in Trails
  /\ beat.step # "idle" => DriveNow <= MaxDrives

LEMMA BoundedInit == Init => Bounded
<1> SUFFICES ASSUME Init PROVE Bounded
  OBVIOUS
<1>1. <<>> \in Trails BY TrailAssumption DEF Trails
<1>2. BeatTTL \in Nat /\ TrackTTL \in Nat BY LiveTrackAssumption DEF BeatTTL, TrackTTL
<1>3. TypeOK
  <2>1. <<>> \in Seq(Point) OBVIOUS
  <2>2. /\ beatAge \in 0 .. BeatTTL /\ trackAge \in 0 .. TrackTTL
        /\ persistAge \in 0 .. PresenceTTL /\ rowAge \in 0 .. Interval + 1
        /\ silence \in 0 .. Gap + 1 /\ drive \in 0 .. MaxDrives
        /\ failures \in 0 .. MaxFailures
    BY <1>2, TrailAssumption, LiveTrackAssumption DEF Init
  <2> QED BY <2>1, <2>2 DEF Init, TypeOK, NoBeat, NoPark
<1>4. TrailBounded BY <1>1 DEF Init, TrailBounded
<1> QED BY <1>1, <1>3, <1>4 DEF Bounded, Init, NoBeat

\* A beat that writes its keys finds a well-typed trail and yields bounded ones.
LEMMA BeatTrails ==
  ASSUME Bounded, beat.step = "loaded"
  PROVE  NextTrails(Prior, beat.onroad, FixNow(beat.at)) \subseteq Trails
<1>0. beat.onroad \in BOOLEAN /\ beat.at \in Places \cup {NoFix} /\ beat.row.track \in Seq(Point)
  BY DEF Bounded, TypeOK
<1>1. DriveNow \in 0 .. MaxDrives
  BY TrailAssumption DEF DriveNow, Bounded, TypeOK
<1>2. FixNow(beat.at) \in Point \cup {NoFix} BY <1>0, <1>1 DEF FixNow, Point
<1>3. Prior \in Seq(Point) BY <1>0 DEF Prior, Stored, Bounded, TypeOK
<1> QED BY <1>0, <1>2, <1>3, NextTrailsBound

LEMMA BoundedStep == Bounded /\ [Next]_vars => Bounded'
<1> SUFFICES ASSUME Bounded, [Next]_vars PROVE Bounded'
  OBVIOUS
<1> USE LiveTrackAssumption, TrailAssumption
<1>a. TypeOK /\ TrailBounded /\ beat.track \in Trails BY DEF Bounded
<1>b. BeatTTL \in Nat /\ TrackTTL \in Nat BY DEF BeatTTL, TrackTTL
<1>c. \A t \in Trails : t \in Seq(Point) BY DEF Trails
<1>d. <<>> \in Trails BY DEF Trails
\* A beat that ends, however it ends.
<1>e. ASSUME beat' = NoBeat
      PROVE  /\ beat' \in [step : {"idle", "loaded", "stored"}, onroad : BOOLEAN,
                   at : Places \cup {NoFix}, row : [onroad : BOOLEAN, track : Seq(Point)],
                   track : Seq(Point), persist : BOOLEAN, parked : BOOLEAN]
             /\ beat'.track \in Trails /\ beat'.step = "idle"
  BY <1>c, <1>d, <1>e DEF NoBeat
<1>f. ASSUME Heard, beat.step # "idle"
      PROVE  drive' \in 0 .. MaxDrives /\ silence' \in 0 .. Gap + 1
  BY <1>a, <1>f DEF Heard, DriveNow, TypeOK
<1>g. ASSUME CommitRow
      PROVE  /\ row' \in [onroad : BOOLEAN, track : Seq(Point)]
             /\ row'.track \in Trails /\ rowAge' \in 0 .. Interval + 1
  BY <1>a, <1>c, <1>g DEF CommitRow, TypeOK
<1>1. ASSUME NEW r \in Reports, BeatLoad(r[1], r[2]) PROVE Bounded'
  <2>0. r[1] \in BOOLEAN /\ r[2] \in Places \cup {NoFix} BY DEF Reports
  <2>1. /\ UNCHANGED <<keys, row, rowAge, parking, seen, failures>> /\ DriveNow <= MaxDrives
        /\ beat' = [NoBeat EXCEPT !.step = "loaded", !.onroad = r[1], !.at = r[2], !.row = row]
    BY <1>1 DEF BeatLoad
  <2>2. /\ beat' \in [step : {"idle", "loaded", "stored"}, onroad : BOOLEAN,
               at : Places \cup {NoFix}, row : [onroad : BOOLEAN, track : Seq(Point)],
               track : Seq(Point), persist : BOOLEAN, parked : BOOLEAN]
        /\ beat'.track \in Trails
    BY <1>a, <1>c, <1>d, <2>0, <2>1 DEF NoBeat, TypeOK
  <2>3. TypeOK' BY <1>a, <2>1, <2>2 DEF TypeOK, keys, seen
  <2> QED BY <1>a, <2>1, <2>2, <2>3 DEF Bounded, TrailBounded, DriveNow, keys, seen
<1>2. ASSUME BeatKeys PROVE Bounded'
  <2>1. /\ beat.step = "loaded" /\ beatAge' = 0
        /\ UNCHANGED <<persistAge, row, rowAge, parking, seen, failures>>
    BY <1>2 DEF BeatKeys
  <2>2. PICK track \in NextTrails(Prior, beat.onroad, FixNow(beat.at)) :
          /\ StoreTrack(track)
          /\ beat' = [beat EXCEPT !.step = "stored", !.track = track,
                                 !.persist = ShouldPersist]
    BY <1>2 DEF BeatKeys
  <2>3. track \in Trails BY <2>1, <2>2, BeatTrails
  <2>4. trackAge' \in 0 .. TrackTTL /\ keyTrack' \in Trails
    <3>1. CASE Interval = 0
      BY <1>a, <2>2, <3>1 DEF StoreTrack, TypeOK, TrailBounded
    <3>2. CASE Interval # 0
      BY <1>b, <2>2, <2>3, <3>2 DEF StoreTrack
    <3> QED BY <3>1, <3>2
  <2>5. ShouldPersist \in BOOLEAN BY DEF ShouldPersist
  <2>6. /\ beat' \in [step : {"idle", "loaded", "stored"}, onroad : BOOLEAN,
               at : Places \cup {NoFix}, row : [onroad : BOOLEAN, track : Seq(Point)],
               track : Seq(Point), persist : BOOLEAN, parked : BOOLEAN]
        /\ beat'.track = track
    BY <1>a, <1>c, <2>2, <2>3, <2>5 DEF TypeOK
  <2>7. TypeOK' BY <1>a, <1>b, <1>c, <2>1, <2>4, <2>6 DEF TypeOK, seen
  <2> QED BY <1>a, <2>1, <2>3, <2>4, <2>6, <2>7 DEF Bounded, TrailBounded, DriveNow, seen
<1>3. ASSUME BeatEnd PROVE Bounded'
  <2>1. /\ beat' = NoBeat /\ Heard /\ beat.step # "idle" /\ published' = beat.track
        /\ UNCHANGED <<beatAge, trackAge, keyTrack, parking, failures>>
    BY <1>3 DEF BeatEnd
  <2>2. /\ row' \in [onroad : BOOLEAN, track : Seq(Point)] /\ row'.track \in Trails
        /\ rowAge' \in 0 .. Interval + 1 /\ persistAge' \in 0 .. PresenceTTL
    BY <1>3, <1>a, <1>g DEF BeatEnd, TypeOK, TrailBounded
  <2>3. TypeOK' BY <1>a, <1>b, <1>c, <1>e, <1>f, <2>1, <2>2 DEF TypeOK
  <2> QED BY <1>a, <1>e, <2>1, <2>2, <2>3 DEF Bounded, TrailBounded
<1>4. ASSUME BeatDies PROVE Bounded'
  <2>1. /\ beat' = NoBeat /\ Heard /\ beat.step # "idle" /\ beatAge' \in {beatAge, 0}
        /\ failures' = failures + 1 /\ failures < MaxFailures
        /\ UNCHANGED <<trackAge, keyTrack, parking, published>>
    BY <1>4 DEF BeatDies
  <2>2. /\ row' \in [onroad : BOOLEAN, track : Seq(Point)] /\ row'.track \in Trails
        /\ rowAge' \in 0 .. Interval + 1 /\ persistAge' \in 0 .. PresenceTTL
    BY <1>4, <1>a, <1>g DEF BeatDies, TypeOK, TrailBounded
  <2>3. failures' \in 0 .. MaxFailures BY <2>1, <1>a DEF TypeOK
  <2>4. beatAge' \in 0 .. BeatTTL BY <1>a, <1>b, <2>1 DEF TypeOK
  <2>5. TypeOK' BY <1>a, <1>e, <1>f, <2>1, <2>2, <2>3, <2>4 DEF TypeOK
  <2> QED BY <1>a, <1>e, <2>1, <2>2, <2>5 DEF Bounded, TrailBounded
<1>5. CASE Drop
  <2>1. parking' \in [step : {"idle", "dropped", "loaded"}, onroad : BOOLEAN]
    BY <1>5 DEF Drop, NoPark
  <2>2. persistAge' = PresenceTTL BY <1>5 DEF Drop
  <2>3. persistAge' \in 0 .. PresenceTTL BY <2>2
  <2>4. TypeOK' BY <1>a, <1>5, <2>1, <2>3 DEF Drop, TypeOK, seen
  <2> QED BY <1>a, <1>5, <2>4 DEF Drop, TrailBounded, Bounded, DriveNow, seen
<1>6. CASE ParkLoad
  <2>1. TypeOK' BY <1>a, <1>6 DEF ParkLoad, TypeOK, keys, seen
  <2> QED BY <1>a, <1>6, <2>1 DEF ParkLoad, TrailBounded, Bounded, DriveNow, keys, seen
<1>7. CASE Park
  <2>1. /\ row' \in [onroad : BOOLEAN, track : Seq(Point)] /\ row'.track = row.track
    BY <1>a, <1>7 DEF Park, TypeOK
  <2>2. /\ beat' \in [step : {"idle", "loaded", "stored"}, onroad : BOOLEAN,
               at : Places \cup {NoFix}, row : [onroad : BOOLEAN, track : Seq(Point)],
               track : Seq(Point), persist : BOOLEAN, parked : BOOLEAN]
        /\ beat'.track = beat.track /\ beat'.step = beat.step
    BY <1>a, <1>7 DEF Park, TypeOK
  <2>3. /\ parking' = NoPark /\ UNCHANGED <<keys, rowAge, seen, failures>>
    BY <1>7 DEF Park
  <2>4. TypeOK' BY <1>a, <2>1, <2>2, <2>3 DEF TypeOK, NoPark, keys, seen
  <2> QED BY <1>a, <2>1, <2>2, <2>3, <2>4 DEF TrailBounded, Bounded, DriveNow, keys, seen
<1>8. CASE ParkDies
  <2>1. failures' \in 0 .. MaxFailures BY <1>a, <1>8 DEF ParkDies, TypeOK
  <2>2. TypeOK' BY <1>a, <1>8, <2>1 DEF ParkDies, TypeOK, NoPark, keys, seen
  <2> QED BY <1>a, <1>8, <2>2 DEF ParkDies, TrailBounded, Bounded, DriveNow, keys, seen
<1>9. CASE Tick
  <2>1. \A age, ttl \in Nat : age \in 0 .. ttl => Older(age, ttl) \in 0 .. ttl
    BY DEF Older
  <2>2. /\ beatAge' \in 0 .. BeatTTL /\ trackAge' \in 0 .. TrackTTL
        /\ persistAge' \in 0 .. PresenceTTL
        /\ rowAge' \in 0 .. Interval + 1 /\ silence' \in 0 .. Gap + 1
    BY <1>a, <1>b, <1>9, <2>1 DEF Tick, TypeOK
  <2>3. TypeOK' BY <1>a, <1>9, <2>2 DEF Tick, TypeOK
  <2> QED BY <1>a, <1>9, <2>3 DEF Tick, TrailBounded, Bounded
<1>10. CASE UNCHANGED vars
  <2>1. TypeOK' BY <1>a, <1>10 DEF vars, keys, seen, TypeOK
  <2> QED BY <1>a, <1>10, <2>1 DEF vars, keys, seen, TrailBounded, Bounded, DriveNow
<1> QED BY <1>1, <1>2, <1>3, <1>4, <1>5, <1>6, <1>7, <1>8, <1>9, <1>10 DEF Next

LEMMA BoundedAlways == Spec => []Bounded
BY BoundedInit, BoundedStep, PTL DEF Spec

\* Every variable of LiveTrack has its type in every reachable state.
THEOREM TypeCorrect == Spec => []TypeOK
BY BoundedAlways, PTL DEF Bounded

\* _next_live_track: no trail that is published, kept in Redis or stored in the
\* row ever reaches TrailMax + SimplifyAt points.
THEOREM TrailsBounded == Spec => []TrailBounded
BY BoundedAlways, PTL DEF Bounded
-----------------------------------------------------------------------------
(* Write-behind: how far the row may fall behind.                          *)

\* Under a beat the row carries the onroad flag the beat loaded, unless it was
\* parked since; a beat that will not be committed reports the flag it loaded.
RowKnown ==
  /\ beat.step # "idle" => beat.parked \/ row.onroad = beat.row.onroad
  /\ beat.step = "stored" /\ ~beat.persist => beat.onroad = beat.row.onroad

LEMMA RowKnownStep == TypeOK /\ RowKnown /\ [Next]_vars => RowKnown'
<1> SUFFICES ASSUME TypeOK, RowKnown, [Next]_vars PROVE RowKnown'
  OBVIOUS
<1>1. ASSUME NEW r \in Reports, BeatLoad(r[1], r[2]) PROVE RowKnown'
  BY <1>1 DEF BeatLoad, NoBeat, RowKnown
<1>2. CASE BeatKeys
  <2>1. PICK track : beat' = [beat EXCEPT !.step = "stored", !.track = track,
                                          !.persist = ShouldPersist]
    BY <1>2 DEF BeatKeys
  <2>2. /\ beat'.parked = beat.parked /\ beat'.onroad = beat.onroad /\ beat'.row = beat.row
        /\ beat'.persist = ShouldPersist /\ row' = row
    BY <1>2, <2>1 DEF BeatKeys, TypeOK
  <2> QED BY <1>2, <2>2 DEF BeatKeys, RowKnown, ShouldPersist
<1>3. CASE BeatEnd \/ BeatDies BY <1>3 DEF BeatEnd, BeatDies, NoBeat, RowKnown
<1>4. CASE Drop \/ ParkLoad \/ ParkDies \/ Tick
  BY <1>4 DEF Drop, ParkLoad, ParkDies, Tick, RowKnown
<1>5. CASE Park
  <2>1. CASE parking.onroad
    BY <1>5, <2>1 DEF Park, TypeOK, RowKnown
  <2>2. CASE ~parking.onroad BY <1>5, <2>2 DEF Park, RowKnown
  <2> QED BY <2>1, <2>2
<1>6. CASE UNCHANGED vars BY <1>6 DEF vars, RowKnown
<1> QED BY <1>1, <1>2, <1>3, <1>4, <1>5, <1>6 DEF Next

\* apply_heartbeat ("Force a persist on correctness boundaries"): in both persist
\* modes, after any failures and whatever set_offline does meanwhile, a beat
\* leaves its onroad flag in the row, unless the row was parked under that beat.
THEOREM RowFollows == Spec => RowFollowsOnroad
<1>1. Init => RowKnown BY DEF Init, NoBeat, RowKnown
<1>2. RowKnown /\ [Next]_vars => [BeatEnd => row'.onroad = beat.onroad \/ beat.parked]_vars
  <2> SUFFICES ASSUME RowKnown, BeatEnd, ~beat.parked PROVE row'.onroad = beat.onroad
    OBVIOUS
  <2>1. CASE beat.persist BY <2>1 DEF BeatEnd, CommitRow, RowKnown
  <2>2. CASE ~beat.persist BY <2>2 DEF BeatEnd, RowKnown
  <2> QED BY <2>1, <2>2
<1>3. TypeOK /\ RowKnown /\ [Next]_vars => RowKnown' BY RowKnownStep
<1> QED BY <1>1, <1>2, <1>3, TypeCorrect, PTL DEF Spec, RowFollowsOnroad

\* As long as the clock of the last commit has not expired, the row is no older
\* than the clock says: a beat that died before its commit did not move it. A
\* beat that will not be committed found the row young enough.
ClockHonest ==
  /\ persistAge < PresenceTTL => rowAge <= persistAge
  /\ beat.step = "stored" /\ ~beat.persist => rowAge < Interval

LEMMA ClockHonestStep == Bounded /\ ClockHonest /\ [Next]_vars => ClockHonest'
<1> SUFFICES ASSUME Bounded, ClockHonest, [Next]_vars PROVE ClockHonest'
  OBVIOUS
<1> USE LiveTrackAssumption
<1>a. /\ persistAge \in 0 .. PresenceTTL /\ rowAge \in 0 .. Interval + 1
  BY DEF Bounded, TypeOK
<1>1. ASSUME NEW r \in Reports, BeatLoad(r[1], r[2]) PROVE ClockHonest'
  BY <1>1 DEF BeatLoad, NoBeat, keys, ClockHonest
<1>2. CASE BeatKeys
  <2>1. PICK track : beat' = [beat EXCEPT !.step = "stored", !.track = track,
                                          !.persist = ShouldPersist]
    BY <1>2 DEF BeatKeys
  <2>2. beat'.persist = ShouldPersist BY <2>1 DEF Bounded, TypeOK
  <2>3. UNCHANGED <<persistAge, rowAge>> BY <1>2 DEF BeatKeys
  <2> QED BY <1>a, <2>2, <2>3 DEF ClockHonest, ShouldPersist
<1>3. CASE BeatEnd
  <2>1. beat'.step = "idle" BY <1>3 DEF BeatEnd, NoBeat
  <2>2. UNCHANGED <<persistAge, rowAge>> \/ (rowAge' = 0 /\ persistAge' \in {0, persistAge})
    BY <1>3 DEF BeatEnd, CommitRow
  <2> QED BY <1>a, <2>1, <2>2 DEF ClockHonest
<1>4. CASE BeatDies
  <2>1. beat'.step = "idle" BY <1>4 DEF BeatDies, NoBeat
  <2>2. UNCHANGED <<persistAge, rowAge>> \/ (rowAge' = 0 /\ persistAge' \in {0, persistAge})
    BY <1>4 DEF BeatDies, CommitRow
  <2> QED BY <1>a, <2>1, <2>2 DEF ClockHonest
<1>5. CASE Drop BY <1>5, <1>a DEF Drop, ClockHonest
<1>6. CASE ParkLoad \/ ParkDies BY <1>6 DEF ParkLoad, ParkDies, keys, ClockHonest
<1>7. CASE Park
  <2>1. beat'.step = beat.step /\ beat'.persist = beat.persist
    BY <1>7 DEF Park, Bounded, TypeOK
  <2> QED BY <1>7, <2>1 DEF Park, keys, ClockHonest
<1>8. CASE Tick
  <2>1. /\ persistAge' = Older(persistAge, PresenceTTL)
        /\ rowAge' = Older(rowAge, Interval + 1)
        /\ beat' = beat /\ beat.step = "idle"
    BY <1>8 DEF Tick
  <2> QED BY <1>a, <2>1 DEF ClockHonest, Older
<1>9. CASE UNCHANGED vars BY <1>9 DEF vars, keys, ClockHonest
<1> QED BY <1>1, <1>2, <1>3, <1>4, <1>5, <1>6, <1>7, <1>8, <1>9 DEF Next

\* apply_heartbeat, write-behind: after a beat the row is less than Interval
\* ticks old, whatever died, expired or was parked before or meanwhile.
THEOREM RowLag == Spec => RowLagBounded
<1> DEFINE Fresh == BeatEnd => rowAge' < (IF Interval = 0 THEN 1 ELSE Interval)
<1>1. Init => ClockHonest
  BY LiveTrackAssumption DEF Init, NoBeat, ClockHonest
<1>2. Bounded /\ ClockHonest /\ [Next]_vars => ClockHonest' BY ClockHonestStep
<1>3. Bounded /\ ClockHonest => [Fresh]_vars
  <2> SUFFICES ASSUME Bounded, ClockHonest, BeatEnd
               PROVE  rowAge' < (IF Interval = 0 THEN 1 ELSE Interval)
    OBVIOUS
  <2>1. CASE beat.persist BY <2>1, LiveTrackAssumption DEF BeatEnd, CommitRow
  <2>2. CASE ~beat.persist
    <3>1. rowAge' = rowAge /\ rowAge < Interval BY <2>2 DEF BeatEnd, ClockHonest
    <3>2. rowAge \in 0 .. Interval + 1 BY DEF Bounded, TypeOK
    <3> QED BY <3>1, <3>2, LiveTrackAssumption
  <2> QED BY <2>1, <2>2
<1> QED BY <1>1, <1>2, <1>3, BoundedAlways, PTL DEF Spec, RowLagBounded, Fresh
-----------------------------------------------------------------------------
(* Refinement: until a handler dies half-way, the clock in Redis and the   *)
(* stored trail mirror the silence and the published trail of DriveTrail;  *)
(* between its keys and its end a beat is ahead of DriveTrail.             *)

ClockMirrors ==
  IF beat.step = "stored" THEN beatAge = 0
  ELSE silence = IF beatAge > Gap THEN Gap + 1 ELSE beatAge

Resumed == IF silence > Gap THEN <<>> ELSE published

BeatMirrors ==
  beat.step = "stored" =>
    /\ beat.track \in NextTrails(Resumed, beat.onroad, FixNow(beat.at))
    /\ Interval = 0 => beat.persist

\* The trail the server holds.
Latest == IF beat.step = "stored" THEN beat.track ELSE published

TrailMirrors ==
  /\ Interval = 0 => /\ row.track = published
                     /\ beat.step = "loaded" => beat.row.track = published
  /\ Interval # 0 => /\ keyTrack = Latest
                     /\ \/ trackAge = beatAge
                        \/ trackAge = TrackTTL /\ Latest = <<>>

Mirror == Bounded /\ failures = 0 /\ ClockMirrors /\ BeatMirrors /\ TrailMirrors

\* The server sees a new drive exactly when DriveTrail does, and finds the
\* published trail when it does not.
LEMMA PriorMirrors ==
  ASSUME Mirror, beat.step = "loaded"
  PROVE  Prior = Resumed
<1> USE LiveTrackAssumption
<1>1. beatAge \in 0 .. BeatTTL /\ BeatTTL = Gap + PresenceTTL /\ TrackTTL = BeatTTL
  BY DEF Mirror, Bounded, TypeOK, BeatTTL, TrackTTL
<1>2. NewDrive <=> silence > Gap BY <1>1 DEF Mirror, ClockMirrors, NewDrive
<1>3. ASSUME silence <= Gap PROVE Stored = published
  <2>1. beatAge < TrackTTL BY <1>1, <1>3 DEF Mirror, ClockMirrors
  <2> QED BY <2>1 DEF Mirror, TrailMirrors, Latest, Stored
<1>4. silence \in Nat BY DEF Mirror, Bounded, TypeOK
<1> QED BY <1>2, <1>3, <1>4 DEF Prior, Resumed

LEMMA MirrorStep == failures' = 0 /\ Mirror /\ [Next]_vars => Mirror'
<1> SUFFICES ASSUME failures' = 0, Mirror, [Next]_vars PROVE Mirror'
  OBVIOUS
<1> USE LiveTrackAssumption
<1>a. Bounded' BY BoundedStep DEF Mirror
<1>b. TypeOK /\ failures = 0 /\ ClockMirrors /\ BeatMirrors /\ TrailMirrors
  BY DEF Mirror, Bounded
<1>1. ASSUME NEW r \in Reports, BeatLoad(r[1], r[2]) PROVE Mirror'
  <2>1. /\ UNCHANGED <<keys, row, seen, failures>> /\ beat.step = "idle"
        /\ beat'.step = "loaded" /\ beat'.row = row
    BY <1>1 DEF BeatLoad, NoBeat
  <2>2. ClockMirrors' BY <1>b, <2>1 DEF ClockMirrors, keys, seen
  <2>3. BeatMirrors' BY <2>1 DEF BeatMirrors
  <2>4. TrailMirrors' BY <1>b, <2>1 DEF TrailMirrors, Latest, TrackTTL, keys, seen
  <2> QED BY <1>a, <1>b, <2>1, <2>2, <2>3, <2>4 DEF Mirror
<1>2. ASSUME BeatKeys PROVE Mirror'
  <2>1. /\ beat.step = "loaded" /\ beatAge' = 0
        /\ UNCHANGED <<persistAge, row, rowAge, parking, seen, failures>>
    BY <1>2 DEF BeatKeys
  <2>2. PICK track \in NextTrails(Prior, beat.onroad, FixNow(beat.at)) :
          /\ StoreTrack(track)
          /\ beat' = [beat EXCEPT !.step = "stored", !.track = track,
                                 !.persist = ShouldPersist]
    BY <1>2 DEF BeatKeys
  <2>3. /\ beat'.step = "stored" /\ beat'.track = track /\ beat'.persist = ShouldPersist
        /\ beat'.onroad = beat.onroad /\ beat'.at = beat.at
    BY <1>b, <2>2 DEF TypeOK
  <2>4. ClockMirrors' BY <2>1, <2>3 DEF ClockMirrors
  <2>5. BeatMirrors'
    <3>1. track \in NextTrails(Resumed, beat.onroad, FixNow(beat.at))
      BY <2>1, <2>2, PriorMirrors
    <3>2. Resumed' = Resumed /\ FixNow(beat.at)' = FixNow(beat'.at)
      BY <2>1 DEF Resumed, FixNow, DriveNow, seen
    <3>3. FixNow(beat'.at) = FixNow(beat.at) BY <2>3
    <3>4. Interval = 0 => beat'.persist BY <2>3 DEF ShouldPersist
    <3>5. NextTrails(Resumed, beat.onroad, FixNow(beat.at))'
            = NextTrails(Resumed, beat.onroad, FixNow(beat.at))
      BY <2>3, <3>2, <3>3
    <3> QED BY <2>3, <3>1, <3>4, <3>5 DEF BeatMirrors
  <2>6. TrailMirrors'
    <3>1. CASE Interval = 0 BY <1>b, <2>1, <2>3, <3>1 DEF TrailMirrors, seen
    <3>2. CASE Interval # 0
      <4>1. keyTrack' = track /\ trackAge' = IF track = <<>> THEN TrackTTL ELSE 0
        BY <2>2, <3>2 DEF StoreTrack
      <4>2. Latest' = track BY <2>3 DEF Latest
      <4>3. TrackTTL' = TrackTTL BY DEF TrackTTL
      <4> QED BY <2>1, <3>2, <4>1, <4>2, <4>3 DEF TrailMirrors
    <3> QED BY <3>1, <3>2
  <2> QED BY <1>a, <1>b, <2>1, <2>4, <2>5, <2>6 DEF Mirror
<1>3. ASSUME BeatEnd PROVE Mirror'
  <2>1. /\ beat.step = "stored" /\ beat'.step = "idle" /\ published' = beat.track
        /\ silence' = 0 /\ UNCHANGED <<beatAge, trackAge, keyTrack, failures>>
    BY <1>3 DEF BeatEnd, Heard, NoBeat
  <2>2. ClockMirrors' BY <1>b, <2>1 DEF ClockMirrors
  <2>3. BeatMirrors' BY <2>1 DEF BeatMirrors
  <2>4. Interval = 0 => row'.track = beat.track
    BY <1>3, <1>b, <2>1 DEF BeatEnd, BeatMirrors, CommitRow
  <2>5. TrailMirrors' BY <1>b, <2>1, <2>4 DEF TrailMirrors, Latest, TrackTTL
  <2> QED BY <1>a, <1>b, <2>1, <2>2, <2>3, <2>5 DEF Mirror
<1>4. ASSUME Drop \/ ParkLoad \/ Park PROVE Mirror'
  <2>1. /\ UNCHANGED <<beatAge, trackAge, keyTrack, seen, failures>> /\ row'.track = row.track
        /\ beat'.step = beat.step /\ beat'.row = beat.row /\ beat'.track = beat.track
        /\ beat'.persist = beat.persist /\ beat'.onroad = beat.onroad /\ beat'.at = beat.at
    <3>1. CASE Drop BY <3>1 DEF Drop
    <3>2. CASE ParkLoad BY <3>2 DEF ParkLoad, keys
    <3>3. CASE Park BY <1>b, <3>3 DEF Park, keys, TypeOK
    <3> QED BY <1>4, <3>1, <3>2, <3>3
  <2>2. ClockMirrors' /\ TrailMirrors'
    BY <1>b, <2>1 DEF ClockMirrors, TrailMirrors, Latest, TrackTTL, seen
  <2>3. NextTrails(Resumed, beat.onroad, FixNow(beat.at))'
          = NextTrails(Resumed, beat.onroad, FixNow(beat.at))
    BY <2>1 DEF Resumed, FixNow, DriveNow, seen
  <2>4. BeatMirrors' BY <1>b, <2>1, <2>3 DEF BeatMirrors
  <2> QED BY <1>a, <1>b, <2>1, <2>2, <2>4 DEF Mirror
<1>5. ASSUME Tick PROVE Mirror'
  <2>0. /\ beatAge \in 0 .. BeatTTL /\ trackAge \in 0 .. TrackTTL
        /\ silence \in 0 .. Gap + 1
        /\ BeatTTL = Gap + PresenceTTL /\ TrackTTL = Gap + PresenceTTL
    BY <1>b DEF TypeOK, BeatTTL, TrackTTL
  <2>1. /\ beatAge' = Older(beatAge, BeatTTL) /\ trackAge' = Older(trackAge, TrackTTL)
        /\ silence' = Older(silence, Gap + 1) /\ beat.step = "idle"
        /\ UNCHANGED <<keyTrack, row, beat, published, failures>>
    BY <1>5 DEF Tick
  <2>2. ClockMirrors' BY <1>b, <2>0, <2>1 DEF ClockMirrors, Older
  <2>3. TrailMirrors' BY <1>b, <2>0, <2>1 DEF TrailMirrors, Latest, Older, TrackTTL
  <2>4. BeatMirrors' BY <2>1 DEF BeatMirrors
  <2> QED BY <1>a, <1>b, <2>1, <2>2, <2>3, <2>4 DEF Mirror
<1>6. ~ParkDies /\ ~BeatDies BY <1>b DEF ParkDies, BeatDies
<1>7. ASSUME UNCHANGED vars PROVE Mirror'
  <2>1. NextTrails(Resumed, beat.onroad, FixNow(beat.at))'
          = NextTrails(Resumed, beat.onroad, FixNow(beat.at))
    BY <1>7 DEF vars, Resumed, FixNow, DriveNow, seen
  <2>2. BeatMirrors' BY <1>b, <1>7, <2>1 DEF vars, BeatMirrors
  <2> QED BY <1>a, <1>b, <1>7, <2>2
          DEF vars, keys, seen, Mirror, ClockMirrors, TrailMirrors, Latest, TrackTTL
<1> QED BY <1>1, <1>2, <1>3, <1>4, <1>5, <1>6, <1>7 DEF Next

LEMMA MirrorInit == Init => Mirror
<1> SUFFICES ASSUME Init PROVE Mirror
  OBVIOUS
<1>1. ClockMirrors BY LiveTrackAssumption DEF Init, NoBeat, ClockMirrors, BeatTTL
<1>2. TrailMirrors /\ BeatMirrors BY DEF Init, NoBeat, TrailMirrors, BeatMirrors, Latest
<1> QED BY <1>1, <1>2, BoundedInit DEF Init, Mirror

\* DriveTrail computes the next trails as LiveTrack does.
LEMMA SameTrails ==
  ASSUME NEW current, NEW onroad, NEW fix
  PROVE  Promise!NextTrails(current, onroad, fix) = NextTrails(current, onroad, fix)
BY DEF Promise!NextTrails, NextTrails, Promise!AppendPoint, AppendPoint, Promise!Moved,
       Moved, Promise!Far, Far, Promise!SimplifyDue, SimplifyDue, Promise!Capped, Capped,
       Promise!Thinnings, Thinnings, Promise!Choices, Choices

\* The end of a beat is the beat of DriveTrail, a tick is a tick, and every other
\* step of LiveTrack leaves the published trail alone.
LEMMA StepSimulates ==
  failures' = 0 /\ Mirror /\ [Next]_vars => [Promise!Next]_(Promise!dvars)
<1> SUFFICES ASSUME failures' = 0, Mirror, [Next]_vars
             PROVE  [Promise!Next]_(Promise!dvars)
  OBVIOUS
<1>1. ASSUME BeatEnd PROVE Promise!Next
  <2>1. /\ Heard /\ published' = beat.track
        /\ beat.track \in NextTrails(Resumed, beat.onroad, FixNow(beat.at))
    BY <1>1 DEF BeatEnd, Mirror, BeatMirrors
  <2>2. beat.onroad \in BOOLEAN /\ beat.at \in Places \cup {NoFix}
    BY DEF Mirror, Bounded, TypeOK
  <2>3. published' \in Promise!NextTrails(IF silence > Gap THEN <<>> ELSE published,
                                         beat.onroad, FixNow(beat.at))
    BY <2>1, SameTrails DEF Resumed
  <2>4. Promise!Beat(beat.onroad, beat.at)
    BY <2>1, <2>3
    DEF Promise!Beat, Promise!DriveNow, Promise!FixNow, Heard, DriveNow, FixNow
  <2> QED BY <2>2, <2>4 DEF Promise!Next
<1>2. ASSUME (\E r \in Reports : BeatLoad(r[1], r[2])) \/ BeatKeys
             \/ Drop \/ ParkLoad \/ Park
      PROVE  UNCHANGED Promise!dvars
  BY <1>2 DEF BeatLoad, BeatKeys, Drop, ParkLoad, Park, seen, Promise!dvars
<1>3. ASSUME Tick PROVE Promise!Next
  <2>1. Promise!Tick
    <3>1. silence \in 0 .. Gap + 1 BY DEF Mirror, Bounded, TypeOK
    <3> QED BY <1>3, <3>1, LiveTrackAssumption DEF Tick, Older, Promise!Tick
  <2> QED BY <2>1 DEF Promise!Next
<1>4. ~ParkDies /\ ~BeatDies
  BY LiveTrackAssumption DEF ParkDies, BeatDies, Mirror
<1>5. ASSUME UNCHANGED vars PROVE UNCHANGED Promise!dvars
  BY <1>5 DEF vars, seen, Promise!dvars
<1> QED BY <1>1, <1>2, <1>3, <1>4, <1>5 DEF Next

\* Handlers that die are never taken back.
LEMMA FailuresCounted == TypeOK /\ [Next]_vars /\ failures' = 0 => failures = 0
<1>1. TypeOK => failures \in Nat BY LiveTrackAssumption DEF TypeOK
<1>2. Next \/ UNCHANGED vars => failures' = failures \/ failures' = failures + 1
  BY DEF Next, vars, BeatLoad, BeatKeys, BeatEnd, BeatDies, Drop, ParkLoad, Park,
         ParkDies, Tick
<1> QED BY <1>1, <1>2

\* apply_heartbeat / set_offline: until a handler dies half-way, the published
\* trail depends on beats and silences alone, in both persist modes.
THEOREM Implements == Spec => KeepsPromise
<1> DEFINE Kept == Bounded /\ (failures = 0 => Mirror)
<1>1. Init => Promise!Init BY DEF Init, Promise!Init
<1>2. Init => Kept BY MirrorInit, BoundedInit
<1>3. Kept /\ [Next]_vars => Kept'
  BY BoundedStep, MirrorStep, FailuresCounted DEF Bounded
<1>4. Kept /\ [Next]_vars => [failures' = 0 => [Promise!Next]_(Promise!dvars)]_vars
  BY StepSimulates, FailuresCounted DEF Bounded
<1> QED BY <1>1, <1>2, <1>3, <1>4, PTL DEF Spec, KeepsPromise
-----------------------------------------------------------------------------
(* Replay: the types *)

TaskPc == {"none", "new", "over"} \cup Walking \cup Parking
TaskState ==
  [pc : TaskPc, point : 0 .. Points, cancelled : BOOLEAN, loaded : Status]
CallPc == {"idle", "start", "startWait", "stop", "stopWait", "delete", "deleteWait", "drop"}
CallState == [pc : CallPc, old : Tasks \cup {None}]

LEMMA Constants ==
  /\ Points \in Nat /\ MaxTasks \in Nat
  /\ None \notin Tasks /\ Tasks \subseteq 0 .. MaxTasks
  /\ Off \in Status /\ NoTask \in TaskState /\ NoCall \in CallState
<1>1. Points \in Nat /\ MaxTasks \in Nat BY ReplayAssumption
<1>2. \A t \in Tasks : t \in Nat /\ t \in 0 .. MaxTasks BY <1>1 DEF Tasks
<1>3. Off \in Status BY DEF Off, Status
<1>4. NoTask \in TaskState BY <1>1, <1>3 DEF NoTask, TaskState, TaskPc
<1>5. NoCall \in CallState BY DEF NoCall, CallState, CallPc
<1>6. None \notin Tasks BY <1>2, ReplayAssumption
<1> QED BY <1>1, <1>2, <1>3, <1>4, <1>5, <1>6

LEMMA RequestKinds ==
  ASSUME NEW s \in Scenarios
  PROVE  s.requests \subseteq {"start", "stop", "delete"}
BY ReplayAssumption

\* A write of the row is a row.
LEMMA FlushStatus ==
  ASSUME status \in Status, NEW old \in Status, NEW new \in Status
  PROVE  /\ Flush(old, new) \in Status
         /\ Flush(old, new).onroad = IF new.onroad = old.onroad THEN status.onroad ELSE new.onroad
BY DEF Flush, Status

\* What Goto leaves of the tasks.
LEMMA GotoEffect ==
  ASSUME ReplayTypeOK, NEW t \in Tasks, NEW pc \in TaskPc, Goto(t, pc)
  PROVE  /\ task' \in [Tasks -> TaskState]
         /\ task'[t].pc = pc
         /\ \A s \in Tasks : s # t => task'[s] = task[s]
<1> DEFINE new == [pc |-> pc, point |-> IF pc \in Walking THEN task[t].point ELSE 0,
                 cancelled |-> FALSE, loaded |-> Off]
<1>1. task \in [Tasks -> TaskState] BY DEF ReplayTypeOK, TaskState, TaskPc
<1>2. task[t].point \in 0 .. Points BY <1>1 DEF TaskState
<1>4. new \in TaskState /\ new.pc = pc BY <1>2, Constants DEF TaskState, TaskPc
<1>5. task' = [task EXCEPT ![t] = new] BY DEF Goto
<1> HIDE DEF new
<1> QED BY <1>1, <1>4, <1>5

LEMMA TypesInit == ReplayInit => ReplayTypeOK
<1> SUFFICES ASSUME ReplayInit PROVE ReplayTypeOK OBVIOUS
<1>1. task \in [Tasks -> TaskState] BY Constants DEF ReplayInit
<1>2. caller \in [Callers -> CallState] BY Constants DEF ReplayInit
<1>3. Asleep \in [pc : {"idle", "probe", "unmark", "load", "commit"}, loaded : Status]
  BY Constants DEF Asleep
<1>4. 0 \in 0 .. MaxTasks BY Constants
<1> QED BY <1>1, <1>2, <1>3, <1>4, Constants
        DEF ReplayInit, ReplayTypeOK, TaskState, TaskPc, CallState, CallPc

\* The typed parts that a step of a task leaves to the others.
LEMMA TaskTypes ==
  ASSUME ReplayTypeOK, NEW t \in Tasks, TaskStep(t) \/ WriteFails(t)
  PROVE  ReplayTypeOK'
<1>0. task \in [Tasks -> TaskState] /\ status \in Status
  BY DEF ReplayTypeOK, TaskState, TaskPc
<1>a. ASSUME task' \in [Tasks -> TaskState],
             UNCHANGED <<scenario, caller, reaper>>,
             active' \in Tasks \cup {None}, status' \in Status, presence' \in BOOLEAN,
             UNCHANGED deleted, author' \in 0 .. MaxTasks, disturbed' \in BOOLEAN,
             faults' \in Nat
      PROVE  ReplayTypeOK'
  BY <1>a DEF ReplayTypeOK, TaskState, TaskPc
<1>1. CASE Walk(t)
  <2>1. CASE task[t].point < Points
    <3> DEFINE new == [task[t] EXCEPT !.pc = "load", !.point = task[t].point + 1]
    <3>1. task' = [task EXCEPT ![t] = new] BY <1>1, <2>1 DEF Walk
    <3>2. task[t].point + 1 \in 0 .. Points BY <1>0, <2>1, Constants DEF TaskState
    <3>3. new \in TaskState BY <1>0, <3>2 DEF TaskState, TaskPc, Walking
    <3> HIDE DEF new
    <3>4. task' \in [Tasks -> TaskState] BY <1>0, <3>1, <3>3
    <3> QED BY <1>1, <1>a, <3>4 DEF Walk, TaskOnly, ReplayTypeOK
  <2>2. CASE ~(task[t].point < Points)
    <3>1. Goto(t, "unmark") BY <1>1, <2>2 DEF Walk
    <3>2. task' \in [Tasks -> TaskState] BY <3>1, GotoEffect DEF TaskPc, Parking
    <3> QED BY <1>1, <1>a, <3>2 DEF Walk, TaskOnly, ReplayTypeOK
  <2> QED BY <2>1, <2>2
<1>2. CASE Load(t)
  <2>1. PICK pc \in TaskPc : task' = [task EXCEPT ![t] = [@ EXCEPT !.loaded = status, !.pc = pc]]
    BY <1>2 DEF Load, TaskPc, Walking, Parking
  <2>2. [task[t] EXCEPT !.loaded = status, !.pc = pc] \in TaskState BY <1>0 DEF TaskState
  <2>3. task' \in [Tasks -> TaskState] BY <1>0, <2>1, <2>2
  <2> QED BY <1>2, <1>a, <2>3 DEF Load, TaskOnly, ReplayTypeOK
<1>3. CASE Commit(t)
  <2>1. task' \in [Tasks -> TaskState]
    BY <1>3, GotoEffect DEF Commit, TaskPc, Walking, Parking
  <2>2. Standing \in Status /\ Driving \in Status BY DEF Status, Standing, Driving
  <2>5. \A new \in {Standing, Driving} : Flush(task[t].loaded, new) \in Status
    BY <1>0, <2>2, FlushStatus DEF TaskState
  <2>3. status' \in Status BY <1>3, <1>0, <2>5 DEF Commit
  <2>4. author' \in 0 .. MaxTasks BY <1>3, Constants DEF Commit, ReplayTypeOK
  <2> QED BY <1>3, <1>a, <2>1, <2>3, <2>4 DEF Commit, ReplayTypeOK
<1>4. CASE Mark(t)
  <2>1. task' \in [Tasks -> TaskState]
    BY <1>4, GotoEffect DEF Mark, TaskPc, Walking, Parking
  <2>2. author' \in 0 .. MaxTasks BY <1>4, Constants DEF Mark
  <2> QED BY <1>4, <1>a, <2>1, <2>2 DEF Mark, ReplayTypeOK
<1>5. CASE Pop(t)
  BY <1>5, <1>a, GotoEffect DEF Pop, ReplayTypeOK, TaskPc
<1>6. CASE Interrupt(t)
  <2>1. Interrupted(task[t].pc) \in TaskPc BY DEF Interrupted, TaskPc, Parking
  <2>2. task' \in [Tasks -> TaskState] BY <1>6, <2>1, GotoEffect DEF Interrupt
  <2> QED BY <1>6, <1>a, <2>2 DEF Interrupt, ReplayTypeOK
<1>7. CASE WriteFails(t)
  <2>1. task' \in [Tasks -> TaskState]
    BY <1>7, GotoEffect DEF WriteFails, AfterFailure, TaskPc, Walking, Parking
  <2>2. faults' \in Nat BY <1>7, Constants DEF WriteFails, Fault, ReplayTypeOK
  <2> QED BY <1>7, <1>a, <2>1, <2>2 DEF WriteFails, Fault, ReplayTypeOK
<1> QED BY <1>1, <1>2, <1>3, <1>4, <1>5, <1>6, <1>7 DEF TaskStep

LEMMA RequestTypes ==
  ASSUME ReplayTypeOK, NEW q \in Callers, Enter(q) \/ Start(q) \/ Stop(q) \/ Delete(q)
  PROVE  ReplayTypeOK'
<1>0. task \in [Tasks -> TaskState] /\ caller \in [Callers -> CallState]
  BY DEF ReplayTypeOK, TaskState, TaskPc, CallState, CallPc
<1>a. ASSUME task' \in [Tasks -> TaskState], caller' \in [Callers -> CallState],
             active' \in Tasks \cup {None}, RequestOnly
      PROVE  ReplayTypeOK'
  BY <1>a DEF RequestOnly, ReplayTypeOK, TaskState, TaskPc, CallState, CallPc
<1>b. ASSUME NEW from, NEW r \in CallState, Calls(q, from, r)
      PROVE  caller' \in [Callers -> CallState]
  BY <1>b, <1>0 DEF Calls
<1>c. \A pc \in CallPc : [NoCall EXCEPT !.pc = pc] \in CallState BY Constants DEF CallState
<1>d. ASSUME NEW from, NEW wait \in {"startWait", "stopWait", "deleteWait"},
             CancelOld(q, from, wait)
      PROVE  ReplayTypeOK'
  <2>1. active \in Tasks BY <1>d DEF CancelOld, IsReplaying, ReplayTypeOK
  <2>2. [pc |-> wait, old |-> active] \in CallState BY <2>1 DEF CallState, CallPc
  <2>3. caller' \in [Callers -> CallState] BY <1>d, <1>b, <2>2 DEF CancelOld
  <2>4. task' \in [Tasks -> TaskState] BY <1>d, <1>0, <2>1 DEF CancelOld, TaskState
  <2> QED BY <1>d, <1>a, <2>3, <2>4 DEF CancelOld, ReplayTypeOK
<1>e. ASSUME NEW from, Spawn(q, from) PROVE ReplayTypeOK'
  <2>1. PICK t \in FreshTask : /\ Calls(q, from, NoCall)
                               /\ task' = Spawned(t) /\ active' = t
                               /\ RequestOnly
    BY <1>e DEF Spawn
  <2>2. t \in Tasks BY DEF FreshTask
  <2>3. task' \in [Tasks -> TaskState] BY <1>0, <2>1, <2>2 DEF Spawned, TaskState, TaskPc
  <2>4. caller' \in [Callers -> CallState] BY <1>b, <2>1, Constants
  <2> QED BY <1>a, <2>1, <2>2, <2>3, <2>4
<1>f. ASSUME NEW from, NEW wait \in {"stopWait", "deleteWait"}, NEW to \in CallPc,
             StopTo(q, from, wait, to)
      PROVE  ReplayTypeOK'
  <2>1. CASE CancelOld(q, from, wait) BY <2>1, <1>d
  <2>2. CASE ~CancelOld(q, from, wait)
    <3>1. \E f : Calls(q, f, [NoCall EXCEPT !.pc = to]) BY <1>f, <2>2 DEF StopTo
    <3>2. caller' \in [Callers -> CallState] BY <3>1, <1>b, <1>c
    <3> QED BY <1>f, <2>2, <1>0, <1>a, <3>2 DEF StopTo, ReplayTypeOK
  <2> QED BY <2>1, <2>2
<1>1. CASE Enter(q)
  <2>1. PICK op \in {"start", "stop", "delete"} : Calls(q, "idle", [NoCall EXCEPT !.pc = op])
    BY <1>1, RequestKinds DEF Enter, ReplayTypeOK
  <2>2. caller' \in [Callers -> CallState] BY <1>b, <1>c, <2>1 DEF CallPc
  <2> QED BY <1>1, <1>0, <1>a, <2>2 DEF Enter, ReplayTypeOK
<1>2. CASE Start(q) BY <1>2, <1>d, <1>e DEF Start
<1>3. CASE Stop(q) BY <1>3, <1>f DEF Stop, CallPc
<1>4. CASE Delete(q)
  <2>1. CASE StopTo(q, "delete", "deleteWait", "drop") BY <2>1, <1>f DEF CallPc
  <2>2. CASE ~StopTo(q, "delete", "deleteWait", "drop")
    <3>1. caller' \in [Callers -> CallState] BY <1>4, <2>2, <1>b, Constants DEF Delete
    <3> QED BY <1>4, <2>2, <3>1, Constants DEF Delete, ReplayTypeOK, CallState, CallPc
  <2> QED BY <2>1, <2>2
<1> QED BY <1>1, <1>2, <1>3, <1>4

LEMMA OtherTypes ==
  ASSUME ReplayTypeOK, ReaperStep \/ Expire \/ Restart
  PROVE  ReplayTypeOK'
<1>0. reaper \in [pc : {"idle", "probe", "unmark", "load", "commit"}, loaded : Status]
  BY DEF ReplayTypeOK
<1>a. 0 \in 0 .. MaxTasks BY Constants
<1>1. CASE Sweep BY <1>1, <1>0 DEF Sweep, Reap, ReplayTypeOK
<1>2. CASE Probe BY <1>2, <1>0 DEF Probe, Reap, ReplayTypeOK
<1>3. CASE ReapUnmark BY <1>3, <1>0, <1>a DEF ReapUnmark, Reap, ReplayTypeOK
<1>4. CASE ReapLoad BY <1>4 DEF ReapLoad, ReplayTypeOK
<1>5. CASE ReapCommit
  <2>1. Flush(reaper.loaded, Off) \in Status BY <1>0, FlushStatus, Constants DEF ReplayTypeOK
  <2>2. status' \in Status BY <1>5, <2>1 DEF ReapCommit, ReplayTypeOK
  <2>3. author' \in 0 .. MaxTasks BY <1>5, <1>a DEF ReapCommit, ReplayTypeOK
  <2>4. reaper' \in [pc : {"idle", "probe", "unmark", "load", "commit"}, loaded : Status]
    BY <1>5, Constants DEF ReapCommit, Asleep
  <2> QED BY <1>5, <2>2, <2>3, <2>4 DEF ReapCommit, ReplayTypeOK
<1>6. CASE Expire BY <1>6 DEF Expire, ReplayTypeOK
<1>7. CASE Restart
  <2>1. [NoTask EXCEPT !.pc = "over"] \in TaskState BY Constants DEF TaskState, TaskPc
  <2>2. task' \in [Tasks -> TaskState] BY <1>7, <2>1, Constants DEF Restart
  <2>3. caller' \in [Callers -> CallState] BY <1>7, Constants DEF Restart
  <2>4. faults' \in Nat BY <1>7, Constants DEF Restart, Fault, ReplayTypeOK
  <2>5. reaper' \in [pc : {"idle", "probe", "unmark", "load", "commit"}, loaded : Status]
    BY <1>7, Constants DEF Restart, Asleep
  <2> QED BY <1>7, <2>2, <2>3, <2>4, <2>5
          DEF Restart, Fault, ReplayTypeOK, TaskState, TaskPc, CallState, CallPc
<1> QED BY <1>1, <1>2, <1>3, <1>4, <1>5, <1>6, <1>7 DEF ReaperStep

LEMMA TypesNext == ReplayTypeOK /\ [ReplayNext]_replayVars => ReplayTypeOK'
<1> SUFFICES ASSUME ReplayTypeOK, [ReplayNext]_replayVars PROVE ReplayTypeOK' OBVIOUS
<1>1. CASE UNCHANGED replayVars BY <1>1 DEF replayVars, ReplayTypeOK
<1> QED BY <1>1, TaskTypes, RequestTypes, OtherTypes DEF ReplayNext

\* Every variable of Replay keeps its type.
THEOREM ReplayTypes == ReplaySpec => []ReplayTypeOK
BY TypesInit, TypesNext, PTL DEF ReplaySpec
-----------------------------------------------------------------------------
(* A step of a task, and of a request *)

\* A step changes one task, and one that is over stays over.
LEMMA TaskLocal ==
  ASSUME ReplayTypeOK, NEW t \in Tasks, TaskStep(t) \/ WriteFails(t)
  PROVE  /\ UNCHANGED <<scenario, caller, deleted>>
         /\ active' = active \/ (~Over(t) /\ Over(t)' /\ active' = None)
         /\ \A s \in Tasks : s # t => task'[s] = task[s]
         /\ Over(t) => Over(t)'
         /\ author' = author \/ (~Over(t) /\ author' = t)
         /\ task'[t].pc = "asleep" => author' = t \/ deleted
         /\ disturbed => disturbed'
<1>0. task \in [Tasks -> TaskState] BY DEF ReplayTypeOK, TaskState, TaskPc
<1>a. \A s \in Tasks : s # t => task'[s] = task[s]
  <2>1. (\E r : task' = [task EXCEPT ![t] = r])
    BY DEF TaskStep, Walk, Load, Commit, Mark, Pop, Interrupt, WriteFails, Goto
  <2> QED BY <2>1, <1>0
<1>b. ASSUME NEW pc \in TaskPc, Goto(t, pc) PROVE task'[t].pc = pc
  BY <1>b, GotoEffect
<1>1. CASE Walk(t)
  <2>1. CASE task[t].point < Points
    <3>1. [task[t] EXCEPT !.pc = "load", !.point = task[t].point + 1].pc = "load"
      BY <1>0 DEF TaskState
    <3> QED BY <1>1, <1>0, <1>a, <2>1, <3>1 DEF Walk, TaskOnly, At, Over
  <2>2. CASE ~(task[t].point < Points)
    <3>1. task'[t].pc = "unmark" BY <1>1, <2>2, <1>b DEF Walk, TaskPc, Parking
    <3> QED BY <1>1, <1>a, <3>1 DEF Walk, TaskOnly, At, Over
  <2> QED BY <2>1, <2>2
<1>2. CASE Load(t)
  <2>1. task'[t].pc = "asleep" => deleted BY <1>2, <1>0 DEF Load
  <2> QED BY <1>2, <1>a, <2>1 DEF Load, TaskOnly, At, Over
<1>3. CASE Commit(t)
  <2>1. task'[t].pc # "asleep" BY <1>3, <1>b DEF Commit, TaskPc, Walking, Parking
  <2> QED BY <1>3, <1>a, <2>1 DEF Commit, At, Over
<1>4. CASE Mark(t) BY <1>4, <1>a DEF Mark, At, Over
<1>5. CASE Pop(t)
  <2>1. task'[t].pc = "over" BY <1>5, <1>b DEF Pop, TaskPc
  <2> QED BY <1>5, <1>a, <2>1 DEF Pop, At, Over
<1>6. CASE Interrupt(t)
  <2>1. task'[t].pc = Interrupted(task[t].pc)
    BY <1>6, <1>b DEF Interrupt, Interrupted, TaskPc, Parking
  <2> QED BY <1>6, <1>a, <2>1 DEF Interrupt, Interrupted, Over, Walking
<1>7. CASE WriteFails(t)
  <2>1. task'[t].pc # "asleep"
    BY <1>7, <1>b DEF WriteFails, AfterFailure, TaskPc, Walking, Parking
  <2> QED BY <1>7, <1>a, <2>1 DEF WriteFails, Fault, Walking, Parking, Over
<1> QED BY <1>1, <1>2, <1>3, <1>4, <1>5, <1>6, <1>7 DEF TaskStep

\* A cancellation leaves the task where it is.
LEMMA CancelLocal ==
  ASSUME ReplayTypeOK, NEW q \in Callers, NEW from, NEW wait, CancelOld(q, from, wait)
  PROVE  /\ active \in Tasks /\ ~Over(active)
         /\ caller' = [caller EXCEPT ![q] = [pc |-> wait, old |-> active]]
         /\ \A s \in Tasks : task'[s].pc = task[s].pc /\ task'[s].loaded = task[s].loaded
<1>1. task \in [Tasks -> TaskState] BY DEF ReplayTypeOK, TaskState, TaskPc
<1>2. active \in Tasks BY DEF CancelOld, IsReplaying, ReplayTypeOK
<1>3. task' = [task EXCEPT ![active].cancelled = TRUE] BY DEF CancelOld
<1>4. \A s \in Tasks : task'[s].pc = task[s].pc /\ task'[s].loaded = task[s].loaded
  BY <1>1, <1>2, <1>3 DEF TaskState
<1> QED BY <1>2, <1>4 DEF CancelOld, IsReplaying, Calls

\* A start registers the task it creates.
LEMMA SpawnLocal ==
  ASSUME ReplayTypeOK, NEW q \in Callers, NEW from, Spawn(q, from)
  PROVE  \E t \in Tasks :
           /\ active' = t /\ task[t].pc = "none" /\ task'[t].pc = "new"
           /\ \A s \in Tasks : s # t => task'[s] = task[s]
           /\ caller[q].pc = from /\ caller' = [caller EXCEPT ![q] = NoCall]
           /\ RequestOnly
<1>1. task \in [Tasks -> TaskState] BY DEF ReplayTypeOK, TaskState, TaskPc
<1>2. PICK t \in FreshTask : /\ Calls(q, from, NoCall)
                             /\ task' = Spawned(t) /\ active' = t
                             /\ RequestOnly
  BY DEF Spawn
<1>3. t \in Tasks /\ task[t].pc = "none" BY DEF FreshTask, NoTask
<1>4. task'[t].pc = "new" /\ \A s \in Tasks : s # t => task'[s] = task[s]
  BY <1>1, <1>2, <1>3 DEF Spawned, TaskState
<1> QED BY <1>2, <1>3, <1>4 DEF Calls
-----------------------------------------------------------------------------
(* One replay at a time *)

Starting(q) == caller[q].pc \in {"start", "startWait"}

\* When starts do not overlap, the table names every task that is not over, and
\* the start that waits has cancelled it.
OneReplay ==
  ~scenario.overlap =>
    /\ \A p, q \in Callers : Starting(p) /\ Starting(q) => p = q
    /\ \A t \in Tasks : ~Over(t) => active = t
    /\ \A q \in Callers, t \in Tasks :
         caller[q].pc = "startWait" /\ ~Over(t) => caller[q].old = t

Serial == ReplayTypeOK /\ OneReplay /\ OldParkNeverLast

LEMMA SerialTask ==
  ASSUME Serial, NEW t \in Tasks, TaskStep(t) \/ WriteFails(t)
  PROVE  OneReplay' /\ OldParkNeverLast'
<1> SUFFICES ASSUME ~scenario.overlap PROVE OneReplay' /\ OldParkNeverLast'
  BY TaskLocal DEF Serial, OneReplay, OldParkNeverLast
<1>1. /\ UNCHANGED <<scenario, caller, deleted>>
      /\ active' = active \/ (~Over(t) /\ Over(t)' /\ active' = None)
      /\ \A s \in Tasks : s # t => task'[s] = task[s]
      /\ Over(t) => Over(t)'
      /\ author' = author \/ (~Over(t) /\ author' = t)
      /\ task'[t].pc = "asleep" => author' = t \/ deleted
  BY TaskLocal DEF Serial
<1>2. \A s \in Tasks : ~Over(s)' => ~Over(s) BY <1>1 DEF Over
<1>3. \A s, u \in Tasks : ~Over(s) /\ ~Over(u) => s = u BY DEF Serial, OneReplay
<1>4. \A s \in Tasks : ~Over(s)' => active' = s
  <2> TAKE s \in Tasks
  <2> HAVE ~Over(s)'
  <2>1. active = s BY <1>2 DEF Serial, OneReplay
  <2> QED BY <2>1, <1>1, <1>2, <1>3
<1>5. OneReplay'
  BY <1>1, <1>2, <1>4 DEF Serial, OneReplay, Starting
<1>6. \A s \in Tasks : task'[s].pc = "asleep" /\ ~deleted' => author' \in {0, s}
  <2> TAKE s \in Tasks
  <2> HAVE task'[s].pc = "asleep" /\ ~deleted'
  <2>1. CASE s = t BY <2>1, <1>1
  <2>2. CASE s # t
    <3>1. task[s].pc = "asleep" /\ ~Over(s) BY <2>2, <1>1 DEF Over
    <3>2. author \in {0, s} BY <3>1, <1>1 DEF Serial, OldParkNeverLast
    <3> QED BY <2>2, <3>1, <3>2, <1>1, <1>3
  <2> QED BY <2>1, <2>2
<1> QED BY <1>5, <1>6 DEF OldParkNeverLast

LEMMA SerialStart ==
  ASSUME Serial, NEW q \in Callers, Enter(q) \/ Start(q)
  PROVE  OneReplay' /\ OldParkNeverLast'
<1>0. caller \in [Callers -> CallState] /\ task \in [Tasks -> TaskState]
  BY DEF Serial, ReplayTypeOK, CallState, CallPc, TaskState, TaskPc
<1>u. UNCHANGED <<scenario, deleted, author>>
  BY DEF Enter, Start, CancelOld, Spawn, RequestOnly
<1> SUFFICES ASSUME ~scenario.overlap PROVE OneReplay' /\ OldParkNeverLast'
  BY <1>u DEF OneReplay, OldParkNeverLast
<1>1. CASE Enter(q)
  <2>1. UNCHANGED <<task, active>> BY <1>1 DEF Enter
  <2>2. PICK op \in {"start", "stop", "delete"} :
          /\ op = "start" => \A p \in Callers : ~Starting(p)
          /\ caller' = [caller EXCEPT ![q] = [NoCall EXCEPT !.pc = op]]
    BY <1>1, RequestKinds DEF Enter, Calls, Starting, Serial, ReplayTypeOK
  <2>3. [NoCall EXCEPT !.pc = op].pc = op BY DEF NoCall
  <2>4. /\ \A p \in Callers : p # q => caller'[p] = caller[p]
        /\ caller'[q].pc = op
    BY <1>0, <2>2, <2>3
  <2> QED BY <1>u, <2>1, <2>2, <2>4 DEF Serial, OneReplay, OldParkNeverLast, Starting, Over
<1>2. CASE CancelOld(q, "start", "startWait")
  <2>1. /\ active \in Tasks /\ ~Over(active)
        /\ caller' = [caller EXCEPT ![q] = [pc |-> "startWait", old |-> active]]
        /\ \A s \in Tasks : task'[s].pc = task[s].pc
    BY <1>2, CancelLocal DEF Serial
  <2>2. UNCHANGED active /\ Starting(q) BY <1>2 DEF CancelOld, Calls, Starting
  <2>3. /\ \A p \in Callers : p # q => caller'[p] = caller[p]
        /\ caller'[q].pc = "startWait" /\ caller'[q].old = active
    BY <1>0, <2>1
  <2>4. \A t \in Tasks : ~Over(t)' => ~Over(t) BY <2>1 DEF Over
  <2>5. \A p \in Callers : Starting(p)' => Starting(p) BY <2>2, <2>3 DEF Starting
  <2>6. \A p \in Callers, t \in Tasks : caller'[p].pc = "startWait" /\ ~Over(t)' => caller'[p].old = t
    BY <2>3, <2>4 DEF Serial, OneReplay
  <2>7. OneReplay' BY <2>2, <2>4, <2>5, <2>6 DEF Serial, OneReplay
  <2>8. OldParkNeverLast' BY <1>u, <2>1 DEF Serial, OldParkNeverLast
  <2> QED BY <2>7, <2>8
<1>3. ASSUME NEW from \in {"start", "startWait"}, Spawn(q, from), \A s \in Tasks : Over(s)
      PROVE  OneReplay' /\ OldParkNeverLast'
  <2>0. ReplayTypeOK /\ Spawn(q, from) BY <1>3 DEF Serial
  <2>1. PICK t \in Tasks :
           /\ active' = t /\ task[t].pc = "none" /\ task'[t].pc = "new"
           /\ \A s \in Tasks : s # t => task'[s] = task[s]
           /\ caller[q].pc = from /\ caller' = [caller EXCEPT ![q] = NoCall]
           /\ RequestOnly
    BY <2>0, SpawnLocal
  <2>2. \A s \in Tasks : s # t => Over(s)' BY <1>3, <2>1 DEF Over
  <2>3. \A p \in Callers : ~Starting(p)'
    <3> TAKE p \in Callers
    <3>1. CASE p = q BY <3>1, <1>0, <2>1 DEF Starting, NoCall
    <3>2. CASE p # q
      <4>1. ~Starting(p) BY <1>3, <2>1, <3>2 DEF Serial, OneReplay, Starting
      <4> QED BY <1>0, <2>1, <3>2, <4>1 DEF Starting
    <3> QED BY <3>1, <3>2
  <2>4. OneReplay' BY <2>1, <2>2, <2>3 DEF OneReplay, Starting
  <2>5. \A s \in Tasks : task'[s].pc # "asleep" BY <2>1, <2>2 DEF Over
  <2> QED BY <2>4, <2>5 DEF OldParkNeverLast
<1>4. CASE ~IsReplaying /\ Spawn(q, "start")
  <2>1. \A s \in Tasks : Over(s)
    BY <1>4, Constants DEF IsReplaying, Serial, OneReplay
  <2> QED BY <1>3, <1>4, <2>1
<1>5. CASE /\ caller[q].pc = "startWait" /\ Awaited(caller[q].old)
           /\ Spawn(q, "startWait")
  <2>1. \A s \in Tasks : Over(s) BY <1>5 DEF Awaited, Serial, OneReplay
  <2> QED BY <1>3, <1>5, <2>1
<1> QED BY <1>1, <1>2, <1>4, <1>5 DEF Start

\* Stops, deletions, the reaper and a restart start no task and park no other.
LEMMA SerialRest ==
  ASSUME Serial,
         (\E q \in Callers : Stop(q) \/ Delete(q)) \/ ReaperStep \/ Expire \/ Restart
         \/ UNCHANGED replayVars
  PROVE  OneReplay' /\ OldParkNeverLast'
<1>0. caller \in [Callers -> CallState] /\ task \in [Tasks -> TaskState]
  BY DEF Serial, ReplayTypeOK, CallState, CallPc, TaskState, TaskPc
<1>a. ASSUME UNCHANGED <<scenario, active>>, author' \in {0, author}, deleted => deleted',
             \A t \in Tasks : task'[t].pc = task[t].pc,
             \A p \in Callers : caller'[p] = caller[p] \/ ~Starting(p)'
      PROVE  OneReplay' /\ OldParkNeverLast'
  <2>1. \A p \in Callers : Starting(p)' => Starting(p) /\ caller'[p] = caller[p]
    BY <1>a DEF Starting
  <2>2. \A t \in Tasks : ~Over(t)' => ~Over(t) BY <1>a DEF Over
  <2>3. OneReplay' BY <1>a, <2>1, <2>2 DEF Serial, OneReplay, Starting
  <2>4. OldParkNeverLast' BY <1>a DEF Serial, OldParkNeverLast
  <2> QED BY <2>3, <2>4
<1>b. ASSUME NEW q \in Callers, NEW from, NEW wait \in {"stopWait", "deleteWait"},
             NEW to \in {"idle", "drop"}, StopTo(q, from, wait, to)
      PROVE  OneReplay' /\ OldParkNeverLast'
  <2>1. UNCHANGED <<scenario, active, author, deleted>>
    BY <1>b DEF StopTo, CancelOld, RequestOnly
  <2>2. CASE CancelOld(q, from, wait)
    <3>1. /\ caller' = [caller EXCEPT ![q] = [pc |-> wait, old |-> active]]
          /\ \A s \in Tasks : task'[s].pc = task[s].pc
      BY <2>2, CancelLocal DEF Serial
    <3>2. \A p \in Callers : caller'[p] = caller[p] \/ ~Starting(p)'
      BY <1>0, <3>1 DEF Starting
    <3> QED BY <1>a, <2>1, <3>1, <3>2
  <2>3. CASE ~CancelOld(q, from, wait)
    <3>1. caller' = [caller EXCEPT ![q] = [NoCall EXCEPT !.pc = to]] /\ UNCHANGED task
      BY <1>b, <2>3 DEF StopTo, Calls
    <3>2. [NoCall EXCEPT !.pc = to].pc = to BY DEF NoCall
    <3>3. \A p \in Callers : caller'[p] = caller[p] \/ ~Starting(p)'
      BY <1>0, <3>1, <3>2 DEF Starting
    <3> QED BY <1>a, <2>1, <3>1, <3>3
  <2> QED BY <2>2, <2>3
<1>1. ASSUME NEW q \in Callers, Stop(q) PROVE OneReplay' /\ OldParkNeverLast'
  BY <1>1, <1>b DEF Stop
<1>2. ASSUME NEW q \in Callers, Delete(q) PROVE OneReplay' /\ OldParkNeverLast'
  <2>1. CASE StopTo(q, "delete", "deleteWait", "drop") BY <2>1, <1>b
  <2>2. CASE ~StopTo(q, "delete", "deleteWait", "drop")
    <3>1. /\ UNCHANGED <<scenario, task, active, author>> /\ deleted'
          /\ caller' = [caller EXCEPT ![q] = NoCall]
      BY <1>2, <2>2 DEF Delete, Calls
    <3>2. \A p \in Callers : caller'[p] = caller[p] \/ ~Starting(p)'
      BY <1>0, <3>1 DEF Starting, NoCall
    <3> QED BY <1>a, <3>1, <3>2
  <2> QED BY <2>1, <2>2
<1>3. CASE ReaperStep \/ Expire
  BY <1>3, <1>a DEF ReaperStep, Sweep, Probe, ReapUnmark, ReapLoad, ReapCommit, Expire
<1>4. CASE Restart
  <2>1. UNCHANGED scenario BY <1>4 DEF Restart
  <2>2. \A t \in Tasks : Over(t)' BY <1>4 DEF Restart, Over, NoTask
  <2>3. \A p \in Callers : ~Starting(p)' BY <1>4 DEF Restart, Starting, NoCall
  <2> QED BY <2>1, <2>2, <2>3 DEF OneReplay, OldParkNeverLast, Over, Starting
<1>5. CASE UNCHANGED replayVars BY <1>5, <1>a DEF replayVars
<1> QED BY <1>1, <1>2, <1>3, <1>4, <1>5

LEMMA SerialInit == ReplayInit => Serial
<1> SUFFICES ASSUME ReplayInit PROVE Serial OBVIOUS
<1>1. \A t \in Tasks : task[t].pc = "none" BY DEF ReplayInit, NoTask
<1>2. \A q \in Callers : caller[q].pc = "idle" BY DEF ReplayInit, NoCall
<1> QED BY <1>1, <1>2, TypesInit DEF Serial, OneReplay, OldParkNeverLast, Over, Starting

\* start_replay: when starts do not overlap, between two of its writes the row
\* and the key are as the running replay or the reaper wrote them. A start
\* spawns only when every earlier task is over, parks included.
THEOREM NoLateParks == ReplaySpec => []OldParkNeverLast
<1>1. Serial /\ [ReplayNext]_replayVars => Serial'
  <2> SUFFICES ASSUME Serial, [ReplayNext]_replayVars PROVE Serial' OBVIOUS
  <2>1. ReplayTypeOK' BY TypesNext DEF Serial
  <2>2. OneReplay' /\ OldParkNeverLast'
    BY SerialTask, SerialStart, SerialRest DEF ReplayNext
  <2> QED BY <2>1, <2>2 DEF Serial
<1>2. Serial => OldParkNeverLast BY DEF Serial
<1> QED BY SerialInit, <1>1, <1>2, PTL DEF ReplaySpec
-----------------------------------------------------------------------------
(* Who takes back what a replay wrote *)

Unmarks(t) == task[t].pc \in Walking \cup {"unmark"}

Clears(t) ==
  \/ task[t].pc \in Walking \cup {"unmark", "parkLoad"}
  \/ task[t].pc = "parkCommit" /\ task[t].loaded.onroad

\* Without a disturbance a task that will remove the key stands behind the key,
\* and one that will write the row off the road behind a row on the road. A
\* park that has loaded the row off the road writes no such column.
Owed ==
  ~disturbed =>
    /\ presence => \E t \in Tasks : Unmarks(t)
    /\ status.onroad /\ ~deleted => \E t \in Tasks : Clears(t)

LEMMA OwedTask ==
  ASSUME ReplayTypeOK, Owed, NEW t \in Tasks, TaskStep(t) \/ WriteFails(t)
  PROVE  Owed'
<1> SUFFICES ASSUME ~disturbed'
             PROVE  /\ presence' => \E s \in Tasks : Unmarks(s)'
                    /\ status'.onroad /\ ~deleted' => \E s \in Tasks : Clears(s)'
  BY DEF Owed
<1>0. task \in [Tasks -> TaskState] BY DEF ReplayTypeOK, TaskState, TaskPc
<1>l. /\ \A s \in Tasks : s # t => task'[s] = task[s]
      /\ UNCHANGED deleted
      /\ ~disturbed
  BY TaskLocal
<1>s. \A s \in Tasks : s # t => (Unmarks(s)' <=> Unmarks(s)) /\ (Clears(s)' <=> Clears(s))
  BY <1>l DEF Unmarks, Clears
<1>b. ASSUME NEW pc \in TaskPc, Goto(t, pc) PROVE task'[t].pc = pc
  BY <1>b, GotoEffect
<1>w. ASSUME task'[t].pc \in Walking \cup {"unmark"}
      PROVE  /\ presence' => \E s \in Tasks : Unmarks(s)'
             /\ status'.onroad /\ ~deleted' => \E s \in Tasks : Clears(s)'
  BY <1>w DEF Unmarks, Clears
\* A step of a task that stands behind nothing.
<1>k. ASSUME presence' => presence /\ ~Unmarks(t),
             status'.onroad /\ ~deleted' => status.onroad /\ ~Clears(t)
      PROVE  /\ presence' => \E s \in Tasks : Unmarks(s)'
             /\ status'.onroad /\ ~deleted' => \E s \in Tasks : Clears(s)'
  BY <1>k, <1>l, <1>s DEF Owed
<1>1. CASE Walk(t)
  <2>1. CASE task[t].point < Points
    <3>1. [task[t] EXCEPT !.pc = "load", !.point = task[t].point + 1].pc = "load"
      BY <1>0 DEF TaskState
    <3> QED BY <1>1, <1>0, <1>w, <2>1, <3>1 DEF Walk, Walking
  <2>2. CASE ~(task[t].point < Points)
    BY <1>1, <2>2, <1>b, <1>w DEF Walk, TaskPc, Parking
  <2> QED BY <2>1, <2>2
<1>2. CASE Load(t)
  <2>1. CASE task[t].pc = "load"
    <3>1. task'[t].pc \in {"asleep", "commit"} BY <1>2, <2>1, <1>0 DEF Load
    <3> QED BY <3>1, <1>w DEF Walking
  <2>2. CASE task[t].pc = "parkLoad"
    <3>1. UNCHANGED <<presence, status>> BY <1>2 DEF Load, TaskOnly
    <3>2. ~Unmarks(t) BY <2>2 DEF Unmarks, Walking
    <3>3. presence' => \E s \in Tasks : Unmarks(s)' BY <3>1, <3>2, <1>l, <1>s DEF Owed
    <3>4. ASSUME ~deleted, status.onroad PROVE Clears(t)'
      <4>1. task' = [task EXCEPT ![t] = [@ EXCEPT !.loaded = status, !.pc = "parkCommit"]]
        BY <1>2, <2>2, <3>4 DEF Load
      <4>2. [task[t] EXCEPT !.loaded = status, !.pc = "parkCommit"].loaded = status
        BY <1>0 DEF TaskState
      <4>3. [task[t] EXCEPT !.loaded = status, !.pc = "parkCommit"].pc = "parkCommit"
        BY <1>0 DEF TaskState
      <4> QED BY <1>0, <3>4, <4>1, <4>2, <4>3 DEF Clears
    <3> QED BY <3>1, <3>3, <3>4, <1>l
  <2> QED BY <1>2, <2>1, <2>2 DEF Load, At
<1>3. CASE Commit(t)
  <2>1. CASE task[t].pc = "commit"
    <3>1. task'[t].pc \in {"mark", "unmark"}
      BY <1>3, <2>1, <1>b DEF Commit, TaskPc, Walking, Parking
    <3> QED BY <3>1, <1>w DEF Walking
  <2>2. CASE task[t].pc = "parkCommit"
    <3>1. UNCHANGED presence /\ ~Unmarks(t) BY <1>3, <2>2 DEF Commit, Unmarks, Walking
    <3>2. ASSUME status'.onroad, ~deleted' PROVE status.onroad /\ ~Clears(t)
      <4>1. status' = Flush(task[t].loaded, Standing)
        BY <1>3, <2>2, <3>2, <1>l DEF Commit
      <4>2. status'.onroad = IF FALSE = task[t].loaded.onroad THEN status.onroad ELSE FALSE
        BY <4>1 DEF Flush, Standing
      <4>3. task[t].loaded.onroad \in BOOLEAN BY <1>0 DEF TaskState, Status
      <4> QED BY <2>2, <3>2, <4>2, <4>3 DEF Clears, Walking
    <3> QED BY <1>k, <3>1, <3>2
  <2> QED BY <1>3, <2>1, <2>2 DEF Commit, At
<1>4. CASE Mark(t)
  <2>1. CASE task[t].pc = "mark"
    BY <1>4, <2>1, <1>b, <1>w DEF Mark, TaskPc, Walking
  <2>2. CASE task[t].pc = "unmark"
    <3>1. task'[t].pc = "parkLoad" BY <1>4, <2>2, <1>b DEF Mark, TaskPc, Parking
    <3>2. ~presence' /\ Clears(t)' BY <1>4, <2>2, <3>1 DEF Mark, Clears
    <3> QED BY <3>2
  <2>3. CASE task[t].pc = "parkUnmark"
    <3>1. ~presence' /\ UNCHANGED status /\ ~Clears(t)
      BY <1>4, <2>3 DEF Mark, Clears, Walking
    <3> QED BY <1>k, <3>1
  <2> QED BY <1>4, <2>1, <2>2, <2>3 DEF Mark, At
<1>5. CASE Pop(t)
  BY <1>5, <1>k DEF Pop, At, Unmarks, Clears, Walking
<1>6. CASE Interrupt(t)
  <2>1. task'[t].pc = Interrupted(task[t].pc)
    BY <1>6, <1>b DEF Interrupt, Interrupted, TaskPc, Parking
  <2>2. CASE task[t].pc \in Walking BY <2>1, <2>2, <1>w DEF Interrupted
  <2>3. CASE task[t].pc \notin Walking
    <3>1. UNCHANGED <<presence, status>> /\ task[t].pc \notin Parking
      BY <1>6 DEF Interrupt
    <3> QED BY <2>3, <3>1, <1>k DEF Unmarks, Clears, Parking
  <2> QED BY <2>2, <2>3
<1>7. CASE WriteFails(t)
  <2>1. task[t].pc \in Walking BY <1>7 DEF WriteFails
  <2>2. task'[t].pc = "unmark" BY <1>7, <2>1, <1>b DEF WriteFails, AfterFailure, TaskPc, Parking
  <2> QED BY <2>2, <1>w
<1> QED BY <1>1, <1>2, <1>3, <1>4, <1>5, <1>6, <1>7 DEF TaskStep

\* Nobody else takes a task away from what it owes, or writes a row on the road.
LEMMA OwedRest ==
  ASSUME ReplayTypeOK, Owed,
         \/ \E q \in Callers : Enter(q) \/ Start(q) \/ Stop(q) \/ Delete(q)
         \/ ReaperStep \/ Expire \/ Restart \/ UNCHANGED replayVars
  PROVE  Owed'
<1>a. ASSUME presence' => presence,
             status'.onroad /\ ~deleted' => status.onroad /\ ~deleted,
             ~disturbed' => ~disturbed,
             \A t \in Tasks : task[t].pc \in Walking \cup Parking =>
                 task'[t].pc = task[t].pc /\ task'[t].loaded = task[t].loaded
      PROVE  Owed'
  <2>1. \A t \in Tasks : (Unmarks(t) => Unmarks(t)') /\ (Clears(t) => Clears(t)')
    BY <1>a DEF Unmarks, Clears, Parking
  <2> QED BY <1>a, <2>1 DEF Owed
<1>b. ASSUME NEW q \in Callers, NEW from, NEW wait, CancelOld(q, from, wait) PROVE Owed'
  BY <1>b, <1>a, CancelLocal DEF CancelOld, RequestOnly
<1>c. ASSUME NEW q \in Callers, NEW from, Spawn(q, from) PROVE Owed'
  <2>1. PICK t \in Tasks :
           /\ active' = t /\ task[t].pc = "none" /\ task'[t].pc = "new"
           /\ \A s \in Tasks : s # t => task'[s] = task[s]
           /\ caller[q].pc = from /\ caller' = [caller EXCEPT ![q] = NoCall]
           /\ RequestOnly
    BY <1>c, SpawnLocal
  <2> QED BY <2>1, <1>a DEF RequestOnly, Walking, Parking
<1>d. ASSUME NEW q \in Callers, NEW from, NEW wait, NEW to, StopTo(q, from, wait, to)
      PROVE  Owed'
  <2>1. CASE CancelOld(q, from, wait) BY <2>1, <1>b
  <2>2. CASE ~CancelOld(q, from, wait) BY <1>d, <2>2, <1>a DEF StopTo, RequestOnly
  <2> QED BY <2>1, <2>2
<1>1. ASSUME NEW q \in Callers, Enter(q) PROVE Owed' BY <1>1, <1>a DEF Enter, RequestOnly
<1>2. ASSUME NEW q \in Callers, Start(q) PROVE Owed' BY <1>2, <1>b, <1>c DEF Start
<1>3. ASSUME NEW q \in Callers, Stop(q) PROVE Owed' BY <1>3, <1>d DEF Stop
<1>4. ASSUME NEW q \in Callers, Delete(q) PROVE Owed' BY <1>4, <1>d, <1>a DEF Delete
<1>5. CASE ReaperStep
  <2>1. CASE Sweep \/ Probe \/ ReapUnmark \/ ReapLoad
    BY <2>1, <1>a DEF Sweep, Probe, ReapUnmark, ReapLoad
  <2>2. CASE ReapCommit
    <3>1. ASSUME status'.onroad, ~deleted PROVE status.onroad
      <4>1. status' = Flush(reaper.loaded, Off) BY <2>2, <3>1 DEF ReapCommit
      <4>2. status'.onroad = IF FALSE = reaper.loaded.onroad THEN status.onroad ELSE FALSE
        BY <4>1 DEF Flush, Off
      <4> QED BY <3>1, <4>2
    <3> QED BY <2>2, <3>1, <1>a DEF ReapCommit
  <2> QED BY <1>5, <2>1, <2>2 DEF ReaperStep
<1>6. CASE Expire BY <1>6, <1>a DEF Expire
\* A restart that kills no replay finds nothing owed.
<1>7. CASE Restart
  <2>1. ASSUME ~disturbed' PROVE ~presence /\ (deleted \/ ~status.onroad)
    BY <1>7, <2>1 DEF Restart, Owed, Unmarks, Clears, Parking
  <2> QED BY <1>7, <2>1 DEF Restart, Owed
<1>8. CASE UNCHANGED replayVars BY <1>8, <1>a DEF replayVars
<1> QED BY <1>1, <1>2, <1>3, <1>4, <1>5, <1>6, <1>7, <1>8

\* run_replay ("Park: clear onroad ... so the sim returns to idle even on
\* cancel/error"): when no task is left the row is off the road and the key gone,
\* for any number of overlapping replays, cancelled or failed walks, stops and
\* sweeps, unless a park itself was cancelled or could not write, or a restart
\* killed a replay that was walking or parking.
THEOREM ParkedWhenOver == ReplaySpec => []QuietIsParked
<1>1. ReplayInit => Owed BY DEF ReplayInit, Owed, Off
<1>2. ReplayTypeOK /\ Owed /\ [ReplayNext]_replayVars => Owed'
  BY OwedTask, OwedRest DEF ReplayNext
<1>3. Owed => QuietIsParked
  <2>1. \A t \in Tasks : Over(t) => ~Unmarks(t) /\ ~Clears(t)
    BY DEF Over, Unmarks, Clears, Walking
  <2> QED BY <2>1 DEF Owed, QuietIsParked, NoReplay
<1> QED BY <1>1, <1>2, <1>3, ReplayTypes, PTL DEF ReplaySpec
=============================================================================
