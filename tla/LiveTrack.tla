----------------------------- MODULE LiveTrack -----------------------------
(***************************************************************************)
(* Where one device's trail really lives between beats: with persist       *)
(* interval 0 in its device_status row, with a positive interval           *)
(* (write-behind) in a Redis key, next to two clocks in Redis: the         *)
(* last beat and the last commit. Keys expire, set_offline runs            *)
(* mid-drive, and a beat can die between two of its writes.                *)
(*                                                                         *)
(* Beats of one device arrive on one socket and are handled one after the  *)
(* other, in three steps: the load of the row, the two keys, the commit    *)
(* with the event. set_offline of an older socket or of the reaper has     *)
(* three as well (its keys, its load, its commit), and the steps of both   *)
(* interleave. A beat is handled within a tick, the wall clock does not    *)
(* step. A key is its age; age = TTL is "expired".                         *)
(***************************************************************************)
EXTENDS Trail

CONSTANTS
  Gap,          \* _LIVE_TRACK_NEW_DRIVE_GAP_S, in ticks
  PresenceTTL,  \* presence_ttl_seconds, in ticks
  Interval,     \* heartbeat_persist_interval_seconds, in ticks
  MaxFailures   \* bound: beats or offlines that die half-way

ASSUME LiveTrackAssumption ==
  /\ Gap \in Nat /\ PresenceTTL \in Nat \ {0}
  /\ Interval \in Nat /\ MaxFailures \in Nat

VARIABLES
  beatAge,      \* live:last_beat:<id>
  trackAge, keyTrack,   \* live:track:<id>: its age and its content
  persistAge,   \* live:persisted_at:<id>
  row,          \* device_status: onroad and live_track
  rowAge,       \* ticks since the row was last committed by a beat (capped)
  beat,         \* the apply_heartbeat under way
  parking,      \* the set_offline under way
  published, silence, drive,   \* as in DriveTrail
  failures

keys == <<beatAge, trackAge, keyTrack, persistAge>>
seen == <<published, silence, drive>>
vars == <<keys, row, rowAge, beat, parking, seen, failures>>

\* Mutant: a key expires with presence.
PresenceLong == PresenceTTL

\* last_beat_ttl, shared by the two keys that survive a reconnect.
BeatTTL == Gap + PresenceTTL
TrackTTL == Gap + PresenceTTL

\* beat: what the device reported, the row as loaded, what was computed from
\* it, and whether a set_offline has parked the row since the load.
NoBeat == [step |-> "idle", onroad |-> FALSE, at |-> NoFix,
           row |-> [onroad |-> FALSE, track |-> <<>>],
           track |-> <<>>, persist |-> FALSE, parked |-> FALSE]
\* parking: the onroad flag it loaded.
NoPark == [step |-> "idle", onroad |-> FALSE]

Trails == {t \in Seq(Point) : Len(t) < TrailMax + SimplifyAt}

TypeOK ==
  /\ beatAge \in 0 .. BeatTTL /\ trackAge \in 0 .. TrackTTL
  /\ persistAge \in 0 .. PresenceTTL
  /\ keyTrack \in Seq(Point) /\ published \in Seq(Point)
  /\ row \in [onroad : BOOLEAN, track : Seq(Point)]
  /\ rowAge \in 0 .. Interval + 1
  /\ beat \in [step : {"idle", "loaded", "stored"}, onroad : BOOLEAN,
               at : Places \cup {NoFix}, row : [onroad : BOOLEAN, track : Seq(Point)],
               track : Seq(Point), persist : BOOLEAN, parked : BOOLEAN]
  /\ parking \in [step : {"idle", "dropped", "loaded"}, onroad : BOOLEAN]
  /\ silence \in 0 .. Gap + 1 /\ drive \in 0 .. MaxDrives
  /\ failures \in 0 .. MaxFailures

Init ==
  /\ beatAge = BeatTTL /\ trackAge = TrackTTL /\ persistAge = PresenceTTL
  /\ keyTrack = <<>>
  /\ row = [onroad |-> FALSE, track |-> <<>>] /\ rowAge = Interval + 1
  /\ beat = NoBeat /\ parking = NoPark
  /\ published = <<>> /\ silence = Gap + 1 /\ drive = 0
  /\ failures = 0
-----------------------------------------------------------------------------
(* apply_heartbeat *)

\* The device's side: a beat after a long silence opens a new drive.
DriveNow == IF silence > Gap THEN drive + 1 ELSE drive
FixNow(at) == IF at = NoFix THEN NoFix ELSE [at |-> at, drive |-> DriveNow]

Heard ==
  /\ DriveNow <= MaxDrives
  /\ silence' = 0 /\ drive' = DriveNow

\* The server's side: the last-beat key is gone, or older than the gap.
NewDrive == beatAge = BeatTTL \/ beatAge > Gap

Stored == IF Interval = 0 THEN beat.row.track
          ELSE IF trackAge < TrackTTL THEN keyTrack ELSE <<>>
Prior == IF NewDrive THEN <<>> ELSE Stored

\* Mutants: coalescing ignores a changed onroad flag, or commits one tick late.
PersistByClock ==
  Interval = 0 \/ persistAge = PresenceTTL \/ persistAge >= Interval
PersistLate ==
  \/ Interval = 0
  \/ beat.row.onroad # beat.onroad
  \/ persistAge = PresenceTTL \/ persistAge > Interval

\* should_persist
ShouldPersist ==
  \/ Interval = 0
  \/ beat.row.onroad # beat.onroad
  \/ persistAge = PresenceTTL \/ persistAge >= Interval

\* set_live_track: an empty trail deletes the key.
StoreTrack(track) ==
  IF Interval = 0 THEN UNCHANGED <<trackAge, keyTrack>>
  ELSE /\ trackAge' = IF track = <<>> THEN TrackTTL ELSE 0
       /\ keyTrack' = track

BeatLoad(onroad, at) ==
  /\ beat.step = "idle" /\ DriveNow <= MaxDrives
  /\ beat' = [NoBeat EXCEPT !.step = "loaded", !.onroad = onroad, !.at = at, !.row = row]
  /\ UNCHANGED <<keys, row, rowAge, parking, seen, failures>>

BeatKeys ==
  /\ beat.step = "loaded"
  /\ beatAge' = 0
  /\ \E track \in NextTrails(Prior, beat.onroad, FixNow(beat.at)) :
       /\ StoreTrack(track)
       /\ beat' = [beat EXCEPT !.step = "stored", !.track = track,
                              !.persist = ShouldPersist]
  /\ UNCHANGED <<persistAge, row, rowAge, parking, seen, failures>>

\* The flush writes the columns that differ from the row as it was loaded.
CommitRow ==
  /\ row' = [onroad |-> IF beat.onroad = beat.row.onroad THEN row.onroad ELSE beat.onroad,
             track |-> beat.track]
  /\ rowAge' = 0

\* The commit, the clock of the last commit, the event.
BeatEnd ==
  /\ beat.step = "stored" /\ beat' = NoBeat
  /\ Heard
  /\ IF beat.persist
     THEN CommitRow /\ persistAge' = IF Interval > 0 THEN 0 ELSE persistAge
     ELSE UNCHANGED <<row, rowAge, persistAge>>
  /\ published' = beat.track
  /\ UNCHANGED <<beatAge, trackAge, keyTrack, parking, failures>>

\* The handler dies (Redis or database error, API restart) before or after one
\* of its writes: the last-beat clock, the trail key, the commit, its clock.
BeatDies ==
  /\ beat.step # "idle" /\ beat' = NoBeat
  /\ failures < MaxFailures /\ failures' = failures + 1
  /\ Heard
  /\ beatAge' \in {beatAge, 0}
  /\ \/ UNCHANGED <<row, rowAge, persistAge>>
     \/ /\ beat.step = "stored" /\ beat.persist
        /\ CommitRow
        /\ persistAge' \in {persistAge} \cup (IF Interval > 0 THEN {0} ELSE {})
  /\ UNCHANGED <<trackAge, keyTrack, parking, published>>
-----------------------------------------------------------------------------
(* set_offline, and the passing of time *)

\* mark_offline, clear_persisted_at.
Drop ==
  /\ parking.step = "idle" /\ parking' = [NoPark EXCEPT !.step = "dropped"]
  /\ persistAge' = PresenceTTL
  /\ UNCHANGED <<beatAge, trackAge, keyTrack, row, rowAge, beat, seen, failures>>

ParkLoad ==
  /\ parking.step = "dropped"
  /\ parking' = [step |-> "loaded", onroad |-> row.onroad]
  /\ UNCHANGED <<keys, row, rowAge, beat, seen, failures>>

\* The row reads offline and, if it was loaded onroad, parked; its trail stays.
Park ==
  /\ parking.step = "loaded" /\ parking' = NoPark
  /\ IF parking.onroad
     THEN /\ row' = [row EXCEPT !.onroad = FALSE]
          /\ beat' = [beat EXCEPT !.parked = beat.step # "idle"]
     ELSE UNCHANGED <<row, beat>>
  /\ UNCHANGED <<keys, rowAge, seen, failures>>

ParkDies ==
  /\ parking.step # "idle" /\ parking' = NoPark
  /\ failures < MaxFailures /\ failures' = failures + 1
  /\ UNCHANGED <<keys, row, rowAge, beat, seen>>

\* Mutant: a clock runs on past its expiry.
OlderForEver(age, ttl) == age + 1

Older(age, ttl) == IF age < ttl THEN age + 1 ELSE ttl

Tick ==
  /\ beat.step = "idle"
  /\ beatAge' = Older(beatAge, BeatTTL)
  /\ trackAge' = Older(trackAge, TrackTTL)
  /\ persistAge' = Older(persistAge, PresenceTTL)
  /\ rowAge' = Older(rowAge, Interval + 1)
  /\ silence' = Older(silence, Gap + 1)
  /\ UNCHANGED <<keyTrack, row, beat, parking, published, drive, failures>>
-----------------------------------------------------------------------------
Reports == BOOLEAN \X (Places \cup {NoFix})

Next ==
  \/ \E r \in Reports : BeatLoad(r[1], r[2])
  \/ BeatKeys \/ BeatEnd \/ BeatDies
  \/ Drop \/ ParkLoad \/ Park \/ ParkDies \/ Tick

Spec == Init /\ [][Next]_vars
-----------------------------------------------------------------------------
(* Properties *)

\* _next_live_track: whatever the persist mode and whichever write a beat dies
\* after, no stored or published trail reaches TrailMax + SimplifyAt points.
TrailBounded ==
  {published, keyTrack, row.track} \subseteq Trails

\* apply_heartbeat ("Force a persist on correctness boundaries"): after a beat
\* the row carries that beat's onroad flag, though most beats are not committed
\* and a commit writes only what differs from the row as loaded; except when a
\* set_offline parked the row between the load and the end of that beat. A row
\* parked before the beat, or under an earlier one, is therefore repaired.
RowFollowsOnroad ==
  [][BeatEnd => row'.onroad = beat.onroad \/ beat.parked]_vars

\* apply_heartbeat, write-behind: after a beat the last commit of the row by a
\* beat is less than Interval ticks old, whatever died or expired meanwhile.
RowLagBounded ==
  [][BeatEnd => rowAge' < (IF Interval = 0 THEN 1 ELSE Interval)]_vars

\* Until a handler dies half-way, the keys, the row, the write-behind and every
\* set_offline together keep the promise of DriveTrail: each step is one of its
\* steps or leaves what it speaks of alone.
Promise == INSTANCE DriveTrail WITH
             published <- published, silence <- silence, drive <- drive,
             Gap <- Gap, Places <- Places, MinMove <- MinMove,
             TrailMax <- TrailMax, SimplifyAt <- SimplifyAt,
             MaxDrives <- MaxDrives, NoFix <- NoFix
KeepsPromise ==
  Promise!Init /\ [][failures' = 0 => [Promise!Next]_(Promise!dvars)]_vars
=============================================================================
