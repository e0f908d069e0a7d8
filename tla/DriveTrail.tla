----------------------------- MODULE DriveTrail -----------------------------
(***************************************************************************)
(* What the live map promises of one device's trail, with no word of keys, *)
(* rows, commits or connections: it depends on the beats and on the        *)
(* silences between them alone. A silence up to Gap resumes the line, a    *)
(* longer one starts a new drive with an empty line.                       *)
(***************************************************************************)
EXTENDS Trail

CONSTANT Gap    \* _LIVE_TRACK_NEW_DRIVE_GAP_S, in ticks

VARIABLES
  published,  \* the trail of the last device_status event
  silence,    \* ticks since the last beat, Gap + 1 for longer
  drive       \* the number of the current drive

dvars == <<published, silence, drive>>

Init == published = <<>> /\ silence = Gap + 1 /\ drive = 0

DriveNow == IF silence > Gap THEN drive + 1 ELSE drive
FixNow(at) == IF at = NoFix THEN NoFix ELSE [at |-> at, drive |-> DriveNow]

Beat(onroad, at) ==
  /\ DriveNow <= MaxDrives
  /\ published' \in NextTrails(IF silence > Gap THEN <<>> ELSE published,
                               onroad, FixNow(at))
  /\ silence' = 0
  /\ drive' = DriveNow

Tick ==
  /\ silence' = IF silence > Gap THEN silence ELSE silence + 1
  /\ UNCHANGED <<published, drive>>

Next == Tick \/ \E onroad \in BOOLEAN, at \in Places \cup {NoFix} : Beat(onroad, at)

Spec == Init /\ [][Next]_dvars
=============================================================================
