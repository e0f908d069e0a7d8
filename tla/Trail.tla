------------------------------- MODULE Trail -------------------------------
(***************************************************************************)
(* The live-map trail as a pure value: what one heartbeat makes of the     *)
(* accumulated points (_append_live_point, _simplify_escalate). A position *)
(* is a number on a line, a point also carries the drive it was recorded   *)
(* on. Douglas-Peucker at whatever tolerance is any thinning that keeps    *)
(* both ends.                                                              *)
(***************************************************************************)
EXTENDS Integers, Sequences

CONSTANTS
  Places,      \* positions the device can report
  MinMove,     \* _LIVE_TRACK_MIN_MOVE_M
  TrailMax,    \* _LIVE_TRACK_MAX
  SimplifyAt,  \* _LIVE_TRACK_SIMPLIFY_AT
  MaxDrives,   \* bound: drives told apart
  NoFix        \* a beat without a position

ASSUME TrailAssumption ==
  /\ Places \subseteq Int /\ NoFix \notin Int
  /\ MinMove \in Nat \ {0} /\ MaxDrives \in Nat
  /\ TrailMax \in Nat \ {0} /\ SimplifyAt \in Nat \ {0}

Point == [at : Places, drive : 0 .. MaxDrives]

\* _coarse_far
Far(a, b) == a - b >= MinMove \/ b - a >= MinMove

Moved(current, fix) ==
  current # <<>> => Far(current[Len(current)].at, fix.at)

\* An offroad beat ends the line, a beat without a fix or within the jitter
\* gate leaves it, any other extends it.
AppendPoint(current, onroad, fix) ==
  CASE ~onroad -> <<>>
    [] onroad /\ fix # NoFix /\ Moved(current, fix) -> Append(current, fix)
    [] OTHER -> current

\* _simplify: the ends stay, any inner point may go. A thinning of m points is
\* an increasing choice of m indices.
Choices(n, m) ==
  {g \in [1 .. m -> 1 .. n] :
     g[1] = 1 /\ g[m] = n /\ \A i \in 1 .. m - 1 : g[i] < g[i + 1]}

Thinnings(track) ==
  UNION {{[i \in 1 .. m |-> track[g[i]]] : g \in Choices(Len(track), m)} :
           m \in 1 .. Len(track)}

\* The hard cap: the most recent TrailMax points.
Capped(track) ==
  IF Len(track) > TrailMax
  THEN SubSeq(track, Len(track) - TrailMax + 1, Len(track))
  ELSE track

\* Mutant: the trigger is one point late.
SimplifyDueLate(track) == Len(track) > TrailMax + SimplifyAt

SimplifyDue(track) == Len(track) >= TrailMax + SimplifyAt

\* _next_live_track: the possible next trails.
NextTrails(current, onroad, fix) ==
  LET track == AppendPoint(current, onroad, fix) IN
  IF SimplifyDue(track) THEN {Capped(s) : s \in Thinnings(track)} ELSE {track}
=============================================================================
