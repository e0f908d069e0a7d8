------------------------------- MODULE Replay -------------------------------
(***************************************************************************)
(* The replay of a drive through a simulated device: the tasks that walk a *)
(* track and write the device's status, the requests that start and stop   *)
(* them and delete the device, and the reaper that heals what a task which *)
(* could not park left behind.                                             *)
(*                                                                         *)
(* A task is cancelled at the await it stands at, also while it is parking *)
(* the device. The requests of an administrator's pages may overlap. A     *)
(* write of the status row changes only the columns that differ from those *)
(* it loaded.                                                              *)
(***************************************************************************)
EXTENDS Naturals

CONSTANTS
  Points,      \* steps of the track
  Callers,     \* requests in progress
  MaxTasks,    \* bound: replays started
  None,        \* no task
  Scenarios    \* the values of scenario

ASSUME ReplayAssumption ==
  /\ Points \in Nat \ {0} /\ MaxTasks \in Nat /\ None \notin Nat
  /\ Scenarios \subseteq [overlap : BOOLEAN, requests : SUBSET {"start", "stop", "delete"},
                         tasks : Nat, faults : Nat]

VARIABLES
  scenario,   \* fixed: whether requests that start a replay may overlap, and the
              \* bounds: which requests come, how many replays start, how many
              \* writes fail or restarts of the API happen
  task,       \* where each replay is, its cancellation, and the row it loaded
  active,     \* replay_service._active[device]
  caller,     \* the requests
  status,        \* device_status
  deleted,    \* the device is gone
  presence,   \* presence:device:<id>
  reaper,     \* reap_expired_presence
  author,     \* the task that wrote the row or the key last, 0 for the reaper
  disturbed,  \* a park was cancelled or could not write, or a restart killed a replay
  faults

replayVars == <<scenario, task, active, caller, status, deleted, presence, reaper,
          author, disturbed, faults>>

Tasks == 1 .. MaxTasks    \* in the order they are started
Status == [online : BOOLEAN, onroad : BOOLEAN]
Off == [online |-> FALSE, onroad |-> FALSE]
Driving == [online |-> TRUE, onroad |-> TRUE]
Standing == [online |-> TRUE, onroad |-> FALSE]

Walking == {"load", "commit", "mark", "asleep"}
Parking == {"unmark", "parkLoad", "parkCommit", "parkUnmark", "pop"}

NoTask == [pc |-> "none", point |-> 0, cancelled |-> FALSE, loaded |-> Off]
NoCall == [pc |-> "idle", old |-> None]
Asleep == [pc |-> "idle", loaded |-> Off]

ReplayTypeOK ==
  /\ scenario \in Scenarios
  /\ task \in [Tasks -> [pc : {"none", "new", "over"} \cup Walking \cup Parking,
                         point : 0 .. Points, cancelled : BOOLEAN, loaded : Status]]
  /\ active \in Tasks \cup {None}
  /\ caller \in [Callers ->
       [pc : {"idle", "start", "startWait", "stop", "stopWait", "delete", "deleteWait", "drop"},
        old : Tasks \cup {None}]]
  /\ status \in Status /\ deleted \in BOOLEAN /\ presence \in BOOLEAN
  /\ reaper \in [pc : {"idle", "probe", "unmark", "load", "commit"}, loaded : Status]
  /\ author \in 0 .. MaxTasks
  /\ disturbed \in BOOLEAN /\ faults \in Nat

ReplayInit ==
  /\ scenario \in Scenarios
  /\ task = [t \in Tasks |-> NoTask] /\ active = None
  /\ caller = [q \in Callers |-> NoCall]
  /\ status = Off /\ deleted = FALSE /\ presence = FALSE
  /\ reaper = Asleep /\ author = 0
  /\ disturbed = FALSE /\ faults = 0

Over(t) == task[t].pc \in {"none", "over"}

\* is_replaying
IsReplaying == active # None /\ ~Over(active)

\* What a commit writes: the columns that differ from the loaded ones.
Flush(loaded, new) ==
  [online |-> IF new.online = loaded.online THEN status.online ELSE new.online,
   onroad |-> IF new.onroad = loaded.onroad THEN status.onroad ELSE new.onroad]
-----------------------------------------------------------------------------
(* run_replay *)

At(t, pc) == task[t].pc = pc /\ ~task[t].cancelled
Goto(t, pc) ==
  task' = [task EXCEPT ![t] =
             [pc |-> pc, point |-> IF pc \in Walking THEN task[t].point ELSE 0,
              cancelled |-> FALSE, loaded |-> Off]]
TaskOnly == UNCHANGED <<scenario, active, caller, status, deleted, presence,
                        reaper, author, disturbed, faults>>

\* The first step of the task, and the next point after the sleep.
Walk(t) ==
  /\ At(t, "new") \/ At(t, "asleep")
  /\ IF task[t].point < Points
     THEN task' = [task EXCEPT ![t] = [@ EXCEPT !.pc = "load", !.point = task[t].point + 1]]
     ELSE Goto(t, "unmark")
  /\ TaskOnly

\* _write_status reads the row; without one it does nothing.
Load(t) ==
  /\ At(t, "load") \/ At(t, "parkLoad")
  /\ LET parks == task[t].pc = "parkLoad" IN
     task' = [task EXCEPT ![t] = [@ EXCEPT !.loaded = status,
                !.pc = IF deleted THEN IF parks THEN "pop" ELSE "asleep"
                       ELSE IF parks THEN "parkCommit" ELSE "commit"]]
  /\ TaskOnly

\* A commit on a row that is gone fails: the walk ends, and a park goes on.
Commit(t) ==
  /\ At(t, "commit") \/ At(t, "parkCommit")
  /\ LET parks == task[t].pc = "parkCommit" IN
     /\ Goto(t, IF deleted THEN IF parks THEN "pop" ELSE "unmark"
                ELSE IF parks THEN "parkUnmark" ELSE "mark")
     /\ IF deleted THEN UNCHANGED <<status, author>>
        ELSE /\ status' = Flush(task[t].loaded, IF parks THEN Standing ELSE Driving)
             /\ author' = t
  /\ UNCHANGED <<scenario, active, caller, deleted, presence, reaper, disturbed, faults>>

\* mark_online while it drives, mark_offline when it parks (before the row, and
\* again after it).
Mark(t) ==
  /\ At(t, "mark") \/ At(t, "unmark") \/ At(t, "parkUnmark")
  /\ Goto(t, CASE task[t].pc = "mark" -> "asleep"
               [] task[t].pc = "unmark" -> "parkLoad"
               [] OTHER -> "pop")
  /\ presence' = (task[t].pc = "mark") /\ author' = t
  /\ UNCHANGED <<scenario, active, caller, status, deleted, reaper, disturbed, faults>>

\* The entry of the device goes, whichever task it names.
Pop(t) ==
  /\ At(t, "pop")
  /\ Goto(t, "over")
  /\ active' = None
  /\ UNCHANGED <<scenario, caller, status, deleted, presence, reaper, author, disturbed, faults>>

\* CancelledError: a walk goes on to park; a park ends where it is (only
\* Exception is caught); a task that never ran has no `finally`.
Interrupted(pc) == IF pc \in Walking THEN "unmark" ELSE "over"

Interrupt(t) ==
  /\ task[t].cancelled
  /\ Goto(t, Interrupted(task[t].pc))
  /\ disturbed' = (disturbed \/ task[t].pc \in Parking)
  /\ UNCHANGED <<scenario, active, caller, status, deleted, presence, reaper, author, faults>>

Fault == faults < scenario.faults /\ faults' = faults + 1

\* Mutant: a failed walk ends where it is.
AfterFailureOver(pc) ==
  IF pc \in Walking THEN "over" ELSE IF pc = "unmark" THEN "parkLoad" ELSE "pop"

\* The exception of a walk leads into the `finally`, those of a park are caught.
AfterFailure(pc) ==
  IF pc \in Walking THEN "unmark" ELSE IF pc = "unmark" THEN "parkLoad" ELSE "pop"

\* Redis or the database refuses a call of the walk or of the park.
WriteFails(t) ==
  /\ Fault /\ task[t].pc \in (Walking \cup Parking) \ {"asleep", "pop"}
  /\ ~task[t].cancelled
  /\ Goto(t, AfterFailure(task[t].pc))
  /\ disturbed' = (disturbed \/ task[t].pc \in Parking)
  /\ UNCHANGED <<scenario, active, caller, status, deleted, presence, reaper, author>>
-----------------------------------------------------------------------------
(* The requests: start_replay, stop_replay, delete_sim_device *)

Calls(q, from, r) == caller[q].pc = from /\ caller' = [caller EXCEPT ![q] = r]
RequestOnly == UNCHANGED <<scenario, status, deleted, presence, reaper, author, disturbed, faults>>

\* _owned_sim: the device is there when the request comes in.
Enter(q) ==
  /\ ~deleted
  /\ \E op \in scenario.requests :
       /\ op = "start" /\ ~scenario.overlap =>
            \A p \in Callers : caller[p].pc \notin {"start", "startWait"}
       /\ Calls(q, "idle", [NoCall EXCEPT !.pc = op])
  /\ UNCHANGED <<task, active>> /\ RequestOnly

\* Mutant: the new task starts past the end of its track.
SpawnedBare(t) == [task EXCEPT ![t].pc = "load", ![t].point = Points + 1]

Spawned(t) == [task EXCEPT ![t].pc = "new"]
FreshTask ==
  {t \in Tasks : /\ t <= scenario.tasks /\ task[t] = NoTask
                /\ \A s \in 1 .. t - 1 : task[s] # NoTask}

\* Cancel the registered task and wait for it; without one, go on.
CancelOld(q, from, wait) ==
  /\ IsReplaying
  /\ Calls(q, from, [pc |-> wait, old |-> active])
  /\ task' = [task EXCEPT ![active].cancelled = TRUE]
  /\ UNCHANGED active /\ RequestOnly

Spawn(q, from) ==
  \E t \in FreshTask :
    /\ Calls(q, from, NoCall)
    /\ task' = Spawned(t) /\ active' = t
    /\ RequestOnly

\* Mutant: the wait is over as soon as the task is told.
AwaitedTold(t) == TRUE

\* The task waited for has ended.
Awaited(t) == Over(t)

Start(q) ==
  \/ CancelOld(q, "start", "startWait")
  \/ ~IsReplaying /\ Spawn(q, "start")
  \/ caller[q].pc = "startWait" /\ Awaited(caller[q].old) /\ Spawn(q, "startWait")

StopTo(q, from, wait, to) ==
  \/ CancelOld(q, from, wait)
  \/ /\ \/ ~IsReplaying /\ Calls(q, from, [NoCall EXCEPT !.pc = to])
        \/ Calls(q, wait, [NoCall EXCEPT !.pc = to]) /\ Awaited(caller[q].old)
     /\ UNCHANGED <<task, active>> /\ RequestOnly

Stop(q) == StopTo(q, "stop", "stopWait", "idle")

Delete(q) ==
  \/ StopTo(q, "delete", "deleteWait", "drop")
  \/ /\ Calls(q, "drop", NoCall)
     /\ deleted' = TRUE /\ status' = Off
     /\ UNCHANGED <<scenario, task, active, presence, reaper, author, disturbed, faults>>
-----------------------------------------------------------------------------
(* The reaper, the key's expiry, a restart *)

Reap(from, to) == reaper.pc = from /\ reaper' = [reaper EXCEPT !.pc = to]

Sweep ==
  /\ status.online /\ ~deleted /\ Reap("idle", "probe")
  /\ UNCHANGED <<scenario, task, active, caller, status, deleted, presence, author, disturbed, faults>>

Probe ==
  /\ Reap("probe", IF presence THEN "idle" ELSE "unmark")
  /\ UNCHANGED <<scenario, task, active, caller, status, deleted, presence, author, disturbed, faults>>

\* set_offline
ReapUnmark ==
  /\ Reap("unmark", "load")
  /\ presence' = FALSE /\ author' = 0
  /\ UNCHANGED <<scenario, task, active, caller, status, deleted, disturbed, faults>>

ReapLoad ==
  /\ reaper.pc = "load"
  /\ reaper' = [pc |-> IF deleted THEN "idle" ELSE "commit", loaded |-> status]
  /\ UNCHANGED <<scenario, task, active, caller, status, deleted, presence, author, disturbed, faults>>

ReapCommit ==
  /\ reaper.pc = "commit" /\ reaper' = Asleep
  /\ IF deleted THEN UNCHANGED <<status, author>>
     ELSE status' = Flush(reaper.loaded, Off) /\ author' = 0
  /\ UNCHANGED <<scenario, task, active, caller, deleted, presence, disturbed, faults>>

\* Mutant: the key has no expiry.
LapsesNever == FALSE

\* A walk refreshes the key far more often than it lapses.
Lapses == presence /\ \A t \in Tasks : task[t].pc \notin Walking

Expire ==
  /\ Lapses /\ presence' = FALSE
  /\ UNCHANGED <<scenario, task, active, caller, status, deleted, reaper, author, disturbed, faults>>

\* The process ends without a park (lifespan's own cancellation is a Stop).
Restart ==
  /\ Fault /\ disturbed' = (disturbed \/ \E t \in Tasks : task[t].pc \in Walking \cup Parking)
  /\ task' = [t \in Tasks |-> IF task[t] = NoTask THEN NoTask ELSE [NoTask EXCEPT !.pc = "over"]]
  /\ active' = None /\ caller' = [q \in Callers |-> NoCall] /\ reaper' = Asleep
  /\ UNCHANGED <<scenario, status, deleted, presence, author>>
-----------------------------------------------------------------------------
TaskStep(t) == Walk(t) \/ Load(t) \/ Commit(t) \/ Mark(t) \/ Pop(t) \/ Interrupt(t)
ReaperStep == Sweep \/ Probe \/ ReapUnmark \/ ReapLoad \/ ReapCommit

ReplayNext ==
  \/ \E t \in Tasks : TaskStep(t) \/ WriteFails(t)
  \/ \E q \in Callers : Enter(q) \/ Start(q) \/ Stop(q) \/ Delete(q)
  \/ ReaperStep \/ Expire \/ Restart

ReplaySpec == ReplayInit /\ [][ReplayNext]_replayVars

\* The event loop runs every task and the reaper; a key nobody refreshes
\* lapses. Requests come when the administrator likes.
ReplayFairSpec ==
  /\ ReplaySpec
  /\ \A t \in Tasks : WF_replayVars(TaskStep(t))
  /\ WF_replayVars(ReaperStep) /\ WF_replayVars(Expire)
-----------------------------------------------------------------------------
(* Properties *)

NoReplay == \A t \in Tasks : Over(t)

\* run_replay ("Park: clear onroad ... so the sim returns to idle even on
\* cancel/error"): when the last replay has ended, the row is off the road and
\* the presence key gone, however walks were cancelled or failed and with
\* overlapping starts, stops and the reaper; unless a park itself was cancelled
\* or could not write, or a restart of the API killed a replay.
QuietIsParked ==
  NoReplay /\ ~disturbed /\ ~deleted => ~status.onroad /\ ~presence

\* start_replay ("otherwise the old task's park could race in after the new
\* task marks the sim online and leave it wedged offline"): between two of its
\* writes, the row and the key are as the running replay or the reaper wrote
\* them, when starts do not overlap.
OldParkNeverLast ==
  ~scenario.overlap =>
    \A t \in Tasks : task[t].pc = "asleep" /\ ~deleted => author \in {0, t}

\* run_replay, reap_expired_presence ("once presence is gone ... the reaper heals
\* the row"): whatever is cancelled, fails or is killed, the row of a device that
\* no replay drives does not read online for ever.
NeverSticks ==
  NoReplay /\ status.online ~> ~NoReplay \/ ~status.online
=============================================================================
