------------------------------- MODULE Settings -------------------------------
(***************************************************************************)
(* Remote settings, followed for one key of one device: the change request *)
(* and its gates, the frames on the device's socket, the flush of pending  *)
(* changes on every connect, the agent that applies them, the results that *)
(* update the stack's copy of the value, and backups restored onto the     *)
(* device.                                                                 *)
(*                                                                         *)
(* The device's own value (Params) and the stack's copy (device_settings)  *)
(* are different things: the driver changes the first without a word to    *)
(* the second. A request's reads and its commit are one step; its send     *)
(* comes later. The handler of a lost socket may still record what it has  *)
(* received while the next socket streams.                                 *)
(***************************************************************************)
EXTENDS Naturals, Sequences

CONSTANTS
  NonOff,      \* the values of the key that are not off
  Scenarios,   \* a definition of the key, a kind of device, and the bounds
  MaxChanges,  \* bound: change requests
  MaxDrops     \* bound: lost connections

ASSUME SettingsAssumption ==
  /\ "off" \notin NonOff /\ "unset" \notin NonOff /\ "none" \notin NonOff
  /\ MaxChanges \in Nat /\ MaxDrops \in Nat
  /\ Scenarios \subseteq
       [defn : [remote : BOOLEAN, arm : BOOLEAN],
        backend : {"real", "simulated"},
        changes : 0 .. MaxChanges, edits : BOOLEAN, backups : BOOLEAN, drops : 0 .. MaxDrops]

VARIABLES
  scenario,       \* fixed: see Scenarios
  onroad, value,  \* the device: the car, and the value it runs with
  mirror,         \* device_settings.value; "unset" without a row
  change,         \* setting_changes, by id
  backup,         \* the owner's backup: "none", or what it says of the key
  restore,        \* the restore_settings command
  sending,        \* requests that have committed and not yet sent
  link, flush,    \* the socket, and how far its handler is
  down, up,       \* frames on the socket
  late,           \* frames the handler of a lost socket has yet to record
  held,           \* the values the device has had
  strayed,        \* the device moved, or an answer was lost, without a record
  drops

device == <<onroad, value>>
stack == <<mirror, change, backup>>
socket == <<link, flush, down, up, late>>
vars == <<scenario, device, stack, restore, sending, socket, held, strayed, drops>>

Value == {"off"} \cup NonOff
Copy == Value \cup {"unset"}
Id == 1 .. MaxChanges

defn == scenario.defn
backend == scenario.backend

\* is_off_value
IsOff(v) == v \notin NonOff

NoChange == [st |-> "none", new |-> "off"]
NoRestore == [st |-> "none", val |-> "unset"]
NoFlush == [pc |-> "none", todo |-> {}]

SetFrame(c) == [type |-> "set", id |-> c, val |-> change[c].new]
RestoreFrame == [type |-> "restore", id |-> 0, val |-> restore.val]
ResultFrame(f, ok) == [type |-> "result", id |-> f.id, val |-> f.val, ok |-> ok]
RestoredFrame(ok) == [type |-> "restored", id |-> 0, val |-> "unset", ok |-> ok]

\* settings_sync_payload: the real device reports no values at all.
SyncFrame(v) ==
  [type |-> "sync", id |-> 0, val |-> IF backend = "real" THEN "unset" ELSE v, ok |-> TRUE]

Down == [type : {"set", "restore"}, id : 0 .. MaxChanges, val : Copy]
Up == [type : {"result", "restored", "sync"}, id : 0 .. MaxChanges, val : Copy, ok : BOOLEAN]

TypeOK ==
  /\ scenario \in Scenarios
  /\ onroad \in BOOLEAN /\ value \in Value
  /\ mirror \in Copy /\ backup \in Copy \cup {"none"}
  /\ change \in [Id -> [st : {"none", "pending", "applied", "failed"}, new : Value]]
  /\ restore \in [st : {"none", "queued", "sent", "done", "failed"}, val : Copy]
  /\ sending \subseteq 0 .. MaxChanges
  /\ link \in {"down", "up"}
  /\ flush \in [pc : {"none", "commands", "commit", "changes", "send", "stream"},
                todo : SUBSET Id]
  /\ down \in Seq(Down) /\ up \in Seq(Up) /\ late \in Seq(Up)
  /\ held \subseteq Value /\ strayed \in BOOLEAN /\ drops \in 0 .. MaxDrops

Init ==
  /\ scenario \in Scenarios
  /\ onroad = FALSE /\ value = "off"
  /\ mirror = "unset" /\ backup = "none"
  /\ change = [c \in Id |-> NoChange] /\ restore = NoRestore /\ sending = {}
  /\ link = "down" /\ flush = NoFlush
  /\ down = <<>> /\ up = <<>> /\ late = <<>>
  /\ held = {"off"} /\ strayed = FALSE /\ drops = 0
-----------------------------------------------------------------------------
(* The driver *)

DriveOff ==
  /\ onroad' = ~onroad
  /\ UNCHANGED <<scenario, value, stack, restore, sending, socket, held, strayed, drops>>

\* A setting is changed on the device itself; nothing tells the stack.
LocalEdit(v) ==
  /\ scenario.edits /\ v # value
  /\ value' = v /\ held' = held \cup {v} /\ strayed' = TRUE
  /\ UNCHANGED <<scenario, onroad, stack, restore, sending, socket, drops>>
-----------------------------------------------------------------------------
(* _change, for change_setting and reset_setting *)

\* The value the gate compares with: the last one known here, or the default.
OldValue == IF mirror = "unset" THEN "off" ELSE mirror

\* Mutant: a key without a row is not gated.
GatedRows == defn.arm /\ IsOff(OldValue) /\ mirror # "unset"

\* _to_out tells the page what _change enforces.
Gated == defn.arm /\ IsOff(OldValue)

\* arm_on_device_only: not from off to anything else.
MayArm(v) == Gated => IsOff(v)

\* requires_offroad is checked against device_status.onroad, which can read
\* false at any time (set_offline of a socket that has ended): it stops nothing
\* for sure, and the model lets every request pass it.
Accepted(v) == defn.remote /\ MayArm(v)

Change(c, v) ==
  /\ c <= scenario.changes /\ change[c].st = "none"
  /\ \A d \in 1 .. (c - 1) : change[d].st # "none"
  /\ Accepted(v)
  /\ change' = [change EXCEPT ![c] = [st |-> "pending", new |-> v]]
  /\ sending' = sending \cup {c}
  /\ UNCHANGED <<scenario, device, mirror, backup, restore, socket, held, strayed, drops>>

\* The catalogue's default, off, is always a value reset_setting may ask for.
ResetSetting(c) == Change(c, "off")
ChangeSetting(c) == \E v \in Value : Change(c, v)

\* send_to_device: without a registered socket the frame goes nowhere.
Deliver(f) == down' = IF link = "up" THEN Append(down, f) ELSE down

ChangeSend(c) ==
  /\ c \in sending /\ c # 0
  /\ Deliver(SetFrame(c))
  /\ sending' = sending \ {c}
  /\ UNCHANGED <<scenario, device, stack, restore, link, flush, up, late, held, strayed, drops>>
-----------------------------------------------------------------------------
(* Backups *)

\* create_backup: what device_settings says.
CreateBackup ==
  /\ scenario.backups /\ backup' = mirror
  /\ UNCHANGED <<scenario, device, mirror, change, restore, sending, socket, held,
                 strayed, drops>>

\* create_from_upload: whatever the file says.
ImportBackup(v) ==
  /\ scenario.backups /\ backup' = v
  /\ UNCHANGED <<scenario, device, mirror, change, restore, sending, socket, held,
                 strayed, drops>>

DeleteBackup ==
  /\ backup' = "none"
  /\ UNCHANGED <<scenario, device, mirror, change, restore, sending, socket, held,
                 strayed, drops>>

\* restore_backup: a command with the remotely configurable keys, however they
\* are gated; its offroad check is the one of Accepted. One restore (bound).
RestoreBackup ==
  /\ backup # "none" /\ restore.st = "none"
  /\ restore' = [st |-> "queued", val |-> IF defn.remote THEN backup ELSE "unset"]
  /\ sending' = sending \cup {0}
  /\ UNCHANGED <<scenario, device, stack, socket, held, strayed, drops>>

RestoreSend ==
  /\ 0 \in sending
  /\ Deliver(RestoreFrame)
  /\ sending' = sending \ {0}
  /\ UNCHANGED <<scenario, device, stack, restore, link, flush, up, late, held, strayed, drops>>
-----------------------------------------------------------------------------
(* The socket: realtime_device and _deliver_queued_commands *)

\* The agent connects and reports its settings; the handler registers the
\* socket and begins its flush.
Connect ==
  /\ link = "down" /\ link' = "up"
  /\ flush' = [pc |-> "commands", todo |-> {}]
  /\ up' = <<SyncFrame(value)>>
  /\ UNCHANGED <<scenario, device, stack, restore, sending, down, late, held, strayed, drops>>

FlushStep == UNCHANGED <<scenario, device, stack, sending, link, up, late, held, strayed, drops>>

FlushCommand ==
  /\ flush.pc = "commands"
  /\ IF restore.st = "queued"
     THEN down' = Append(down, RestoreFrame) /\ flush' = [flush EXCEPT !.pc = "commit"]
     ELSE UNCHANGED down /\ flush' = [flush EXCEPT !.pc = "changes"]
  /\ UNCHANGED restore /\ FlushStep

FlushCommit ==
  /\ flush.pc = "commit"
  /\ restore' = [restore EXCEPT !.st = "sent"]
  /\ flush' = [flush EXCEPT !.pc = "changes"]
  /\ UNCHANGED down /\ FlushStep

\* Mutant: changes are delivered by their requests only.
NonePending == {}

Pending == {c \in Id : change[c].st = "pending"}

FlushChanges ==
  /\ flush.pc = "changes"
  /\ flush' = [pc |-> "send", todo |-> Pending]
  /\ UNCHANGED <<down, restore>> /\ FlushStep

\* In the order the database returns them: any. They stay pending.
FlushSend(c) ==
  /\ c \in flush.todo
  /\ down' = Append(down, SetFrame(c))
  /\ flush' = [flush EXCEPT !.todo = @ \ {c}]
  /\ UNCHANGED restore /\ FlushStep

FlushDone ==
  /\ flush.pc = "send" /\ flush.todo = {}
  /\ flush' = [flush EXCEPT !.pc = "stream"]
  /\ UNCHANGED <<down, restore>> /\ FlushStep

\* The connection is lost: the frames to the device are gone; of those to the
\* stack, its handler has received the first few, or reads them from a dead
\* socket once it is through with the flush.
Drop ==
  /\ link = "up" /\ link' = "down"
  /\ drops < scenario.drops /\ drops' = drops + 1
  /\ down' = <<>> /\ up' = <<>> /\ flush' = NoFlush
  /\ \E n \in 0 .. (IF flush.pc \in {"changes", "send", "stream"} THEN Len(up) ELSE 0) :
       late' = late \o SubSeq(up, 1, n)
  /\ strayed' = (strayed \/ up # <<>>)
  /\ UNCHANGED <<scenario, device, stack, restore, sending, held>>
-----------------------------------------------------------------------------
(* The agent: run_session.receiver *)

\* apply_setting: the real device refuses onroad, the simulated one never.
Refuses == backend = "real" /\ onroad

DeviceSet ==
  /\ down # <<>> /\ Head(down).type = "set"
  /\ down' = Tail(down)
  /\ up' = Append(up, ResultFrame(Head(down), ~Refuses))
  /\ value' = IF Refuses THEN value ELSE Head(down).val
  /\ held' = held \cup {value'}
  /\ UNCHANGED <<scenario, onroad, stack, restore, sending, link, flush, late, strayed, drops>>

\* execute restore_settings, and the settings report that follows a success.
DeviceRestore ==
  /\ down # <<>> /\ Head(down).type = "restore"
  /\ down' = Tail(down)
  /\ value' = IF onroad \/ Head(down).val = "unset" THEN value ELSE Head(down).val
  /\ up' = Append(up, RestoredFrame(~onroad)) \o
           (IF onroad THEN <<>> ELSE <<SyncFrame(value')>>)
  /\ held' = held \cup {value'}
  /\ strayed' = (strayed \/ backend = "real")
  /\ UNCHANGED <<scenario, onroad, stack, restore, sending, link, flush, late, drops>>
-----------------------------------------------------------------------------
(* What the stack records *)

\* Mutant: a row once there is not updated.
CopyOnce(f) == IF f.ok /\ mirror = "unset" THEN f.val ELSE mirror

\* Mutant: a refused change is copied all the same.
CopyAnyway(f) == f.val

\* record_setting_result: the row of device_settings follows a success.
CopyOf(f) == IF f.ok THEN f.val ELSE mirror

Verdict(f) == IF f.ok THEN "applied" ELSE "failed"

Record(f) ==
  /\ mirror' = CASE f.type = "result" -> CopyOf(f)
                 [] f.type = "sync" -> IF f.val = "unset" THEN mirror ELSE f.val
                 [] f.type = "restored" -> mirror
  /\ change' = IF f.type = "result" THEN [change EXCEPT ![f.id].st = Verdict(f)] ELSE change
  /\ restore' = IF f.type = "restored"
                THEN [restore EXCEPT !.st = IF f.ok THEN "done" ELSE "failed"] ELSE restore
  /\ UNCHANGED <<scenario, device, backup, sending, link, flush, down, held, strayed, drops>>

Receive ==
  /\ flush.pc = "stream" /\ up # <<>>
  /\ up' = Tail(up) /\ UNCHANGED late
  /\ Record(Head(up))

ReceiveLate ==
  /\ late # <<>>
  /\ late' = Tail(late) /\ UNCHANGED up
  /\ Record(Head(late))
-----------------------------------------------------------------------------
Server ==
  \/ \E c \in Id : ChangeSend(c) \/ FlushSend(c)
  \/ RestoreSend \/ FlushCommand \/ FlushCommit \/ FlushChanges \/ FlushDone
  \/ Receive \/ ReceiveLate

Agent == Connect \/ DeviceSet \/ DeviceRestore

Next ==
  \/ Server \/ Agent \/ Drop \/ DriveOff
  \/ \E v \in Value : LocalEdit(v)
  \/ \E c \in Id : ChangeSetting(c) \/ ResetSetting(c)
  \/ CreateBackup \/ DeleteBackup \/ RestoreBackup
  \/ \E v \in Copy : ImportBackup(v)

Spec == Init /\ [][Next]_vars

\* The handlers and the agent's loops go on as long as their process runs, and
\* the agent reconnects for ever; connections are lost MaxDrops times.
Fairness ==
  /\ WF_vars(Connect) /\ WF_vars(DeviceSet \/ DeviceRestore)
  /\ WF_vars(Receive) /\ WF_vars(ReceiveLate)
  /\ WF_vars(FlushCommand \/ FlushCommit \/ FlushChanges \/ FlushDone
             \/ \E c \in Id : FlushSend(c))
  /\ WF_vars(RestoreSend \/ \E c \in Id : ChangeSend(c))

FairSpec == Spec /\ Fairness
-----------------------------------------------------------------------------
(* Properties *)

\* device_settings ("Current value of a setting on a specific device"): the page
\* never shows a value the device has not had, whatever was refused, lost,
\* redelivered or recorded late.
MirrorWasHeld == mirror # "unset" => mirror \in held

Quiet == Pending = {} /\ sending = {} /\ down = <<>> /\ up = <<>> /\ late = <<>>

\* record_setting_result: when nothing is under way, the page shows what the
\* device runs with, however requests and flushes sent their copies over each
\* other; unless the device moved by itself or an answer was on a lost socket.
MirrorSettles == Quiet /\ ~strayed /\ mirror # "unset" => mirror = value

\* The arm gate of _change against a real device: no change frame, however old,
\* repeated or out of order, moves an arm-on-device-only key from off.
ChangeNeverArms ==
  [][DeviceSet /\ defn.arm /\ backend = "real" /\ IsOff(value) => IsOff(value')]_vars

\* _deliver_queued_commands ("awaiting a result"): every change is answered,
\* whether it met a socket, a flush, both or neither, and whatever was lost.
ChangesAnswered == \A c \in Id : [](change[c].st = "pending" => <>(change[c].st # "pending"))

\* models.SettingDefinition ("may NOT move it from an off state to a non-off one
\* - that arming requires the device itself"): only the driver's edit does.
ArmedOnlyOnDevice ==
  [][(DeviceSet \/ DeviceRestore) /\ defn.arm /\ IsOff(value) => IsOff(value')]_vars
=============================================================================
