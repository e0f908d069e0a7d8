--------------------------- MODULE SettingsProofs ---------------------------
(***************************************************************************)
(* Theorems about Settings, for any values of the key, any number of       *)
(* changes, backups and lost connections, on either kind of device.        *)
(***************************************************************************)
EXTENDS Settings, SequenceTheorems, TLAPS

\* An arm-on-device-only key on a device that reports no values: the stack
\* then knows of the value only what changes made of it.
Guarded == defn.arm /\ backend = "real"

\* What a frame on its way says that the next step may rely on: a change
\* carries a value the gate let pass, a success one the device has had.
GoodDown == {f \in Down : f.type = "set" => f.val \in Value /\ (Guarded => IsOff(f.val))}
GoodUp ==
  {f \in Up :
     /\ f.type \in {"result", "sync"} /\ f.ok /\ f.val # "unset" => f.val \in held
     /\ f.type = "result" => f.val \in Value /\ (Guarded => IsOff(f.val))
     /\ f.type = "sync" => f.ok /\ (Guarded => f.val = "unset")}

Frames == down \in Seq(GoodDown) /\ up \in Seq(GoodUp) /\ late \in Seq(GoodUp)

\* The gate lets nothing but off pass, so the copy it compares with stays off.
Unarmed == Guarded => (\A c \in Id : IsOff(change[c].new)) /\ mirror \in {"unset", "off"}

Inv == TypeOK /\ Frames /\ Unarmed /\ value \in held /\ MirrorWasHeld

LEMMA FramesTyped == Frames => down \in Seq(Down) /\ up \in Seq(Up) /\ late \in Seq(Up)
<1>1. GoodDown \subseteq Down /\ GoodUp \subseteq Up BY DEF GoodDown, GoodUp
<1> QED BY <1>1, SeqMonotonic DEF Frames

LEMMA FramesTypedNext ==
  Frames' => down' \in Seq(Down) /\ up' \in Seq(Up) /\ late' \in Seq(Up)
<1>1. GoodDown' \subseteq Down /\ GoodUp' \subseteq Up BY DEF GoodDown, GoodUp
<1> QED BY <1>1, SeqMonotonic DEF Frames

\* What has been had stays had.
LEMMA GoodKept ==
  ASSUME UNCHANGED scenario, held \subseteq held'
  PROVE  /\ GoodDown' = GoodDown
         /\ GoodUp \subseteq GoodUp'
BY DEF GoodDown, GoodUp, Guarded, defn, backend, IsOff, Value

LEMMA FramesKept ==
  ASSUME Frames, UNCHANGED <<scenario, down, up, late>>, held \subseteq held'
  PROVE  Frames'
BY GoodKept, SeqMonotonic DEF Frames

LEMMA InitInv == Init => Inv
<1> SUFFICES ASSUME Init PROVE Inv OBVIOUS
<1> USE SettingsAssumption
<1>1. Frames /\ down \in Seq(Down) /\ up \in Seq(Up) /\ late \in Seq(Up)
  <2>1. \A S : <<>> \in Seq(S) BY EmptySeq
  <2> QED BY <2>1 DEF Init, Frames
<1>3. TypeOK
  <2>1. change \in [Id -> [st : {"none", "pending", "applied", "failed"}, new : Value]]
    BY DEF Init, NoChange, Value
  <2>2. /\ restore \in [st : {"none", "queued", "sent", "done", "failed"}, val : Copy]
        /\ flush \in [pc : {"none", "commands", "commit", "changes", "send", "stream"},
                      todo : SUBSET Id]
    BY DEF Init, NoRestore, NoFlush, Copy
  <2>3. drops \in 0 .. MaxDrops /\ value \in Value /\ mirror \in Copy BY DEF Init, Value, Copy
  <2> QED BY <1>1, <2>1, <2>2, <2>3 DEF Init, TypeOK, Value
<1>2. Unarmed /\ value \in held /\ MirrorWasHeld
  BY DEF Init, Unarmed, MirrorWasHeld, NoChange, IsOff
<1> QED BY <1>1, <1>2, <1>3 DEF Inv
-----------------------------------------------------------------------------
(* One lemma per kind of step *)

LEMMA DriverInv ==
  ASSUME Inv, DriveOff \/ \E v \in Value : LocalEdit(v)
  PROVE  Inv'
<1> USE DEF Inv, stack, socket
<1>1. /\ UNCHANGED <<scenario, stack, restore, sending, socket, drops>>
      /\ value' \in held' /\ held \subseteq held'
      /\ onroad' \in BOOLEAN /\ value' \in Value /\ held' \subseteq Value /\ strayed' \in BOOLEAN
  BY DEF DriveOff, LocalEdit, TypeOK
<1>2. Frames' BY <1>1, FramesKept
<1>3. TypeOK' BY <1>1, <1>2, FramesTypedNext DEF TypeOK
<1>4. Unarmed' /\ MirrorWasHeld' BY <1>1 DEF Unarmed, Guarded, defn, backend, MirrorWasHeld
<1> QED BY <1>1, <1>2, <1>3, <1>4

LEMMA ChangeInv ==
  ASSUME Inv, NEW c \in Id, NEW v \in Value, Change(c, v)
  PROVE  Inv'
<1> USE DEF Inv, Change, device, socket
<1>1. Frames' BY FramesKept
<1>2. change' \in [Id -> [st : {"none", "pending", "applied", "failed"}, new : Value]]
  BY DEF TypeOK
<1>3. sending' \subseteq 0 .. MaxChanges BY SettingsAssumption DEF TypeOK, Id
<1>4. TypeOK' BY <1>1, <1>2, <1>3, FramesTypedNext DEF TypeOK
<1>5. Guarded /\ mirror \in {"unset", "off"} => IsOff(v)
  BY SettingsAssumption DEF Accepted, MayArm, Gated, OldValue, Guarded, IsOff
<1>6. Unarmed' BY <1>5 DEF Unarmed, Guarded, defn, backend, TypeOK
<1> QED BY <1>1, <1>4, <1>6 DEF MirrorWasHeld

\* A good frame reaches the device, or goes nowhere.
LEMMA DeliverFrames ==
  ASSUME Frames, NEW f \in GoodDown, Deliver(f) \/ down' = Append(down, f),
         UNCHANGED <<scenario, up, late, held>>
  PROVE  Frames'
<1>1. down \in Seq(GoodDown) BY DEF Frames
<1>2. Append(down, f) \in Seq(GoodDown) BY <1>1, AppendProperties
<1>3. down' \in Seq(GoodDown) BY <1>1, <1>2 DEF Deliver
<1> QED BY <1>3, GoodKept DEF Frames

LEMMA GoodFrames ==
  ASSUME Inv
  PROVE  /\ \A c \in Id : SetFrame(c) \in GoodDown
         /\ RestoreFrame \in GoodDown
<1>1. ASSUME NEW c \in Id PROVE SetFrame(c) \in GoodDown
  BY SettingsAssumption DEF Inv, TypeOK, Unarmed, SetFrame, GoodDown, Down, Id, Copy
<1>2. RestoreFrame \in GoodDown
  BY SettingsAssumption DEF Inv, TypeOK, RestoreFrame, GoodDown, Down
<1> QED BY <1>1, <1>2

LEMMA SendInv ==
  ASSUME Inv, RestoreSend \/ FlushCommand \/ \E c \in Id : ChangeSend(c) \/ FlushSend(c)
  PROVE  Inv'
<1> USE DEF Inv, device, stack, FlushStep
<1>1. UNCHANGED <<scenario, device, stack, restore, link, up, late, held, strayed, drops>>
  BY DEF RestoreSend, FlushCommand, ChangeSend, FlushSend
<1>2. Frames'
  <2>1. CASE \E c \in Id : ChangeSend(c) \/ FlushSend(c)
    BY <2>1, <1>1, GoodFrames, DeliverFrames DEF ChangeSend, FlushSend
  <2>2. CASE RestoreSend \/ (FlushCommand /\ restore.st = "queued")
    BY <2>2, <1>1, GoodFrames, DeliverFrames DEF RestoreSend, FlushCommand
  <2>3. CASE FlushCommand /\ restore.st # "queued"
    BY <2>3, <1>1, FramesKept DEF FlushCommand
  <2> QED BY <2>1, <2>2, <2>3
<1>3. sending' \subseteq 0 .. MaxChanges /\ flush' \in
      [pc : {"none", "commands", "commit", "changes", "send", "stream"}, todo : SUBSET Id]
  BY DEF RestoreSend, FlushCommand, ChangeSend, FlushSend, TypeOK
<1>4. TypeOK' BY <1>1, <1>2, <1>3, FramesTypedNext DEF TypeOK
<1>5. Unarmed' /\ MirrorWasHeld' /\ value' \in held'
  BY <1>1 DEF Unarmed, Guarded, defn, backend, MirrorWasHeld
<1> QED BY <1>2, <1>4, <1>5

\* The handlers' steps that put no frame on its way and record none.
LEMMA QuietInv ==
  ASSUME Inv,
         \/ CreateBackup \/ DeleteBackup \/ RestoreBackup \/ \E v \in Copy : ImportBackup(v)
         \/ FlushCommit \/ FlushChanges \/ FlushDone
  PROVE  Inv'
<1> USE DEF Inv, device, socket, FlushStep
<1>1. UNCHANGED <<scenario, device, mirror, change, link, down, up, late, held, strayed, drops>>
  BY DEF CreateBackup, DeleteBackup, RestoreBackup, ImportBackup, FlushCommit, FlushChanges,
         FlushDone, stack
<1>2. Frames' BY <1>1, FramesKept
<1>3. backup' \in Copy \cup {"none"}
  BY DEF CreateBackup, DeleteBackup, RestoreBackup, ImportBackup, FlushCommit, FlushChanges,
         FlushDone, stack, TypeOK
<1>4. restore' \in [st : {"none", "queued", "sent", "done", "failed"}, val : Copy]
      /\ sending' \subseteq 0 .. MaxChanges
  BY SettingsAssumption
  DEF CreateBackup, DeleteBackup, RestoreBackup, ImportBackup, FlushCommit, FlushChanges,
      FlushDone, stack, TypeOK, Copy
<1>5. flush' \in [pc : {"none", "commands", "commit", "changes", "send", "stream"},
                  todo : SUBSET Id]
  BY DEF CreateBackup, DeleteBackup, RestoreBackup, ImportBackup, FlushCommit, FlushChanges,
         FlushDone, TypeOK, Pending
<1>6. TypeOK' BY <1>1, <1>2, <1>3, <1>4, <1>5, FramesTypedNext DEF TypeOK
<1>7. Unarmed' /\ MirrorWasHeld' /\ value' \in held'
  BY <1>1 DEF Unarmed, Guarded, defn, backend, MirrorWasHeld
<1> QED BY <1>2, <1>6, <1>7

LEMMA ConnectInv ==
  ASSUME Inv, Connect
  PROVE  Inv'
<1> USE DEF Inv, Connect, device, stack
<1>1. SyncFrame(value) \in GoodUp
  BY SettingsAssumption DEF TypeOK, SyncFrame, GoodUp, Up, Copy, Guarded
<1>2. <<SyncFrame(value)>> \in Seq(GoodUp) BY <1>1
<1>3. Frames' BY <1>2, GoodKept DEF Frames
<1>4. TypeOK' BY <1>3, FramesTypedNext DEF TypeOK
<1>5. Unarmed' /\ MirrorWasHeld' BY DEF Unarmed, Guarded, defn, backend, MirrorWasHeld
<1> QED BY <1>3, <1>4, <1>5

LEMMA DropInv ==
  ASSUME Inv, Drop
  PROVE  Inv'
<1> USE DEF Inv, device, stack
<1>1. PICK n \in 0 .. (IF flush.pc \in {"changes", "send", "stream"} THEN Len(up) ELSE 0) :
        late' = late \o SubSeq(up, 1, n)
  BY DEF Drop
<1>2. up \in Seq(GoodUp) /\ late \in Seq(GoodUp) /\ Len(up) \in Nat BY LenProperties DEF Frames
<1>3. \A i \in 1 .. n : up[i] \in GoodUp
  <2> n \in 0 .. Len(up) BY <1>2
  <2> QED BY <1>2, ElementOfSeq
<1>4. SubSeq(up, 1, n) \in Seq(GoodUp) BY <1>2, <1>3, SubSeqProperties
<1>5. late' \in Seq(GoodUp) BY <1>1, <1>2, <1>4, ConcatProperties
<1>6. Frames'
  <2>1. <<>> \in Seq(GoodDown) /\ <<>> \in Seq(GoodUp) BY EmptySeq
  <2>2. GoodDown' = GoodDown /\ GoodUp \subseteq GoodUp' BY GoodKept DEF Drop
  <2> QED BY <1>5, <2>1, <2>2, SeqMonotonic DEF Frames, Drop
<1>7. TypeOK' BY <1>6, FramesTypedNext, SettingsAssumption DEF TypeOK, Drop, NoFlush
<1>8. Unarmed' /\ MirrorWasHeld' BY DEF Unarmed, Guarded, defn, backend, MirrorWasHeld, Drop
<1> QED BY <1>6, <1>7, <1>8 DEF Drop

LEMMA DeviceSetInv ==
  ASSUME Inv, DeviceSet
  PROVE  Inv' /\ (Guarded /\ IsOff(value) => IsOff(value'))
<1> USE DEF Inv, DeviceSet, stack
<1> DEFINE f == Head(down)
<1>1. f \in GoodDown /\ Tail(down) \in Seq(GoodDown) BY HeadTailProperties DEF Frames
<1>2. f.val \in Value /\ f.id \in 0 .. MaxChanges /\ (Guarded => IsOff(f.val))
  BY <1>1 DEF GoodDown, Down
<1>3. value' \in Value /\ value' \in held' /\ held \subseteq held' /\ held' \subseteq Value
  BY <1>2 DEF TypeOK
<1>4. ResultFrame(f, ~Refuses) \in GoodUp'
  <2>1. UNCHANGED scenario /\ (~Refuses => f.val \in held') OBVIOUS
  <2>2. (~Refuses) \in BOOLEAN OBVIOUS
  <2> QED BY <1>2, <2>1, <2>2, SettingsAssumption
          DEF ResultFrame, GoodUp, Up, Copy, Guarded, defn, backend
<1>5. up \in Seq(GoodUp') BY <1>3, GoodKept, SeqMonotonic DEF Frames
<1>6. late' \in Seq(GoodUp') BY <1>3, GoodKept, SeqMonotonic DEF Frames
<1>7. up' \in Seq(GoodUp') BY <1>4, <1>5, AppendProperties
<1>8. Frames' BY <1>1, <1>3, <1>6, <1>7, GoodKept DEF Frames
<1>9. TypeOK' BY <1>3, <1>8, FramesTypedNext DEF TypeOK
<1>10. Unarmed' /\ MirrorWasHeld' BY <1>3 DEF Unarmed, Guarded, defn, backend, MirrorWasHeld
<1>11. Guarded /\ IsOff(value) => IsOff(value') BY <1>2
<1> QED BY <1>3, <1>8, <1>9, <1>10, <1>11

LEMMA DeviceRestoreInv ==
  ASSUME Inv, DeviceRestore
  PROVE  Inv'
<1> USE DEF Inv, DeviceRestore, stack
<1> DEFINE f == Head(down)
<1>1. f \in GoodDown /\ Tail(down) \in Seq(GoodDown) BY HeadTailProperties DEF Frames
<1>2. f.val \in Value \cup {"unset"} BY <1>1 DEF GoodDown, Down, Copy
<1>3. value' \in Value /\ value' \in held' /\ held \subseteq held' /\ held' \subseteq Value
  BY <1>2 DEF TypeOK
<1>4. RestoredFrame(~onroad) \in GoodUp' /\ SyncFrame(value') \in GoodUp'
  <2>1. RestoredFrame(~onroad) \in GoodUp'
    BY SettingsAssumption DEF RestoredFrame, GoodUp, Up, Copy, TypeOK
  <2>2. SyncFrame(value') \in GoodUp'
    BY <1>3, SettingsAssumption DEF SyncFrame, GoodUp, Up, Copy, Guarded, backend, defn
  <2> QED BY <2>1, <2>2
<1>5. up \in Seq(GoodUp') BY <1>3, GoodKept, SeqMonotonic DEF Frames
<1>6. late' \in Seq(GoodUp') BY <1>3, GoodKept, SeqMonotonic DEF Frames
<1>7. up' \in Seq(GoodUp')
  <2>1. Append(up, RestoredFrame(~onroad)) \in Seq(GoodUp') BY <1>4, <1>5, AppendProperties
  <2>2. <<>> \in Seq(GoodUp') /\ <<SyncFrame(value')>> \in Seq(GoodUp') BY <1>4, EmptySeq
  <2> QED BY <2>1, <2>2, ConcatProperties
<1>8. Frames' BY <1>1, <1>3, <1>6, <1>7, GoodKept DEF Frames
<1>9. strayed' \in BOOLEAN BY DEF TypeOK
<1>10. TypeOK' BY <1>3, <1>8, <1>9, FramesTypedNext DEF TypeOK
<1>11. Unarmed' /\ MirrorWasHeld' BY <1>3 DEF Unarmed, Guarded, defn, backend, MirrorWasHeld
<1> QED BY <1>3, <1>8, <1>10, <1>11

LEMMA RecordInv ==
  ASSUME Inv, NEW f \in GoodUp, Record(f), up' \in Seq(GoodUp), late' \in Seq(GoodUp)
  PROVE  Inv'
<1> USE DEF Inv, Record, device
<1>1. f.type \in {"result", "restored", "sync"} /\ f.val \in Copy /\ f.ok \in BOOLEAN
  BY DEF GoodUp, Up
<1>2. mirror' \in Copy BY <1>1 DEF CopyOf, TypeOK
<1>3. change' \in [Id -> [st : {"none", "pending", "applied", "failed"}, new : Value]]
      /\ \A c \in Id : change'[c].new = change[c].new
  <2> DEFINE v == Verdict(f)
  <2>1. v \in {"applied", "failed"} BY DEF Verdict
  <2>2. change \in [Id -> [st : {"none", "pending", "applied", "failed"}, new : Value]] BY DEF TypeOK
  <2>3. change' = change \/ change' = [change EXCEPT ![f.id].st = v] OBVIOUS
  <2> HIDE DEF v, Inv, Record
  <2>4. ASSUME NEW c \in Id
        PROVE  change'[c] = change[c] \/ change'[c] = [change[c] EXCEPT !.st = v]
    BY <2>2, <2>3
  <2>5. change' = [c \in Id |-> change'[c]] BY <2>2, <2>3
  <2>6. ASSUME NEW x \in [st : {"none", "pending", "applied", "failed"}, new : Value]
        PROVE  /\ [x EXCEPT !.st = v] \in [st : {"none", "pending", "applied", "failed"}, new : Value]
               /\ [x EXCEPT !.st = v].new = x.new
    BY <2>1
  <2>7. ASSUME NEW c \in Id
        PROVE  /\ change'[c] \in [st : {"none", "pending", "applied", "failed"}, new : Value]
               /\ change'[c].new = change[c].new
    <3>1. change[c] \in [st : {"none", "pending", "applied", "failed"}, new : Value] BY <2>2
    <3> QED BY <3>1, <2>4, <2>6
  <2> QED BY <2>5, <2>7
<1>4. restore' \in [st : {"none", "queued", "sent", "done", "failed"}, val : Copy]
  BY DEF TypeOK
<1>5. Frames'
  <2>1. GoodDown' = GoodDown /\ GoodUp \subseteq GoodUp' BY GoodKept
  <2> QED BY <2>1, SeqMonotonic DEF Frames
<1>6. TypeOK' BY <1>2, <1>3, <1>4, <1>5, FramesTypedNext DEF TypeOK
<1>7. MirrorWasHeld' BY <1>1 DEF MirrorWasHeld, GoodUp, CopyOf
<1>8. Unarmed'
  <2> SUFFICES ASSUME Guarded PROVE mirror' \in {"unset", "off"}
    BY <1>3 DEF Unarmed, Guarded, defn, backend
  <2>1. f.type = "result" => f.val = "off"
    BY <1>1 DEF GoodUp, IsOff, Value
  <2> QED BY <1>1, <2>1 DEF Unarmed, GoodUp, CopyOf
<1> QED BY <1>5, <1>6, <1>7, <1>8

LEMMA ReceiveInv ==
  ASSUME Inv, Receive \/ ReceiveLate
  PROVE  Inv'
<1>1. CASE Receive
  <2>1. Head(up) \in GoodUp /\ Tail(up) \in Seq(GoodUp)
    BY <1>1, HeadTailProperties DEF Inv, Frames, Receive
  <2> QED BY <1>1, <2>1, RecordInv DEF Receive, Inv, Frames
<1>2. CASE ReceiveLate
  <2>1. Head(late) \in GoodUp /\ Tail(late) \in Seq(GoodUp)
    BY <1>2, HeadTailProperties DEF Inv, Frames, ReceiveLate
  <2> QED BY <1>2, <2>1, RecordInv DEF ReceiveLate, Inv, Frames
<1> QED BY <1>1, <1>2

LEMMA NextInv == Inv /\ [Next]_vars => Inv'
<1> SUFFICES ASSUME Inv, [Next]_vars PROVE Inv' OBVIOUS
<1>1. CASE Agent BY <1>1, ConnectInv, DeviceSetInv, DeviceRestoreInv DEF Agent
<1>2. CASE Server BY <1>2, SendInv, QuietInv, ReceiveInv DEF Server
<1>3. CASE Drop BY <1>3, DropInv
<1>4. CASE DriveOff \/ \E v \in Value : LocalEdit(v) BY <1>4, DriverInv
<1>5. CASE \E c \in Id : ChangeSetting(c) \/ ResetSetting(c)
  BY <1>5, ChangeInv DEF ChangeSetting, ResetSetting, Value
<1>6. CASE CreateBackup \/ DeleteBackup \/ RestoreBackup \/ \E v \in Copy : ImportBackup(v)
  BY <1>6, QuietInv
<1>7. CASE UNCHANGED vars
  <2>1. Frames' BY <1>7, FramesKept DEF Inv, vars, socket
  <2> QED BY <1>7, <2>1
          DEF Inv, vars, device, stack, socket, TypeOK, Unarmed, Guarded, defn, backend, MirrorWasHeld
<1> QED BY <1>1, <1>2, <1>3, <1>4, <1>5, <1>6, <1>7 DEF Next

LEMMA Invariant == Spec => []Inv
BY InitInv, NextInv, PTL DEF Spec
-----------------------------------------------------------------------------
\* Every variable of Settings keeps its type, for any values and any number of
\* changes and lost connections.
THEOREM TypeCorrect == Spec => []TypeOK
<1>1. Inv => TypeOK BY DEF Inv
<1> QED BY <1>1, Invariant, PTL

\* record_setting_result, apply_settings_sync: the page never shows a value the
\* device has not had.
THEOREM ShownWasHeld == Spec => []MirrorWasHeld
<1>1. Inv => MirrorWasHeld BY DEF Inv
<1> QED BY <1>1, Invariant, PTL

\* _change: on a real device no change frame, however old or repeated, moves an
\* arm-on-device-only key from off. It rests on the device reporting no values:
\* the copy the gate compares with then never leaves off.
THEOREM ChangesNeverArm == Spec => ChangeNeverArms
<1>1. Inv => (DeviceSet /\ defn.arm /\ backend = "real" /\ IsOff(value) => IsOff(value'))
  BY DeviceSetInv DEF Guarded
<1> QED BY <1>1, Invariant, PTL DEF Spec, ChangeNeverArms
-----------------------------------------------------------------------------
(* What the page settles on *)

\* A frame that changes the page when it is recorded.
Moves(f) == (f.type = "result" /\ f.ok) \/ (f.type = "sync" /\ f.val # "unset")

\* Recording the frames u one after the other leaves the page, from m, with v.
Settles(v, m, u) ==
  /\ (\A i \in 1 .. Len(u) : ~Moves(u[i])) => m \in {"unset", v}
  /\ \A i \in 1 .. Len(u) :
       Moves(u[i]) /\ (\A j \in i + 1 .. Len(u) : ~Moves(u[j])) => u[i].val = v

\* Without a record gone astray nothing is in the hands of a late handler, and
\* the frames on the socket lead the page to the device's value.
Leads == ~strayed => late = <<>> /\ Settles(value, mirror, up)

Unlinked == link = "down" => up = <<>> /\ down = <<>> /\ flush = NoFlush

Order == Inv /\ Unlinked /\ Leads

LEMMA SettlesMove ==
  ASSUME NEW u \in Seq(Up), NEW f \in Up, NEW v, NEW m, Moves(f), f.val = v
  PROVE  Settles(v, m, Append(u, f))
<1> DEFINE w == Append(u, f)
<1>1. Len(w) = Len(u) + 1 /\ w[Len(w)] = f /\ Len(u) \in Nat BY AppendProperties, LenProperties
<1> HIDE DEF w
<1>2. Len(w) \in 1 .. Len(w) /\ Moves(w[Len(w)]) BY <1>1
<1>3. ASSUME NEW i \in 1 .. Len(w), \A j \in i + 1 .. Len(w) : ~Moves(w[j])
      PROVE  w[i].val = v
  <2>1. i = Len(w) BY <1>1, <1>2, <1>3
  <2> QED BY <1>1, <2>1
<1> QED BY <1>2, <1>3 DEF Settles, w

LEMMA SettlesKeep ==
  ASSUME NEW u \in Seq(Up), NEW f \in Up, NEW v, NEW m, ~Moves(f), Settles(v, m, u)
  PROVE  Settles(v, m, Append(u, f))
<1> DEFINE w == Append(u, f)
<1>1. /\ Len(w) = Len(u) + 1 /\ w[Len(w)] = f /\ Len(u) \in Nat
      /\ \A i \in 1 .. Len(u) : w[i] = u[i]
  BY AppendProperties, LenProperties
<1> HIDE DEF w
<1>2. ASSUME \A i \in 1 .. Len(w) : ~Moves(w[i]) PROVE m \in {"unset", v}
  BY <1>1, <1>2 DEF Settles
<1>3. ASSUME NEW i \in 1 .. Len(w), Moves(w[i]), \A j \in i + 1 .. Len(w) : ~Moves(w[j])
      PROVE  w[i].val = v
  <2>1. i \in 1 .. Len(u) /\ w[i] = u[i] BY <1>1, <1>3
  <2>2. \A j \in i + 1 .. Len(u) : ~Moves(u[j]) BY <1>1, <1>3
  <2> QED BY <1>3, <2>1, <2>2 DEF Settles
<1> QED BY <1>2, <1>3 DEF Settles, w

LEMMA SettlesTail ==
  ASSUME NEW u \in Seq(Up), u # <<>>, NEW v, NEW m, NEW n, Settles(v, m, u),
         n = IF Moves(Head(u)) THEN Head(u).val ELSE m
  PROVE  Settles(v, n, Tail(u))
<1> DEFINE w == Tail(u)
<1>1. /\ Len(u) \in Nat /\ Len(w) = Len(u) - 1 /\ Len(u) > 0 /\ Head(u) = u[1]
      /\ \A i \in 1 .. Len(w) : w[i] = u[i + 1]
  BY HeadTailProperties, LenProperties, EmptySeq
<1> HIDE DEF w
<1>2. ASSUME \A i \in 1 .. Len(w) : ~Moves(w[i]) PROVE n \in {"unset", v}
  <2>1. \A j \in 2 .. Len(u) : ~Moves(u[j])
    <3> TAKE j \in 2 .. Len(u)
    <3>1. j - 1 \in 1 .. Len(w) /\ w[j - 1] = u[j] BY <1>1
    <3> QED BY <1>2, <3>1
  <2>2. CASE Moves(u[1]) BY <1>1, <2>1, <2>2 DEF Settles
  <2>3. CASE ~Moves(u[1])
    <3>1. \A j \in 1 .. Len(u) : ~Moves(u[j]) BY <1>1, <2>1, <2>3
    <3> QED BY <1>1, <2>3, <3>1 DEF Settles
  <2> QED BY <2>2, <2>3
<1>3. ASSUME NEW i \in 1 .. Len(w), Moves(w[i]), \A j \in i + 1 .. Len(w) : ~Moves(w[j])
      PROVE  w[i].val = v
  <2>1. i + 1 \in 1 .. Len(u) /\ w[i] = u[i + 1] BY <1>1
  <2>2. \A j \in i + 2 .. Len(u) : ~Moves(u[j])
    <3> TAKE j \in i + 2 .. Len(u)
    <3>1. j - 1 \in i + 1 .. Len(w) /\ w[j - 1] = u[j] BY <1>1
    <3> QED BY <1>3, <3>1
  <2> QED BY <1>3, <2>1, <2>2 DEF Settles
<1> QED BY <1>2, <1>3 DEF Settles, w

LEMMA EmptySettles == \A v, m : m \in {"unset", v} => Settles(v, m, <<>>)
<1>1. Len(<<>>) = 0 BY EmptySeq
<1> QED BY <1>1 DEF Settles

LEMMA SettledEmpty == \A v, m : Settles(v, m, <<>>) => m \in {"unset", v}
<1>1. Len(<<>>) = 0 BY EmptySeq
<1> QED BY <1>1 DEF Settles

LEMMA OrderNext == Order /\ [Next]_vars => Order'
<1> SUFFICES ASSUME Order, [Next]_vars PROVE Order' OBVIOUS
<1>a. Inv /\ Inv' BY NextInv DEF Order
<1>b. /\ up \in Seq(Up) /\ down \in Seq(Down) /\ late \in Seq(Up)
      /\ value \in Value /\ mirror \in Copy /\ "unset" \notin Value
      /\ link \in {"down", "up"}
  BY <1>a, SettingsAssumption DEF Inv, TypeOK, Value
<1>c. Unlinked /\ Leads BY DEF Order
<1>1. CASE Connect
  <2>1. SyncFrame(value) \in Up BY <1>b, SettingsAssumption DEF SyncFrame, Up, Copy
  <2>2. up = <<>> /\ <<SyncFrame(value)>> = Append(up, SyncFrame(value))
    BY <1>1, <1>c DEF Connect, Unlinked
  <2>3. Settles(value, mirror, up) => Settles(value, mirror, Append(up, SyncFrame(value)))
    <3>1. CASE Moves(SyncFrame(value))
      BY <1>b, <2>1, <3>1, SettlesMove DEF SyncFrame, Moves
    <3>2. CASE ~Moves(SyncFrame(value)) BY <1>b, <2>1, <3>2, SettlesKeep
    <3> QED BY <3>1, <3>2
  <2> QED BY <1>1, <1>a, <1>b, <1>c, <2>2, <2>3 DEF Connect, Order, Unlinked, Leads, device, stack
<1>2. CASE DeviceSet
  <2> DEFINE f == Head(down)
  <2>1. f \in Down BY <1>2, <1>b, HeadTailProperties DEF DeviceSet
  <2>2. ResultFrame(f, ~Refuses) \in Up
    BY <2>1, SettingsAssumption DEF ResultFrame, Up, Down
  <2>3. Settles(value, mirror, up) => Settles(value', mirror, Append(up, ResultFrame(f, ~Refuses)))
    <3>1. CASE Refuses
      BY <1>2, <1>b, <2>2, <3>1, SettlesKeep DEF DeviceSet, ResultFrame, Moves
    <3>2. CASE ~Refuses
      BY <1>2, <1>b, <2>2, <3>2, SettlesMove DEF DeviceSet, ResultFrame, Moves
    <3> QED BY <3>1, <3>2
  <2>4. link = "up" BY <1>2, <1>b, <1>c DEF DeviceSet, Unlinked
  <2> QED BY <1>2, <1>a, <1>c, <2>3, <2>4 DEF DeviceSet, Order, Unlinked, Leads, stack
<1>3. CASE DeviceRestore
  <2> DEFINE f == Head(down)
             r == Append(up, RestoredFrame(~onroad))
  <2>0. f \in Down BY <1>3, <1>b, HeadTailProperties DEF DeviceRestore
  <2>1. RestoredFrame(~onroad) \in Up /\ ~Moves(RestoredFrame(~onroad))
    BY <1>a, SettingsAssumption DEF RestoredFrame, Up, Moves, Inv, TypeOK, Copy
  <2>2. r \in Seq(Up) BY <1>b, <2>1, AppendProperties
  <2>3. link = "up" BY <1>3, <1>b, <1>c DEF DeviceRestore, Unlinked
  <2>4. ASSUME ~strayed' PROVE late' = <<>> /\ Settles(value', mirror', up')
    <3>1. backend # "real" /\ ~strayed BY <1>3, <2>4 DEF DeviceRestore
    <3>2. late' = <<>> /\ mirror' = mirror /\ Settles(value, mirror, r)
      BY <1>3, <1>b, <1>c, <2>1, <3>1, SettlesKeep DEF DeviceRestore, Leads, stack
    <3>3. CASE onroad
      <4>1. up' = r \o <<>> /\ value' = value BY <1>3, <3>3 DEF DeviceRestore
      <4>2. up' = r BY <2>2, <4>1, ConcatEmptySeq
      <4> QED BY <3>2, <4>1, <4>2
    <3>4. CASE ~onroad
      <4>1. SyncFrame(value') \in Up
        BY <1>a, SettingsAssumption DEF SyncFrame, Up, Copy, Inv, TypeOK
      <4>2. up' = r \o <<SyncFrame(value')>> BY <1>3, <3>4 DEF DeviceRestore
      <4>3. up' = Append(r, SyncFrame(value')) BY <2>2, <4>1, <4>2, AppendIsConcat
      <4>4. value' # "unset" BY <1>a, SettingsAssumption DEF Inv, TypeOK, Value
      <4>5. Moves(SyncFrame(value')) /\ SyncFrame(value').val = value'
        BY <3>1, <4>4 DEF SyncFrame, Moves
      <4> QED BY <2>2, <3>2, <4>1, <4>3, <4>5, SettlesMove
    <3> QED BY <3>3, <3>4
  <2> QED BY <1>3, <1>a, <2>3, <2>4 DEF DeviceRestore, Order, Unlinked, Leads, stack
<1>4. CASE Receive \/ ReceiveLate
  <2>1. ASSUME NEW f \in Up, Record(f)
        PROVE  mirror' = IF Moves(f) THEN f.val ELSE mirror
    BY <2>1 DEF Record, CopyOf, Moves, Up
  <2>2. ASSUME Receive PROVE Order'
    <3>1. Head(up) \in Up BY <1>b, <2>2, HeadTailProperties DEF Receive
    <3>2. mirror' = IF Moves(Head(up)) THEN Head(up).val ELSE mirror
      BY <2>1, <2>2, <3>1 DEF Receive
    <3>3. Settles(value, mirror, up) => Settles(value, mirror', Tail(up))
      BY <1>b, <2>2, <3>2, SettlesTail DEF Receive
    <3>4. UNCHANGED <<device, link, flush, down, strayed>> BY <2>2 DEF Receive, Record
    <3>5. link = "up" BY <1>b, <1>c, <2>2 DEF Receive, Unlinked
    <3> QED BY <1>a, <1>c, <2>2, <3>3, <3>4, <3>5
            DEF Receive, Order, Unlinked, Leads, device
  <2>3. ASSUME ReceiveLate PROVE Order'
    <3>1. UNCHANGED <<link, flush, down, up, strayed>> BY <2>3 DEF ReceiveLate, Record
    <3>2. strayed BY <2>3, <1>c DEF ReceiveLate, Leads
    <3> QED BY <1>a, <1>c, <3>1, <3>2 DEF Order, Unlinked, Leads
  <2> QED BY <1>4, <2>2, <2>3
<1>5. CASE Drop
  <2>1. Unlinked' BY <1>5 DEF Drop, Unlinked
  <2>2. ASSUME ~strayed' PROVE late' = <<>> /\ Settles(value', mirror', up')
    <3>1. ~strayed /\ up = <<>> /\ up' = <<>> BY <1>5, <2>2 DEF Drop
    <3>2. PICK n \in 0 .. (IF flush.pc \in {"changes", "send", "stream"} THEN Len(up) ELSE 0) :
            late' = late \o SubSeq(up, 1, n)
      BY <1>5 DEF Drop
    <3>3. late = <<>> /\ Settles(value, mirror, up) BY <1>c, <3>1 DEF Leads
    <3>4. n = 0 BY <3>1, <3>2, EmptySeq
    <3>5. late' = <<>> BY <3>1, <3>2, <3>3, <3>4
    <3> QED BY <1>5, <3>1, <3>3, <3>5 DEF Drop, device, stack
  <2> QED BY <1>a, <2>1, <2>2 DEF Order, Leads
<1>6. CASE DriveOff \/ \E v \in Value : LocalEdit(v)
  BY <1>6, <1>a, <1>c DEF DriveOff, LocalEdit, Order, Unlinked, Leads, socket, stack
<1>7. CASE \/ \E c \in Id : ChangeSetting(c) \/ ResetSetting(c) \/ ChangeSend(c) \/ FlushSend(c)
           \/ RestoreSend \/ FlushCommand \/ FlushCommit \/ FlushChanges \/ FlushDone
           \/ CreateBackup \/ DeleteBackup \/ RestoreBackup \/ \E v \in Copy : ImportBackup(v)
  <2>1. UNCHANGED <<value, mirror, link, up, late, strayed>>
    BY <1>7
    DEF ChangeSetting, ResetSetting, Change, ChangeSend, FlushSend, RestoreSend, FlushCommand,
        FlushCommit, FlushChanges, FlushDone, CreateBackup, DeleteBackup, RestoreBackup,
        ImportBackup, FlushStep, device, stack, socket
  <2>2. link = "down" => UNCHANGED <<down, flush>>
    BY <1>7, <1>c
    DEF ChangeSetting, ResetSetting, Change, ChangeSend, FlushSend, RestoreSend, FlushCommand,
        FlushCommit, FlushChanges, FlushDone, CreateBackup, DeleteBackup, RestoreBackup,
        ImportBackup, FlushStep, device, stack, socket, Deliver, Unlinked, NoFlush
  <2> QED BY <1>a, <1>c, <2>1, <2>2 DEF Order, Unlinked, Leads
<1>8. CASE UNCHANGED vars
  BY <1>8, <1>a, <1>c DEF vars, device, stack, socket, Order, Unlinked, Leads
<1> QED BY <1>1, <1>2, <1>3, <1>4, <1>5, <1>6, <1>7, <1>8 DEF Next, Server, Agent

LEMMA OrderInit == Init => Order
<1> SUFFICES ASSUME Init PROVE Order OBVIOUS
<1>1. Inv BY InitInv
<1>2. Leads BY EmptySettles DEF Init, Leads
<1> QED BY <1>1, <1>2 DEF Init, Order, Unlinked

\* record_setting_result: when nothing is under way the page shows what the
\* device runs with, in whatever order requests and flushes sent their copies,
\* unless a record went astray.
THEOREM PageSettles == Spec => []MirrorSettles
<1>1. Order => MirrorSettles
  BY SettledEmpty DEF Order, Leads, MirrorSettles, Quiet
<1> QED BY <1>1, OrderInit, OrderNext, PTL DEF Spec
=============================================================================
