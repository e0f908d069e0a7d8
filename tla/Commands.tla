------------------------------ MODULE Commands ------------------------------
(***************************************************************************)
(* Remote commands of ONE device, from the owner's request to the result:  *)
(* the device_commands row, the request handler that issues it, the flush  *)
(* of queued rows by a connecting socket, the socket's two directions, and *)
(* the agent that executes and answers.                                    *)
(*                                                                         *)
(* The three kinds differ in when the row is committed and marked:         *)
(*   switch   models and software: commit QUEUED, send, commit SENT        *)
(*   restore  backups: commit QUEUED, send, never marked SENT              *)
(*   reboot   send first, then commit what became of the send              *)
(* Handlers interleave at every await. The agent executes one frame at a   *)
(* time; RealDevice.execute has no await, so its gate and its effect are   *)
(* one step. What a dropped connection held in either direction is lost.   *)
(* Audit rows, catalogue checks and command arguments are left out.        *)
(***************************************************************************)
EXTENDS Naturals, Sequences

CONSTANTS
  Commands,   \* device_commands rows
  MaxDrops    \* bound: connections that end

ASSUME CommandsAssumption == MaxDrops \in Nat

VARIABLES
  row,       \* committed status of each command ("none": not committed)
  kind,      \* its kind, from the request on
  issuer,    \* where the request handler of each command is
  link,      \* the socket handler: down, greeting, flushing, streaming
  batch,     \* queued commands the flush has loaded and not yet sent
  flushed,   \* commands it has sent and not yet marked
  down, up,  \* frames under way to the device, results under way back
  late,      \* results the handler of a lost connection has yet to record
  onroad,    \* the car
  reported,  \* the onroad flag of the status row
  ran,       \* how often each command took effect
  drops, cuts   \* connections that ended; that ended during a flush

request == <<kind, issuer>>
flush == <<batch, flushed>>
wire == <<down, up, late>>
car == <<onroad, reported>>
count == <<drops, cuts>>
vars == <<row, request, link, flush, wire, car, ran, count>>

Kinds == {"switch", "restore", "reboot"}
CommandStatus == {"QUEUED", "SENT", "DONE", "FAILED"}
Answer == [cmd : Commands, ok : BOOLEAN]

TypeOK ==
  /\ row \in [Commands -> CommandStatus \cup {"none"}]
  /\ kind \in [Commands -> Kinds \cup {"none"}]
  /\ issuer \in [Commands -> {"idle", "send", "delivered", "undelivered", "done"}]
  /\ link \in {"down", "greeting", "flushing", "streaming"}
  /\ batch \subseteq Commands /\ flushed \subseteq Commands
  /\ down \in Seq(Commands) /\ up \in Seq(Answer) /\ late \in Seq(Answer)
  /\ onroad \in BOOLEAN /\ reported \in BOOLEAN
  /\ ran \in [Commands -> Nat]
  /\ drops \in 0 .. MaxDrops /\ cuts \in 0 .. drops

Init ==
  /\ row = [c \in Commands |-> "none"]
  /\ kind = [c \in Commands |-> "none"]
  /\ issuer = [c \in Commands |-> "idle"]
  /\ link = "down" /\ batch = {} /\ flushed = {}
  /\ down = <<>> /\ up = <<>> /\ late = <<>>
  /\ onroad = FALSE /\ reported = FALSE
  /\ ran = [c \in Commands |-> 0]
  /\ drops = 0 /\ cuts = 0
-----------------------------------------------------------------------------
(* The request: issue_model_switch, _queue_update, restore_backup,         *)
(* reboot_device                                                           *)

\* Refused while the status row reads onroad. A reboot is only flushed.
Issue(c, k) ==
  /\ issuer[c] = "idle" /\ ~reported
  /\ kind' = [kind EXCEPT ![c] = k]
  /\ row' = IF k = "reboot" THEN row ELSE [row EXCEPT ![c] = "QUEUED"]
  /\ issuer' = [issuer EXCEPT ![c] = "send"]
  /\ UNCHANGED <<link, flush, wire, car, ran, count>>

\* send_to_device: a registered socket takes the frame. A send that fails on a
\* broken transport is a Drop before it.
Send(c) ==
  /\ issuer[c] = "send"
  /\ issuer' = [issuer EXCEPT ![c] = IF link = "down" THEN "undelivered" ELSE "delivered"]
  /\ down' = IF link = "down" THEN down ELSE Append(down, c)
  /\ UNCHANGED <<row, kind, link, flush, up, late, car, ran, count>>

\* What the request commits after the send.
Outcome(c) ==
  CASE kind[c] = "restore" -> row[c]
    [] kind[c] = "switch" /\ issuer[c] = "undelivered" -> row[c]
    [] kind[c] = "reboot" /\ issuer[c] = "undelivered" -> "QUEUED"
    [] OTHER -> "SENT"

Mark(c) ==
  /\ issuer[c] \in {"delivered", "undelivered"}
  /\ row' = [row EXCEPT ![c] = Outcome(c)]
  /\ issuer' = [issuer EXCEPT ![c] = "done"]
  /\ UNCHANGED <<kind, link, flush, wire, car, ran, count>>
-----------------------------------------------------------------------------
(* The device socket: registration, _deliver_queued_commands, frames       *)

\* add_device comes before the queue is read.
Connect ==
  /\ link = "down"
  /\ link' = "greeting"
  /\ UNCHANGED <<row, request, flush, wire, car, ran, count>>

\* Mutants: the queue read skips restores, or includes what was sent before.
QueuedSwitches == {c \in Commands : row[c] = "QUEUED" /\ kind[c] # "restore"}
Unfinished == {c \in Commands : row[c] \in {"QUEUED", "SENT"}}

Queued == {c \in Commands : row[c] = "QUEUED"}

FlushLoad ==
  /\ link = "greeting"
  /\ link' = "flushing"
  /\ batch' = Queued
  /\ UNCHANGED <<row, request, flushed, wire, car, ran, count>>

\* The query has no order.
FlushSend(c) ==
  /\ link = "flushing" /\ c \in batch
  /\ batch' = batch \ {c} /\ flushed' = flushed \cup {c}
  /\ down' = Append(down, c)
  /\ UNCHANGED <<row, request, link, up, late, car, ran, count>>

\* One commit marks them all SENT, whatever their rows became meanwhile.
FlushCommit ==
  /\ link = "flushing" /\ batch = {}
  /\ link' = "streaming"
  /\ row' = [c \in Commands |-> IF c \in flushed THEN "SENT" ELSE row[c]]
  /\ flushed' = {}
  /\ UNCHANGED <<request, batch, wire, car, ran, count>>

\* Mutant: any answer counts as done.
ResultDone ==
  /\ link = "streaming" /\ up # <<>>
  /\ LET c == Head(up).cmd IN
     row' = IF row[c] = "none" THEN row ELSE [row EXCEPT ![c] = "DONE"]
  /\ up' = Tail(up)
  /\ UNCHANGED <<request, link, flush, down, late, car, ran, count>>

\* record_command_result: a result whose row is not committed is ignored, any
\* other settles the command, whatever its status.
Record(answer) ==
  row' = IF row[answer.cmd] = "none" THEN row
         ELSE [row EXCEPT ![answer.cmd] = IF answer.ok THEN "DONE" ELSE "FAILED"]

Result ==
  /\ link = "streaming" /\ up # <<>>
  /\ Record(Head(up)) /\ up' = Tail(up)
  /\ UNCHANGED <<request, link, flush, down, late, car, ran, count>>

\* By the handler of the lost connection, while the next one may be greeting.
ResultLate ==
  /\ late # <<>>
  /\ Record(Head(late)) /\ late' = Tail(late)
  /\ UNCHANGED <<request, link, flush, down, up, car, ran, count>>

\* The connection ends, and with it an uncommitted flush. Of the results under
\* way a streaming handler has received the first few.
Drop ==
  /\ link # "down" /\ drops < MaxDrops
  /\ link' = "down"
  /\ batch' = {} /\ flushed' = {} /\ down' = <<>> /\ up' = <<>>
  /\ \E n \in 0 .. (IF link = "streaming" THEN Len(up) ELSE 0) :
       late' = late \o SubSeq(up, 1, n)
  /\ drops' = drops + 1
  /\ cuts' = IF link = "flushing" THEN cuts + 1 ELSE cuts
  /\ UNCHANGED <<row, request, car, ran>>
-----------------------------------------------------------------------------
(* The device: receiver, RealDevice.execute, status reports                *)

\* Mutant: the device trusts the gate of the stack.
ExecuteUngated ==
  /\ down # <<>> /\ down' = Tail(down)
  /\ \E ok \in BOOLEAN :
       /\ up' = Append(up, [cmd |-> Head(down), ok |-> ok])
       /\ ran' = IF ok THEN [ran EXCEPT ![Head(down)] = @ + 1] ELSE ran
  /\ UNCHANGED <<row, request, link, flush, late, car, count>>

\* Refused onroad; offroad it takes effect or fails without one.
Execute ==
  /\ down # <<>> /\ down' = Tail(down)
  /\ \E ok \in BOOLEAN :
       /\ ok => ~onroad
       /\ up' = Append(up, [cmd |-> Head(down), ok |-> ok])
       /\ ran' = IF ok THEN [ran EXCEPT ![Head(down)] = @ + 1] ELSE ran
  /\ UNCHANGED <<row, request, link, flush, late, car, count>>

Turn ==
  /\ onroad' = ~onroad
  /\ UNCHANGED <<row, request, link, flush, wire, reported, ran, count>>

\* A status frame, or the socket's end, which parks the row.
Report ==
  /\ reported' = (link = "streaming" /\ onroad)
  /\ UNCHANGED <<row, request, link, flush, wire, onroad, ran, count>>
-----------------------------------------------------------------------------
Next ==
  \/ \E c \in Commands :
       (\E k \in Kinds : Issue(c, k)) \/ Send(c) \/ Mark(c) \/ FlushSend(c)
  \/ Connect \/ FlushLoad \/ FlushCommit \/ Result \/ ResultLate \/ Drop
  \/ Execute \/ Turn \/ Report

Spec == Init /\ [][Next]_vars

\* What the socket handler and the requests do next.
Handle == Connect \/ FlushLoad \/ (\E c \in Commands : FlushSend(c)) \/ FlushCommit \/ Result
Serve == \E c \in Commands : Send(c) \/ Mark(c)

\* The agent reconnects and executes what it is sent, the server runs the
\* handlers it has started (but that of a lost connection need not go on).
Fairness == WF_vars(Handle) /\ WF_vars(Serve) /\ WF_vars(Execute)

FairSpec == Spec /\ Fairness
-----------------------------------------------------------------------------
(* Properties *)

\* docs/security.md ("No remote control of anything that can affect active
\* driving while onroad"): however long a command was queued or under way, and
\* whatever the stack believed, it takes no effect while the car is onroad.
OffroadOnly == [][ran' # ran => ~onroad]_vars

\* _deliver_queued_commands, the three requests: redelivery after a lost
\* connection is bounded. A reboot takes effect once; a switch or a restore
\* twice, sent by its request and by a flush (a restore because its row stays
\* QUEUED after a send that succeeded); all of them once more for every flush
\* that was cut before it could mark what it sent.
RedeliveryBounded ==
  \A c \in Commands : ran[c] <= (IF kind[c] = "reboot" THEN 1 ELSE 2) + cuts

\* record_command_result: what the owner reads as DONE has taken effect, over
\* every loss, redelivery and overlap of sessions.
DoneHasRun == \A c \in Commands : row[c] = "DONE" => ran[c] > 0

\* realtime_device, restore_backup, issue_model_switch: once the connection
\* stays up no switch or restore stays QUEUED, whichever side of the flush its
\* commit and its send fell. (A reboot sends before it commits: it can miss
\* both the send and the flush, and waits for the next connection.)
QueuedDelivered ==
  <>[](link = "streaming") =>
    \A c \in Commands : []<>(row[c] # "QUEUED" \/ kind[c] = "reboot")
=============================================================================
