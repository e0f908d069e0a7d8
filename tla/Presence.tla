------------------------------ MODULE Presence ------------------------------
(***************************************************************************)
(* The liveness of ONE device as the stack keeps it in four places at      *)
(* once: the device socket registered in ConnectionManager, the Redis      *)
(* presence key, the online/onroad columns of its device_status row, and   *)
(* what a browser shows after folding the event feed.                      *)
(*                                                                         *)
(* Everything runs on one asyncio loop, so a handler is atomic between two *)
(* awaits and interleaves at each of them: a socket handler                *)
(* (realtime_device), a REST heartbeat (device_self.heartbeat), the reaper *)
(* (reap_expired_presence), the browser's GET /devices and a sender         *)
(* (send_to_device) are each a program counter whose steps are the code    *)
(* between two awaits. Heartbeats commit every beat (persist interval 0,   *)
(* the default); write-behind is in LiveTrack.                             *)
(*                                                                         *)
(* A status row is read and written through a SQLAlchemy session: a commit *)
(* updates only the columns whose value differs from the one LOADED, so a  *)
(* column another handler changed meanwhile keeps the other's value (see   *)
(* Flush).                                                                 *)
(*                                                                         *)
(* Redis pub/sub keeps the order of publication, so the browser's view is  *)
(* folded at the publish itself.                                           *)
(***************************************************************************)
EXTENDS Naturals

CONSTANTS
  Sockets,      \* device WebSocket connections (an id is reused after it closed)
  Requests,     \* REST heartbeats in flight
  Reaper,       \* the background sweep of main.lifespan
  Browser,      \* one owner's page and its GET /devices request
  None,         \* no socket
  Situations    \* bounds: the values left may have at first

ASSUME PresenceAssumption ==
  /\ Sockets \cap Requests = {}
  /\ Reaper \notin Sockets \cup Requests
  /\ Browser \notin Sockets \cup Requests \cup {Reaper}
  /\ None \notin Sockets \cup Requests \cup {Reaper, Browser}
  /\ Situations \subseteq [sockets : SUBSET Sockets, requests : SUBSET Requests,
                           faults : Nat, resyncs : Nat]

VARIABLES
  registry,   \* ConnectionManager._devices[device]: the registered socket or None
  broken,     \* sockets whose transport is gone or that the server is closing
  sending,    \* the socket a send_to_device in progress captured, or None
  presence,   \* the Redis key presence:device:<id> exists
  row,        \* device_status: online and onroad (telemetry.driving follows onroad)
  pc,         \* where each handler is
  obj,        \* the status object each handler holds (Parked: none)
  shown,      \* the browser's node: online, onroad
  left        \* what may still happen: the sockets and requests that take part,
              \* the faults (restarts of the API, handlers that fail half-way)
              \* and the resyncs (GET /devices catch-ups) to come

session == <<registry, broken, sending>>
vars == <<registry, broken, sending, presence, row, pc, obj, shown, left>>

Handlers == Sockets \cup Requests \cup {Reaper, Browser}
Status == [online : BOOLEAN, onroad : BOOLEAN]
Parked == [online |-> FALSE, onroad |-> FALSE]

\* The steps of a socket's `try` block, of a heartbeat, and of set_offline.
Greeting == {"online", "announce"}
Beating == {"mark", "commit", "publish"}
InTry == Greeting \cup {"stream"} \cup Beating
Parking == {"unmark", "park", "parkCommit", "tell"}
Fetching == {"asked", "answered", "detail", "detailAsked", "detailed"}
PCs == {"idle", "remove", "probe"} \cup InTry \cup Parking \cup Fetching

TypeOK ==
  /\ registry \in Sockets \cup {None}
  /\ broken \subseteq Sockets
  /\ sending \in Sockets \cup {None}
  /\ presence \in BOOLEAN
  /\ row \in Status /\ shown \in Status
  /\ obj \in [Handlers -> Status]
  /\ pc \in [Handlers -> PCs]
  /\ left \in [sockets : SUBSET Sockets, requests : SUBSET Requests,
               faults : Nat, resyncs : Nat]

Init ==
  /\ registry = None /\ broken = {} /\ sending = None
  /\ presence = FALSE
  /\ row = Parked /\ shown = Parked
  /\ pc = [h \in Handlers |-> "idle"]
  /\ obj = [h \in Handlers |-> Parked]
  /\ left \in Situations

Fault == left.faults > 0 /\ left' = [left EXCEPT !.faults = @ - 1]

Goto(h, from, to) == pc[h] = from /\ pc' = [pc EXCEPT ![h] = to]

\* What the unit of work writes: the columns that differ from the loaded ones.
Flush(current, loaded, new) ==
  [c \in DOMAIN current |-> IF new[c] = loaded[c] THEN current[c] ELSE new[c]]

\* Mutants: the clamp forgets the onroad flag, or drops it from the answer.
ClampOnlineOnly(online, status) == [online |-> online, onroad |-> status.onroad]
ClampWithoutOnroad(online, status) == [online |-> online]

\* The presence clamp every read of a device goes through.
Clamp(online, status) == [online |-> online, onroad |-> online /\ status.onroad]
-----------------------------------------------------------------------------
(* The socket handler: registration, greeting, stream loop, finally.       *)

\* add_device: the new socket replaces the registered one, which is closed.
Connect(s) ==
  /\ s \in left.sockets
  /\ Goto(s, "idle", "online")
  /\ registry' = s
  /\ broken' = (broken \ {s}) \cup ({registry} \ {s, None})
  /\ UNCHANGED <<sending, presence, row, obj, shown, left>>

MarkConnected(s) ==
  /\ Goto(s, "online", "announce")
  /\ presence' = TRUE
  /\ UNCHANGED <<session, row, obj, shown, left>>

\* presence:true is published, then the queues are flushed (see Commands).
Announce(s) ==
  /\ Goto(s, "announce", "stream")
  /\ shown' = [shown EXCEPT !.online = TRUE]
  /\ UNCHANGED <<session, presence, row, obj, left>>

\* A HEARTBEAT frame only refreshes the key.
KeepAlive(s) ==
  /\ pc[s] = "stream"
  /\ presence' = TRUE
  /\ UNCHANGED <<session, row, pc, obj, shown, left>>

\* The transport of a socket goes away (network, device power).
Break(s) ==
  /\ pc[s] \in InTry /\ s \notin broken
  /\ broken' = broken \cup {s}
  /\ UNCHANGED <<registry, sending, presence, row, pc, obj, shown, left>>

\* Any exception inside the try (disconnect, failed send, failed Redis or
\* database call) ends in `finally`; the server then drops the transport.
Leave(s) ==
  /\ pc[s] \in InTry
  /\ pc' = [pc EXCEPT ![s] = "remove"]
  /\ obj' = [obj EXCEPT ![s] = Parked]
  /\ broken' = broken \cup {s}
  /\ UNCHANGED <<registry, sending, presence, row, shown, left>>

\* Mutants: the ended handler leaves the registry alone, or clears whatever
\* socket is registered.
UnregisterNever(s) == registry
UnregisterAny(s) == None

\* remove_device: only the handler whose socket is registered removes it.
Unregister(s) == IF registry = s THEN None ELSE registry

RemoveDevice(s) ==
  /\ Goto(s, "remove", "unmark")
  /\ registry' = Unregister(s)
  /\ UNCHANGED <<broken, sending, presence, row, obj, shown, left>>
-----------------------------------------------------------------------------
(* apply_heartbeat, by a STATUS frame or a REST request.                   *)

Home(h) == IF h \in Sockets THEN "stream" ELSE "idle"

LoadRow(h) ==
  /\ h \in left.sockets \cup left.requests
  /\ Goto(h, Home(h), "mark")
  /\ obj' = [obj EXCEPT ![h] = row]
  /\ UNCHANGED <<session, presence, row, shown, left>>

MarkOnline(h) ==
  /\ Goto(h, "mark", "commit")
  /\ presence' = TRUE
  /\ UNCHANGED <<session, row, obj, shown, left>>

CommitBeat(h) ==
  \E onroad \in BOOLEAN :
    LET beat == [online |-> TRUE, onroad |-> onroad] IN
    /\ Goto(h, "commit", "publish")
    /\ row' = Flush(row, obj[h], beat)
    /\ obj' = [obj EXCEPT ![h] = beat]
    /\ UNCHANGED <<session, presence, shown, left>>

\* The device_status event is clamped to online=True, which this handler
\* knows only from its own mark_online.
PublishStatus(h) ==
  /\ Goto(h, "publish", Home(h))
  /\ shown' = Clamp(TRUE, obj[h])
  /\ obj' = [obj EXCEPT ![h] = Parked]
  /\ UNCHANGED <<session, presence, row, left>>
-----------------------------------------------------------------------------
(* set_offline, by a socket's `finally` or by the reaper.                  *)

MarkOffline(h) ==
  /\ Goto(h, "unmark", "park")
  /\ presence' = FALSE
  /\ UNCHANGED <<session, row, obj, shown, left>>

LoadParked(h) ==
  /\ Goto(h, "park", "parkCommit")
  /\ obj' = [obj EXCEPT ![h] = row]
  /\ UNCHANGED <<session, presence, row, shown, left>>

CommitParked(h) ==
  /\ Goto(h, "parkCommit", "tell")
  /\ row' = Flush(row, obj[h], Parked)
  /\ obj' = [obj EXCEPT ![h] = Parked]
  /\ UNCHANGED <<session, presence, shown, left>>

PublishOffline(h) ==
  /\ Goto(h, "tell", "idle")
  /\ shown' = Parked
  /\ UNCHANGED <<session, presence, row, obj, left>>

\* A Redis or database call fails: it ends a set_offline at whichever step
\* (the reaper goes on with its next sweep) and a REST heartbeat. A socket's
\* heartbeat ends in Leave.
Fail(h) ==
  /\ pc[h] \in IF h \in Requests THEN Beating ELSE Parking
  /\ Fault
  /\ pc' = [pc EXCEPT ![h] = "idle"]
  /\ obj' = [obj EXCEPT ![h] = Parked]
  /\ UNCHANGED <<session, presence, row, shown>>

\* Mutant: the reaper selects the rows that read onroad.
SweepOnroad ==
  /\ row.onroad
  /\ Goto(Reaper, "idle", "probe")
  /\ UNCHANGED <<session, presence, row, obj, shown, left>>

\* The reaper selects the rows that read online, then asks Redis.
Sweep ==
  /\ row.online
  /\ Goto(Reaper, "idle", "probe")
  /\ UNCHANGED <<session, presence, row, obj, shown, left>>

Probe ==
  /\ Goto(Reaper, "probe", IF presence THEN "idle" ELSE "unmark")
  /\ UNCHANGED <<session, presence, row, obj, shown, left>>
-----------------------------------------------------------------------------
(* send_to_device, the key's expiry, the browser's catch-up, a restart.    *)

SendToDevice ==
  /\ sending = None /\ registry # None
  /\ sending' = registry
  /\ UNCHANGED <<registry, broken, presence, row, pc, obj, shown, left>>

\* The send succeeds, or fails on a broken transport and unregisters the
\* socket it captured.
SendReturns ==
  /\ sending # None
  /\ sending' = None
  /\ \/ UNCHANGED registry
     \/ sending \in broken /\ registry' = Unregister(sending)
  /\ UNCHANGED <<broken, presence, row, pc, obj, shown, left>>

\* The TTL lapses (30 s, far longer than a handler takes from mark_online to
\* its publish, so never between the two).
Expire ==
  /\ presence
  /\ \A h \in Handlers : pc[h] \notin {"announce", "commit", "publish"}
  /\ presence' = FALSE
  /\ UNCHANGED <<session, row, pc, obj, shown, left>>

\* resyncDevices: the server reads the row, then the key; the answer
\* overwrites the live fields whenever it arrives. For a device on the road the
\* page then asks for the detail, and folds that answer the same way.
ResyncAsk ==
  /\ \/ /\ Goto(Browser, "idle", "asked")
        /\ left.resyncs > 0 /\ left' = [left EXCEPT !.resyncs = @ - 1]
     \/ Goto(Browser, "detail", "detailAsked") /\ UNCHANGED left
  /\ obj' = [obj EXCEPT ![Browser] = row]
  /\ UNCHANGED <<session, presence, row, shown>>

ResyncAnswer ==
  /\ Goto(Browser, "asked", "answered") \/ Goto(Browser, "detailAsked", "detailed")
  /\ obj' = [obj EXCEPT ![Browser] = Clamp(presence, @)]
  /\ UNCHANGED <<session, presence, row, shown, left>>

ResyncApply ==
  /\ \/ Goto(Browser, "answered", IF obj[Browser].onroad THEN "detail" ELSE "idle")
     \/ Goto(Browser, "detailed", "idle")
  /\ shown' = obj[Browser]
  /\ obj' = [obj EXCEPT ![Browser] = Parked]
  /\ UNCHANGED <<session, presence, row, left>>

\* The API process dies and restarts: handlers and registry are gone, Redis
\* and Postgres are not. The browser's socket reopens and resyncs.
Crash ==
  /\ Fault
  /\ registry' = None /\ broken' = {} /\ sending' = None
  /\ pc' = [h \in Handlers |-> "idle"]
  /\ obj' = [h \in Handlers |-> Parked]
  /\ shown' = Clamp(presence, row)
  /\ UNCHANGED <<presence, row>>
-----------------------------------------------------------------------------
SocketStep(s) ==
  MarkConnected(s) \/ Announce(s) \/ RemoveDevice(s)

BeatStep(h) == MarkOnline(h) \/ CommitBeat(h) \/ PublishStatus(h)

OfflineStep(h) ==
  MarkOffline(h) \/ LoadParked(h) \/ CommitParked(h) \/ PublishOffline(h)

Next ==
  \/ \E s \in Sockets :
       Connect(s) \/ KeepAlive(s) \/ Break(s) \/ Leave(s) \/ SocketStep(s)
  \/ \E h \in Sockets \cup Requests : LoadRow(h) \/ BeatStep(h)
  \/ \E h \in Sockets \cup {Reaper} : OfflineStep(h)
  \/ \E h \in Sockets \cup Requests \cup {Reaper} : Fail(h)
  \/ Sweep \/ Probe
  \/ SendToDevice \/ SendReturns
  \/ Expire \/ ResyncAsk \/ ResyncAnswer \/ ResyncApply \/ Crash

Spec == Init /\ [][Next]_vars

\* No socket open, no heartbeat in flight: the device is gone.
Gone == \A h \in Sockets \cup Requests : pc[h] = "idle"

\* The next step of the reaper, and of the answer to a page.
ReaperStep == Sweep \/ Probe \/ OfflineStep(Reaper)
ResyncStep == ResyncAnswer \/ ResyncApply

\* The event loop runs every handler it started, the reaper sweeps for ever
\* (a failed sweep never ends its loop), and a key nobody refreshes lapses.
Fairness ==
  /\ \A s \in Sockets : WF_vars(SocketStep(s) \/ BeatStep(s) \/ OfflineStep(s))
  /\ \A h \in Requests : WF_vars(BeatStep(h))
  /\ WF_vars(ReaperStep) /\ WF_vars(ResyncStep)
  /\ WF_vars(Gone /\ Expire)

FairSpec == Spec /\ Fairness
-----------------------------------------------------------------------------
(* Properties *)

\* realtime_device / remove_device / add_device: the registry never holds a
\* socket whose handler has already passed its remove_device, so a command is
\* never sent to a handler that has ended.
RegistryOpen ==
  registry # None => pc[registry] \in InTry \cup {"remove"}

\* add_device / remove_device / send_to_device: a healthy streaming socket is
\* the registered one, whatever an older socket's `finally` or a send that
\* captured the older socket does; otherwise the device would be connected yet
\* unreachable for commands.
LiveSocketReachable ==
  \A s \in Sockets : pc[s] \in InTry /\ s \notin broken => registry = s

\* status_dict / _to_summary / the web reducer: through every path (event,
\* offline event, REST catch-up with a stale row) the browser never shows
\* "offline but on the road".
ShownConsistent == shown.onroad => shown.online

\* reap_expired_presence: a row that reads online while its presence key is
\* gone does not stay so, whatever handler died, and at whichever step.
PhantomRowCleared ==
  row.online /\ ~presence ~> ~row.online \/ presence

=============================================================================
