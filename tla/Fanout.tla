------------------------------- MODULE Fanout -------------------------------
(***************************************************************************)
(* The live feed of the web: the sockets browsers open with their session  *)
(* cookies, the registry of sockets by user in ConnectionManager, and the  *)
(* subscriber that takes one device event at a time from the Redis         *)
(* channel, looks up the device's owner and sends the event to the owner's *)
(* sockets, all at once, each with a deadline. Composed with Accounts.     *)
(*                                                                         *)
(* The registry's lock is never held across an await, and accept() hands   *)
(* its answer over without waiting, so a socket is registered before its   *)
(* browser can know that it is open. What an event says is in Presence.    *)
(***************************************************************************)
EXTENDS Accounts, Sequences, FiniteSets

CONSTANTS
  Devices, Owner,   \* device rows, and their owner_id, which never changes
  MaxSockets,       \* bound: browser sockets ever opened
  MaxEvents         \* bound: device events published

ASSUME FanoutAssumption ==
  /\ Owner \in [Devices -> Users]
  /\ MaxSockets \in Nat /\ MaxEvents \in Nat
  /\ None \notin 1 .. MaxSockets
  /\ \A s \in Scenarios :
       /\ s.sockets \in 0 .. MaxSockets /\ s.events \in 0 .. MaxEvents
       /\ s.faults \in Nat /\ s.unpairs \in BOOLEAN

VARIABLES
  unpaired,    \* devices whose row is REVOKED
  link, tag,   \* of each socket: how far it is, and the user it was opened by
  stalled,     \* sockets whose browser has stopped reading
  page,        \* realtime.ts: the socket of each browser
  registry,    \* ConnectionManager._web
  event,       \* the devices of the events published so far
  queue,       \* the events the subscriber has yet to take
  sub,         \* the subscriber: the event in hand, who still has to get it
  cache,       \* owner_cache
  got,         \* the events each socket's browser was sent
  dropped,     \* sockets the registry gave up while their browser was there
  faults       \* stalled sockets, dead subscribers, API restarts

Sockets == 1 .. MaxSockets    \* in the order they are opened

sockets == <<link, tag, stalled, page, registry>>
feed == <<event, queue, sub, cache, got, dropped>>
vars == <<accounts, unpaired, sockets, feed, faults>>

Waiting == [pc |-> "idle", event |-> 0, pending |-> {}, failed |-> {}]

TypeOK ==
  /\ AccountsTypeOK
  /\ unpaired \subseteq Devices
  /\ link \in [Sockets -> {"new", "asking", "open", "closed"}]
  /\ tag \in [Sockets -> Users \cup {None}]
  /\ stalled \subseteq Sockets /\ dropped \subseteq Sockets
  /\ page \in [Clients -> Sockets \cup {None}]
  /\ registry \in [Users -> SUBSET Sockets]
  /\ event \in Seq(Devices) /\ queue \in Seq(1 .. MaxEvents)
  /\ sub \in [pc : {"idle", "lookup", "send", "dead"}, event : 0 .. MaxEvents,
              pending : SUBSET Sockets, failed : SUBSET Sockets]
  /\ cache \subseteq Devices
  /\ got \in [Sockets -> Seq(1 .. MaxEvents)]
  /\ faults \in 0 .. scenario.faults

Init ==
  /\ AccountsInit
  /\ unpaired = {}
  /\ link = [k \in Sockets |-> "new"] /\ tag = [k \in Sockets |-> None]
  /\ stalled = {} /\ dropped = {}
  /\ page = [c \in Clients |-> None]
  /\ registry = [u \in Users |-> {}]
  /\ event = <<>> /\ queue = <<>> /\ sub = Waiting /\ cache = {}
  /\ got = [k \in Sockets |-> <<>>]
  /\ faults = 0

Fault == faults < scenario.faults /\ faults' = faults + 1
-----------------------------------------------------------------------------
(* Browser sockets *)

\* connect, _user_from_ws: one socket per browser; the session is read once.
Ask(c, k) ==
  /\ page[c] = None /\ k <= scenario.sockets
  /\ link[k] = "new" /\ \A j \in 1 .. k - 1 : link[j] # "new"
  /\ SignedIn(cookie[c])
  /\ page' = [page EXCEPT ![c] = k]
  /\ link' = [link EXCEPT ![k] = "asking"]
  /\ tag' = [tag EXCEPT ![k] = session[cookie[c]].user]
  /\ UNCHANGED <<accounts, unpaired, stalled, registry, feed, faults>>

\* accept, add_web
Open(k) ==
  /\ link[k] = "asking"
  /\ link' = [link EXCEPT ![k] = "open"]
  /\ registry' = [registry EXCEPT ![tag[k]] = @ \cup {k}]
  /\ UNCHANGED <<accounts, unpaired, tag, stalled, page, feed, faults>>

Stall(k) ==
  /\ Fault /\ link[k] = "open" /\ k \notin stalled
  /\ stalled' = stalled \cup {k}
  /\ UNCHANGED <<accounts, unpaired, link, tag, page, registry, feed>>

Resume(k) ==
  /\ k \in stalled
  /\ stalled' = stalled \ {k}
  /\ UNCHANGED <<accounts, unpaired, link, tag, page, registry, feed, faults>>

\* Mutant: the end of one socket takes its user's whole bucket away.
DiscardBucket(gone) ==
  [u \in Users |-> IF registry[u] \cap gone = {} THEN registry[u] ELSE {}]

\* _discard_web_locked, for each of some sockets.
Discard(gone) == [u \in Users |-> registry[u] \ gone]

\* receive_text raises (the browser left, a ping got no answer): remove_web.
\* The browser may connect again.
Close(k) ==
  /\ link[k] = "open"
  /\ link' = [link EXCEPT ![k] = "closed"]
  /\ stalled' = stalled \ {k}
  /\ page' = [c \in Clients |-> IF page[c] = k THEN None ELSE page[c]]
  /\ registry' = Discard({k})
  /\ UNCHANGED <<accounts, unpaired, tag, feed, faults>>
-----------------------------------------------------------------------------
(* Devices: an event, an unpair, and a claim that reactivates the row *)

Post(d) ==
  /\ Len(event) < scenario.events
  /\ event' = Append(event, d)
  /\ queue' = IF sub.pc = "dead" THEN queue ELSE Append(queue, Len(event) + 1)

Publish(d) ==
  /\ Post(d)
  /\ UNCHANGED <<accounts, unpaired, sockets, sub, cache, got, dropped, faults>>

\* delete_device: the row is revoked, then presence:false published; again and
\* again if asked to.
Unpair(d) ==
  /\ scenario.unpairs /\ Post(d)
  /\ unpaired' = unpaired \cup {d}
  /\ UNCHANGED <<accounts, sockets, sub, cache, got, dropped, faults>>

PairAgain(d) ==
  /\ d \in unpaired
  /\ unpaired' = unpaired \ {d}
  /\ UNCHANGED <<accounts, sockets, feed, faults>>
-----------------------------------------------------------------------------
(* run_event_subscriber *)

\* Mutant: an event goes to every socket.
TargetsOpen(d) == UNION {registry[u] : u \in Users}

\* The sockets a broadcast takes under the lock.
Targets(d) == registry[Owner[d]]

Sending(e, targets) ==
  [pc |-> IF targets = {} THEN "idle" ELSE "send", event |-> e,
   pending |-> targets, failed |-> {}]

\* The next message: its owner is in the cache, or has to be read.
Take ==
  /\ sub.pc = "idle" /\ queue # <<>>
  /\ queue' = Tail(queue)
  /\ LET e == Head(queue) IN
     sub' = IF event[e] \in cache THEN Sending(e, Targets(event[e]))
            ELSE [Waiting EXCEPT !.pc = "lookup", !.event = e]
  /\ UNCHANGED <<accounts, unpaired, sockets, event, cache, got, dropped, faults>>

\* _resolve_owner: a revoked device has no owner, and stays out of the cache.
Lookup ==
  LET d == event[sub.event] IN
  /\ sub.pc = "lookup"
  /\ IF d \in unpaired THEN sub' = Waiting /\ UNCHANGED cache
     ELSE sub' = Sending(sub.event, Targets(d)) /\ cache' = cache \cup {d}
  /\ UNCHANGED <<accounts, unpaired, sockets, event, queue, got, dropped, faults>>

\* The read fails: nothing catches the error, and the task is gone.
LookupFails ==
  /\ Fault /\ sub.pc = "lookup"
  /\ sub' = [Waiting EXCEPT !.pc = "dead"] /\ queue' = <<>>
  /\ UNCHANGED <<accounts, unpaired, sockets, event, cache, got, dropped>>

Send(k) ==
  /\ sub.pc = "send" /\ k \in sub.pending
  /\ link[k] = "open" /\ k \notin stalled
  /\ sub' = [sub EXCEPT !.pending = @ \ {k}]
  /\ got' = [got EXCEPT ![k] = Append(@, sub.event)]
  /\ UNCHANGED <<accounts, unpaired, sockets, event, queue, cache, dropped, faults>>

\* Mutant: a send waits for as long as the browser does not read.
SendWaits(k) == sub.pc = "send" /\ k \in sub.pending /\ link[k] # "open"

\* A closed socket raises; one that does not read runs into the deadline.
CannotSend(k) ==
  sub.pc = "send" /\ k \in sub.pending /\ (link[k] # "open" \/ k \in stalled)

SendFails(k) ==
  /\ CannotSend(k)
  /\ sub' = [sub EXCEPT !.pending = @ \ {k}, !.failed = @ \cup {k}]
  /\ UNCHANGED <<accounts, unpaired, sockets, event, queue, cache, got, dropped, faults>>

\* Mutant: an event some socket failed to take is tried again later.
SentRetried ==
  /\ sub.pc = "send" /\ sub.pending = {}
  /\ queue' = IF sub.failed = {} THEN queue ELSE Append(queue, sub.event)
  /\ sub' = Waiting
  /\ UNCHANGED <<accounts, unpaired, sockets, event, cache, got, dropped, faults>>

\* All sends are over: the failed sockets leave the registry. None is closed.
Sent ==
  /\ sub.pc = "send" /\ sub.pending = {}
  /\ registry' = Discard(sub.failed)
  /\ dropped' = dropped \cup {k \in sub.failed : link[k] = "open"}
  /\ sub' = Waiting
  /\ UNCHANGED <<accounts, unpaired, link, tag, stalled, page, event, queue, cache, got, faults>>

\* The API restarts: sockets, registry, cache, the messages of the channel and
\* the requests in progress are gone.
Restart ==
  /\ Fault
  /\ link' = [k \in Sockets |-> IF link[k] = "new" THEN "new" ELSE "closed"]
  /\ stalled' = {} /\ page' = [c \in Clients |-> None]
  /\ registry' = [u \in Users |-> {}]
  /\ queue' = <<>> /\ sub' = Waiting /\ cache' = {}
  /\ request' = [c \in Clients |-> Idle]
  /\ UNCHANGED <<scenario, password, session, cookie, unpaired, tag, event, got, dropped>>
-----------------------------------------------------------------------------
Subscriber == Take \/ Lookup \/ Sent

Next ==
  \/ AccountsNext /\ UNCHANGED <<unpaired, sockets, feed, faults>>
  \/ \E c \in Clients, k \in Sockets : Ask(c, k)
  \/ \E k \in Sockets :
       Open(k) \/ Stall(k) \/ Resume(k) \/ Close(k) \/ Send(k) \/ SendFails(k)
  \/ \E d \in Devices : Publish(d) \/ Unpair(d) \/ PairAgain(d)
  \/ Subscriber \/ LookupFails \/ Restart

Spec == Init /\ [][Next]_vars

\* The event loop runs the subscriber; a send to a socket that reads ends, one
\* to a socket that does not ends with its deadline.
FairSpec ==
  /\ Spec /\ WF_vars(Subscriber)
  /\ \A k \in Sockets : WF_vars(Send(k) \/ SendFails(k))
-----------------------------------------------------------------------------
(* Properties *)

\* ConnectionManager, realtime_web: the registry holds, under the user whose
\* session opened it, every open socket and no other, but for those it gave up
\* because a send to them failed. Nobody else's close, failure or restart
\* takes a socket out, and no ended handler leaves one behind.
RegistryExact ==
  \A u \in Users, k \in Sockets \ dropped :
    k \in registry[u] <=> link[k] = "open" /\ tag[k] = u

\* broadcast_web ("a device event reaches only its owner"),
\* run_event_subscriber: with lookups, cache, pairing, targets taken before the
\* sends, and sends that overlap and run into their deadline, a socket gets
\* events of its own user's devices only, in the order of publication, none
\* twice.
OrderedForOwner ==
  \A k \in Sockets :
    /\ \A i \in DOMAIN got[k] : Owner[event[got[k][i]]] = tag[k]
    /\ \A i, j \in DOMAIN got[k] : i < j => got[k][i] < got[k][j]

\* A socket that stays open and reads.
Listens(k, u) == link[k] = "open" /\ tag[k] = u /\ k \notin stalled \cup dropped

\* _send ("a wedged client is dropped instead of blocking the event loop"): an
\* event of a paired device reaches every socket of its owner that was open
\* when it was published and goes on reading, whatever other browsers do, as
\* long as the subscriber lives: a lookup that fails kills it, and nothing
\* starts it again before the API restarts (sub.pc = "dead").
EventReachesOwner ==
  \A k \in Sockets, e \in 1 .. MaxEvents :
    (\E i \in DOMAIN queue : queue[i] = e /\ Listens(k, Owner[event[e]]))
      ~> \/ \E i \in DOMAIN got[k] : got[k][i] = e
         \/ ~Listens(k, tag[k]) \/ sub.pc = "dead"
         \/ e \in DOMAIN event /\ event[e] \in unpaired
=============================================================================
