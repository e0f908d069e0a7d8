--------------------------- MODULE PresenceProofs ---------------------------
(***************************************************************************)
(* For any number of sockets, REST heartbeats, restarts and catch-ups: the *)
(* types of Presence, and that the registry of device sockets neither      *)
(* keeps a handler that has ended nor loses a healthy stream. The two      *)
(* registry invariants need each other: that an ending handler leaves the  *)
(* healthy one registered follows from LiveSocketReachable, that it leaves *)
(* itself out from RegistryOpen.                                           *)
(***************************************************************************)
EXTENDS Presence, TLAPS

\* Moving one handler to a step of PCs keeps pc well typed.
LEMMA GotoType ==
  ASSUME pc \in [Handlers -> PCs], NEW h \in Handlers, NEW from, NEW to \in PCs,
         Goto(h, from, to)
  PROVE  pc' \in [Handlers -> PCs] /\ pc[h] = from /\ pc'[h] = to
BY DEF Goto

\* A commit yields a status: each column is the stored or the new value.
LEMMA FlushType ==
  ASSUME NEW current \in Status, NEW loaded \in Status, NEW new \in Status
  PROVE  Flush(current, loaded, new) \in Status
<1>1. DOMAIN current = {"online", "onroad"} BY DEF Status
<1>2. Flush(current, loaded, new) =
        [online |-> IF new.online = loaded.online THEN current.online ELSE new.online,
         onroad |-> IF new.onroad = loaded.onroad THEN current.onroad ELSE new.onroad]
  BY <1>1 DEF Flush
<1> QED BY <1>2 DEF Status

\* The clamp yields a status that is never "offline but on the road".
LEMMA ClampType ==
  ASSUME NEW online \in BOOLEAN, NEW status \in Status
  PROVE  /\ Clamp(online, status) \in Status
         /\ Clamp(online, status).onroad => Clamp(online, status).online
BY DEF Clamp, Status

LEMMA HandlerSets ==
  /\ Sockets \subseteq Handlers /\ Requests \subseteq Handlers
  /\ Reaper \in Handlers /\ Browser \in Handlers
BY DEF Handlers

\* What may still happen stays well typed when a fault or a resync is spent.
Left == [sockets : SUBSET Sockets, requests : SUBSET Requests, faults : Nat, resyncs : Nat]

LEMMA SpentType ==
  ASSUME left \in Left
  PROVE  /\ Fault => left' \in Left
         /\ left.resyncs > 0 => [left EXCEPT !.resyncs = @ - 1] \in Left
<1>1. left.faults \in Nat /\ left.resyncs \in Nat BY DEF Left
<1>2. left.faults > 0 => left.faults - 1 \in Nat BY <1>1
<1>3. left.resyncs > 0 => left.resyncs - 1 \in Nat BY <1>1
<1>4. \A n \in Nat : [left EXCEPT !.faults = n] \in Left /\ [left EXCEPT !.resyncs = n] \in Left
  BY DEF Left
<1> QED BY <1>2, <1>3, <1>4 DEF Fault

\* Every variable keeps its type in every step.
LEMMA TypeStep == TypeOK /\ [Next]_vars => TypeOK'
<1> SUFFICES ASSUME TypeOK, [Next]_vars PROVE TypeOK'
  OBVIOUS
<1> USE PresenceAssumption, HandlerSets DEF TypeOK, session
<1>p. pc \in [Handlers -> PCs] BY DEF PCs
<1>l. left \in Left BY DEF Left
<1>q. Parked \in Status BY DEF Parked, Status
<1>1. ASSUME NEW s \in Sockets, Connect(s) PROVE TypeOK'
  <2>1. pc' \in [Handlers -> PCs] BY <1>1, <1>p, GotoType DEF Connect, PCs, InTry, Greeting
  <2> QED BY <1>1, <2>1 DEF Connect, PCs
<1>2. ASSUME NEW s \in Sockets, KeepAlive(s) \/ Break(s) PROVE TypeOK'
  BY <1>2 DEF KeepAlive, Break
<1>3. ASSUME NEW s \in Sockets, Leave(s) PROVE TypeOK'
  <2>1. pc' \in [Handlers -> PCs] BY <1>3, <1>p DEF Leave, PCs
  <2> QED BY <1>3, <1>q, <2>1 DEF Leave
<1>4. ASSUME NEW s \in Sockets, MarkConnected(s) \/ Announce(s) PROVE TypeOK'
  <2>1. pc' \in [Handlers -> PCs]
    BY <1>4, <1>p, GotoType DEF MarkConnected, Announce, PCs, InTry, Greeting
  <2>2. CASE MarkConnected(s) BY <2>2, <2>1 DEF MarkConnected, PCs
  <2>3. CASE Announce(s) BY <2>3, <2>1 DEF Announce, PCs, Status
  <2> QED BY <1>4, <2>2, <2>3
<1>5. ASSUME NEW s \in Sockets, RemoveDevice(s) PROVE TypeOK'
  <2>1. pc' \in [Handlers -> PCs]
    BY <1>5, <1>p, GotoType DEF RemoveDevice, PCs, Parking
  <2> QED BY <1>5, <2>1 DEF RemoveDevice, Unregister, PCs
<1>6. ASSUME NEW h \in Sockets \cup Requests, LoadRow(h) \/ BeatStep(h) PROVE TypeOK'
  <2>0. Home(h) \in PCs BY DEF Home, PCs, InTry
  <2>1. pc' \in [Handlers -> PCs]
    BY <1>6, <1>p, <2>0, GotoType
    DEF LoadRow, BeatStep, MarkOnline, CommitBeat, PublishStatus, PCs, InTry, Beating
  <2>2. CASE LoadRow(h) BY <2>2, <2>1 DEF LoadRow, PCs
  <2>3. CASE MarkOnline(h) BY <2>3, <2>1 DEF MarkOnline, PCs
  <2>4. CASE CommitBeat(h)
    <3>1. PICK onroad \in BOOLEAN :
            /\ row' = Flush(row, obj[h], [online |-> TRUE, onroad |-> onroad])
            /\ obj' = [obj EXCEPT ![h] = [online |-> TRUE, onroad |-> onroad]]
      BY <2>4 DEF CommitBeat
    <3>2. [online |-> TRUE, onroad |-> onroad] \in Status BY DEF Status
    <3>3. row' \in Status BY <3>1, <3>2, FlushType
    <3>4. obj' \in [Handlers -> Status] BY <3>1, <3>2
    <3> QED BY <2>4, <2>1, <3>3, <3>4 DEF CommitBeat, PCs
  <2>5. CASE PublishStatus(h)
    <3>1. shown' \in Status BY <2>5, ClampType DEF PublishStatus
    <3> QED BY <2>5, <2>1, <3>1, <1>q DEF PublishStatus, PCs
  <2> QED BY <1>6, <2>2, <2>3, <2>4, <2>5 DEF BeatStep
<1>7. ASSUME NEW h \in Sockets \cup {Reaper}, OfflineStep(h) PROVE TypeOK'
  <2>1. pc' \in [Handlers -> PCs]
    BY <1>7, <1>p, GotoType
    DEF OfflineStep, MarkOffline, LoadParked, CommitParked, PublishOffline, PCs, Parking
  <2>2. CASE MarkOffline(h) BY <2>2, <2>1 DEF MarkOffline, PCs
  <2>3. CASE LoadParked(h) BY <2>3, <2>1 DEF LoadParked, PCs
  <2>4. CASE CommitParked(h)
    <3>1. row' \in Status BY <2>4, <1>q, FlushType DEF CommitParked
    <3> QED BY <2>4, <2>1, <3>1, <1>q DEF CommitParked, PCs
  <2>5. CASE PublishOffline(h) BY <2>5, <2>1, <1>q DEF PublishOffline, PCs
  <2> QED BY <1>7, <2>2, <2>3, <2>4, <2>5 DEF OfflineStep
<1>8. ASSUME Sweep \/ Probe PROVE TypeOK'
  <2>1. pc' \in [Handlers -> PCs]
    BY <1>8, <1>p, GotoType DEF Sweep, Probe, PCs, Parking
  <2> QED BY <1>8, <2>1 DEF Sweep, Probe, PCs
<1>9. ASSUME SendToDevice \/ SendReturns \/ Expire PROVE TypeOK'
  BY <1>9 DEF SendToDevice, SendReturns, Unregister, Expire
<1>10. ASSUME ResyncAsk \/ ResyncAnswer \/ ResyncApply PROVE TypeOK'
  <2>1. pc' \in [Handlers -> PCs]
    BY <1>10, <1>p, GotoType DEF ResyncAsk, ResyncAnswer, ResyncApply, PCs, Fetching
  <2>2. CASE ResyncAsk
    <3>1. left' \in Left BY <2>2, SpentType, <1>l DEF ResyncAsk
    <3>2. obj' \in [Handlers -> Status] BY <2>2 DEF ResyncAsk
    <3> QED BY <2>2, <2>1, <3>1, <3>2 DEF ResyncAsk, PCs, Left
  <2>3. CASE ResyncAnswer
    <3>1. obj' \in [Handlers -> Status] BY <2>3, ClampType DEF ResyncAnswer
    <3> QED BY <2>3, <2>1, <3>1 DEF ResyncAnswer, PCs
  <2>4. CASE ResyncApply BY <2>4, <2>1, <1>q DEF ResyncApply, PCs
  <2> QED BY <1>10, <2>2, <2>3, <2>4
<1>11. ASSUME Crash PROVE TypeOK'
  <2>1. shown' \in Status BY <1>11, ClampType DEF Crash
  <2>2. pc' \in [Handlers -> PCs] BY <1>11 DEF Crash, PCs
  <2>3. left' \in Left BY <1>11, <1>l, SpentType DEF Crash
  <2> QED BY <1>11, <2>1, <2>2, <2>3, <1>q DEF Crash, Left
<1>12. ASSUME UNCHANGED vars PROVE TypeOK'
  BY <1>12 DEF vars
<1>16. ASSUME NEW h \in Sockets \cup Requests \cup {Reaper}, Fail(h) PROVE TypeOK'
  <2>1. "idle" \in PCs /\ h \in Handlers BY DEF PCs
  <2>2. pc' \in [Handlers -> PCs] /\ obj' \in [Handlers -> Status]
    BY <1>16, <1>p, <1>q, <2>1 DEF Fail
  <2>3. left' \in Left BY <1>16, <1>l, SpentType DEF Fail
  <2> QED BY <1>16, <2>2, <2>3 DEF Fail, Left
<1> HIDE DEF TypeOK, session
<1>13. CASE \E s \in Sockets :
              Connect(s) \/ KeepAlive(s) \/ Break(s) \/ Leave(s) \/ SocketStep(s)
  BY <1>13, <1>1, <1>2, <1>3, <1>4, <1>5 DEF SocketStep
<1>14. CASE \E h \in Sockets \cup Requests : LoadRow(h) \/ BeatStep(h)
  BY <1>14, <1>6
<1>15. CASE \E h \in Sockets \cup {Reaper} : OfflineStep(h)
  BY <1>15, <1>7
<1> QED BY <1>8, <1>9, <1>10, <1>11, <1>12, <1>13, <1>14, <1>15, <1>16 DEF Next

LEMMA TypeInit == Init => TypeOK
<1> SUFFICES ASSUME Init PROVE TypeOK
  OBVIOUS
<1>1. Parked \in Status BY DEF Parked, Status
<1>2. left \in Left BY PresenceAssumption DEF Init, Left
<1>3. pc \in [Handlers -> PCs] /\ obj \in [Handlers -> Status]
  BY <1>1 DEF Init, PCs
<1> QED BY <1>1, <1>2, <1>3 DEF Init, TypeOK, Left

\* Every variable of Presence has its type in every reachable state.
THEOREM TypeCorrect == Spec => []TypeOK
BY TypeInit, TypeStep, PTL DEF Spec

\* The registry and the handlers' steps, inductively.
Registered == TypeOK /\ RegistryOpen /\ LiveSocketReachable

\* What a step may do to the registry: a socket's own handler enters or leaves
\* it, everything else can only drop a broken one.
LEMMA RegistryStep == Registered /\ [Next]_vars => Registered'
<1> SUFFICES ASSUME Registered, [Next]_vars PROVE Registered'
  OBVIOUS
<1>t. TypeOK' BY TypeStep DEF Registered
<1>p. pc \in [Handlers -> PCs] /\ registry \in Sockets \cup {None}
  BY DEF Registered, TypeOK, PCs
<1> USE PresenceAssumption, HandlerSets, <1>p
    DEF Registered, RegistryOpen, LiveSocketReachable, session
\* A handler that stays inside its try, or outside it, changes nothing here.
<1>a. ASSUME NEW h \in Handlers, UNCHANGED <<registry, broken>>,
             \A g \in Handlers \ {h} : pc'[g] = pc[g],
             \/ pc[h] \in InTry /\ pc'[h] \in InTry
             \/ h \notin Sockets
             \/ pc[h] \notin InTry \cup {"remove"} /\ pc'[h] \notin InTry
      PROVE  RegistryOpen' /\ LiveSocketReachable'
  <2>1. RegistryOpen' BY <1>a
  <2>2. LiveSocketReachable' BY <1>a
  <2> QED BY <2>1, <2>2
<1>1. ASSUME NEW s \in Sockets, Connect(s) PROVE RegistryOpen' /\ LiveSocketReachable'
  <2>1. pc' = [pc EXCEPT ![s] = "online"] /\ registry' = s
        /\ broken' = (broken \ {s}) \cup ({registry} \ {s, None})
    BY <1>1 DEF Connect, Goto
  <2>2. RegistryOpen' BY <2>1 DEF InTry, Greeting
  <2>3. LiveSocketReachable' BY <2>1
  <2> QED BY <2>2, <2>3
<1>2. ASSUME NEW s \in Sockets, KeepAlive(s) \/ Break(s)
      PROVE  RegistryOpen' /\ LiveSocketReachable'
  BY <1>2 DEF KeepAlive, Break
<1>3. ASSUME NEW s \in Sockets, Leave(s) PROVE RegistryOpen' /\ LiveSocketReachable'
  <2>1. pc' = [pc EXCEPT ![s] = "remove"] /\ registry' = registry
        /\ broken' = broken \cup {s}
    BY <1>3 DEF Leave
  <2>2. RegistryOpen' BY <2>1
  <2>3. LiveSocketReachable' BY <2>1
  <2> QED BY <2>2, <2>3
<1>4. ASSUME NEW s \in Sockets, RemoveDevice(s)
      PROVE  RegistryOpen' /\ LiveSocketReachable'
  <2>1. pc' = [pc EXCEPT ![s] = "unmark"] /\ pc[s] = "remove" /\ broken' = broken
        /\ registry' = IF registry = s THEN None ELSE registry
    BY <1>4 DEF RemoveDevice, Goto, Unregister
  <2>2. {"unmark", "remove"} \cap InTry = {} BY DEF InTry, Greeting, Beating
  <2>3. RegistryOpen' BY <2>1, <2>2
  <2>4. LiveSocketReachable' BY <2>1, <2>2
  <2> QED BY <2>3, <2>4
<1>5. ASSUME NEW s \in Sockets, MarkConnected(s) \/ Announce(s)
      PROVE  RegistryOpen' /\ LiveSocketReachable'
  <2>1. UNCHANGED <<registry, broken>> /\ \A g \in Handlers \ {s} : pc'[g] = pc[g]
    BY <1>5 DEF MarkConnected, Announce, Goto
  <2>2. pc[s] \in InTry /\ pc'[s] \in InTry
    BY <1>5 DEF MarkConnected, Announce, Goto, InTry, Greeting
  <2> QED BY <2>1, <2>2, <1>a
<1>6. ASSUME NEW h \in Sockets \cup Requests, LoadRow(h) \/ BeatStep(h)
      PROVE  RegistryOpen' /\ LiveSocketReachable'
  <2>1. UNCHANGED <<registry, broken>> /\ \A g \in Handlers \ {h} : pc'[g] = pc[g]
    BY <1>6 DEF LoadRow, BeatStep, MarkOnline, CommitBeat, PublishStatus, Goto
  <2>2. h \in Sockets => pc[h] \in InTry /\ pc'[h] \in InTry
    BY <1>6 DEF LoadRow, BeatStep, MarkOnline, CommitBeat, PublishStatus, Goto,
                Home, InTry, Beating
  <2> QED BY <2>1, <2>2, <1>a
<1>7. ASSUME NEW h \in Sockets \cup {Reaper}, OfflineStep(h)
      PROVE  RegistryOpen' /\ LiveSocketReachable'
  <2>1. UNCHANGED <<registry, broken>> /\ \A g \in Handlers \ {h} : pc'[g] = pc[g]
    BY <1>7 DEF OfflineStep, MarkOffline, LoadParked, CommitParked, PublishOffline, Goto
  <2>2. pc[h] \in Parking /\ pc'[h] \in Parking \cup {"idle"}
    BY <1>7 DEF OfflineStep, MarkOffline, LoadParked, CommitParked, PublishOffline,
                Goto, Parking
  <2>3. Parking \cap (InTry \cup {"remove"}) = {} /\ "idle" \notin InTry
    BY DEF Parking, InTry, Greeting, Beating
  <2>4. pc[h] \notin InTry \cup {"remove"} /\ pc'[h] \notin InTry
    BY <2>2, <2>3
  <2> QED BY <2>1, <2>4, <1>a
<1>8. ASSUME Sweep \/ Probe PROVE RegistryOpen' /\ LiveSocketReachable'
  <2>1. UNCHANGED <<registry, broken>> /\ \A g \in Handlers \ {Reaper} : pc'[g] = pc[g]
    BY <1>8 DEF Sweep, Probe, Goto
  <2> QED BY <2>1, <1>a
<1>9. ASSUME SendToDevice \/ Expire PROVE RegistryOpen' /\ LiveSocketReachable'
  BY <1>9 DEF SendToDevice, Expire
<1>10. ASSUME SendReturns PROVE RegistryOpen' /\ LiveSocketReachable'
  BY <1>10 DEF SendReturns, Unregister
<1>11. ASSUME ResyncAsk \/ ResyncAnswer \/ ResyncApply
       PROVE  RegistryOpen' /\ LiveSocketReachable'
  <2>1. UNCHANGED <<registry, broken>> /\ \A g \in Handlers \ {Browser} : pc'[g] = pc[g]
    BY <1>11 DEF ResyncAsk, ResyncAnswer, ResyncApply, Goto
  <2> QED BY <2>1, <1>a
<1>12. ASSUME Crash PROVE RegistryOpen' /\ LiveSocketReachable'
  <2>1. "idle" \notin InTry BY DEF InTry, Greeting, Beating
  <2> QED BY <1>12, <2>1 DEF Crash
<1>13. ASSUME UNCHANGED vars PROVE RegistryOpen' /\ LiveSocketReachable'
  BY <1>13 DEF vars
<1>17. ASSUME NEW h \in Sockets \cup Requests \cup {Reaper}, Fail(h)
       PROVE  RegistryOpen' /\ LiveSocketReachable'
  <2>1. UNCHANGED <<registry, broken>> /\ \A g \in Handlers \ {h} : pc'[g] = pc[g]
    BY <1>17 DEF Fail
  <2>2. pc'[h] = "idle" /\ (h \in Sockets => pc[h] \in Parking) BY <1>17 DEF Fail
  <2>3. Parking \cap (InTry \cup {"remove"}) = {} /\ "idle" \notin InTry
    BY DEF Parking, InTry, Greeting, Beating
  <2> QED BY <2>1, <2>2, <2>3, <1>a
<1> HIDE DEF RegistryOpen, LiveSocketReachable, session
<1>14. CASE \E s \in Sockets :
              Connect(s) \/ KeepAlive(s) \/ Break(s) \/ Leave(s) \/ SocketStep(s)
  BY <1>14, <1>t, <1>1, <1>2, <1>3, <1>4, <1>5 DEF SocketStep
<1>15. CASE \E h \in Sockets \cup Requests : LoadRow(h) \/ BeatStep(h)
  BY <1>15, <1>t, <1>6
<1>16. CASE \E h \in Sockets \cup {Reaper} : OfflineStep(h)
  BY <1>16, <1>t, <1>7
<1> QED BY <1>t, <1>8, <1>9, <1>10, <1>11, <1>12, <1>13, <1>14, <1>15, <1>16, <1>17
  DEF Next

LEMMA RegisteredAlways == Spec => []Registered
<1>1. Init => Registered
  <2>1. "idle" \notin InTry BY DEF InTry, Greeting, Beating
  <2> QED BY <2>1, TypeInit, HandlerSets DEF Init, Registered, RegistryOpen, LiveSocketReachable
<1> QED BY <1>1, RegistryStep, PTL DEF Spec

\* add_device / remove_device: a handler that has passed its remove_device is
\* never registered again, so no command is handed to it.
THEOREM RegistryNeverStale == Spec => []RegistryOpen
BY RegisteredAlways, PTL DEF Registered

\* add_device / remove_device / send_to_device: a healthy stream is always the
\* registered socket, whatever older sockets and failing sends do around it.
THEOREM LiveSocketKept == Spec => []LiveSocketReachable
BY RegisteredAlways, PTL DEF Registered

\* What the browser holds, shown or still in an answer, is clamped.
ClampedView ==
  /\ TypeOK /\ ShownConsistent
  /\ pc[Browser] \in {"answered", "detailed"} => (obj[Browser].onroad => obj[Browser].online)

LEMMA ClampedStep == ClampedView /\ [Next]_vars => ClampedView'
<1> SUFFICES ASSUME ClampedView, [Next]_vars PROVE ClampedView'
  OBVIOUS
<1>t. TypeOK' BY TypeStep DEF ClampedView
<1>p. /\ pc \in [Handlers -> PCs] /\ obj \in [Handlers -> Status]
      /\ presence \in BOOLEAN
  BY DEF ClampedView, TypeOK, PCs
<1> DEFINE Answer == pc[Browser] \in {"answered", "detailed"} =>
                       (obj[Browser].onroad => obj[Browser].online)
<1> USE PresenceAssumption, HandlerSets, <1>p
    DEF ClampedView, ShownConsistent, session
<1>1. ASSUME NEW s \in Sockets,
             Connect(s) \/ KeepAlive(s) \/ Break(s) \/ Leave(s) \/ RemoveDevice(s)
                \/ MarkConnected(s)
      PROVE  ShownConsistent' /\ Answer'
  BY <1>1 DEF Connect, KeepAlive, Break, Leave, RemoveDevice, MarkConnected, Goto
<1>2. ASSUME NEW s \in Sockets, Announce(s) PROVE ShownConsistent' /\ Answer'
  <2>1. shown' = [shown EXCEPT !.online = TRUE] /\ shown \in Status
    BY <1>2 DEF Announce, TypeOK
  <2>2. ShownConsistent' BY <2>1 DEF Status
  <2>3. Answer' BY <1>2 DEF Announce, Goto
  <2> QED BY <2>2, <2>3
<1>3. ASSUME NEW h \in Sockets \cup Requests, LoadRow(h) \/ MarkOnline(h) \/ CommitBeat(h)
      PROVE  ShownConsistent' /\ Answer'
  BY <1>3 DEF LoadRow, MarkOnline, CommitBeat, Goto
<1>4. ASSUME NEW h \in Sockets \cup Requests, PublishStatus(h)
      PROVE  ShownConsistent' /\ Answer'
  <2>1. shown' = Clamp(TRUE, obj[h]) BY <1>4 DEF PublishStatus
  <2>2. ShownConsistent' BY <2>1 DEF Clamp
  <2>3. Answer' BY <1>4 DEF PublishStatus, Goto
  <2> QED BY <2>2, <2>3
<1>5. ASSUME NEW h \in Sockets \cup {Reaper}, OfflineStep(h)
      PROVE  ShownConsistent' /\ Answer'
  BY <1>5 DEF OfflineStep, MarkOffline, LoadParked, CommitParked, PublishOffline, Goto, Parked
<1>6. ASSUME Sweep \/ Probe \/ SendToDevice \/ SendReturns \/ Expire
      PROVE  ShownConsistent' /\ Answer'
  BY <1>6 DEF Sweep, Probe, SendToDevice, SendReturns, Expire, Goto
<1>7. ASSUME ResyncAsk PROVE ShownConsistent' /\ Answer'
  BY <1>7 DEF ResyncAsk, Goto
<1>8. ASSUME ResyncAnswer PROVE ShownConsistent' /\ Answer'
  <2>1. obj'[Browser] = Clamp(presence, obj[Browser]) /\ UNCHANGED shown
    BY <1>8 DEF ResyncAnswer
  <2> QED BY <2>1, ClampType
<1>9. ASSUME ResyncApply PROVE ShownConsistent' /\ Answer'
  BY <1>9 DEF ResyncApply, Goto
<1>10. ASSUME Crash PROVE ShownConsistent' /\ Answer'
  <2>1. shown' = Clamp(presence, row) /\ pc' = [h \in Handlers |-> "idle"]
    BY <1>10 DEF Crash
  <2> QED BY <2>1 DEF Clamp
<1>11. ASSUME UNCHANGED vars PROVE ShownConsistent' /\ Answer'
  BY <1>11 DEF vars
<1>15. ASSUME NEW h \in Sockets \cup Requests \cup {Reaper}, Fail(h)
       PROVE  ShownConsistent' /\ Answer'
  BY <1>15 DEF Fail
<1> HIDE DEF ShownConsistent, session
<1>12. CASE \E s \in Sockets :
              Connect(s) \/ KeepAlive(s) \/ Break(s) \/ Leave(s) \/ SocketStep(s)
  BY <1>12, <1>t, <1>1, <1>2 DEF SocketStep
<1>13. CASE \E h \in Sockets \cup Requests : LoadRow(h) \/ BeatStep(h)
  BY <1>13, <1>t, <1>3, <1>4 DEF BeatStep
<1>14. CASE \E h \in Sockets \cup {Reaper} : OfflineStep(h)
  BY <1>14, <1>t, <1>5
<1> QED BY <1>t, <1>6, <1>7, <1>8, <1>9, <1>10, <1>11, <1>12, <1>13, <1>14, <1>15
  DEF Next

\* status_dict / _to_summary / the web reducer: no event, offline event or late
\* REST answer ever makes the browser show an offline device on the road.
THEOREM NeverOfflineOnroad == Spec => []ShownConsistent
<1>1. Init => ClampedView
  BY TypeInit, HandlerSets DEF Init, ClampedView, ShownConsistent, Parked
<1> QED BY <1>1, ClampedStep, PTL DEF Spec, ClampedView
=============================================================================
