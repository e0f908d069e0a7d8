----------------------------- MODULE MCPresence -----------------------------
EXTENDS Presence

CONSTANTS s1, s2, r1

\* An older and a newer socket of the device.
TwoSockets ==
  [sockets |-> {s1, s2}, requests |-> {}, faults |-> 0, resyncs |-> 0]
\* A socket and a REST heartbeat, and one thing that fails.
SocketAndRequest ==
  [sockets |-> {s1}, requests |-> {r1}, faults |-> 1, resyncs |-> 0]
\* A socket, a page that catches up, and one thing that fails.
SocketAndResync ==
  [sockets |-> {s1}, requests |-> {}, faults |-> 1, resyncs |-> 1]
PresenceSituations == {TwoSockets, SocketAndRequest, SocketAndResync}

\* Nothing fails and nobody asks for the list.
Undisturbed ==
  {[sockets |-> {s1}, requests |-> {r1}, faults |-> 0, resyncs |-> 0]}
=============================================================================
