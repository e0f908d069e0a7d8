------------------------------ MODULE MCFanout ------------------------------
(* Instances of Fanout for TLC: the requests of browsers, and the feed, are  *)
(* each given room in turn.                                                  *)
EXTENDS Fanout
CONSTANTS u1, u2, d1, d2

OwnerOf == [d \in Devices |-> IF d = d1 THEN u1 ELSE u2]
Case(us, ss, p, x, ks, e, f, u) ==
  [users |-> us, sessions |-> ss, passwords |-> p, ends |-> x, sockets |-> ks,
   events |-> e, faults |-> f, unpairs |-> u]

\* Two changes of a password over three sessions; two users who set up at the
\* same time, each with a socket; a device unpaired and paired again while its
\* owner's browser reconnects.
FanoutScenarios ==
  {Case({u1}, 3, 3, TRUE, 0, 0, 0, FALSE),
   Case({u1, u2}, 2, 1, FALSE, 2, 2, 1, FALSE),
   Case({u1}, 1, 1, FALSE, 2, 2, 1, TRUE)}
=============================================================================
