----------------------------- MODULE Enrolment -----------------------------
(***************************************************************************)
(* What pairing promises, with no word of handlers, sessions, codes, keys  *)
(* or restarts. A ticket is bound to one device, once, and may lapse       *)
(* before or after; a device comes to be active only with the proof of a   *)
(* ticket bound to it, and each ticket is proved once. Binding or          *)
(* dismissing a device ends its trust, unless the desk decides from a look *)
(* at it that is older than its activation.                                *)
(***************************************************************************)
CONSTANTS Tickets, Members, None

VARIABLES
  status,     \* of each ticket
  bearer,     \* the device it is bound to, or None
  active,     \* the devices that may act
  dismissed,  \* the devices withdrawn since a ticket was last bound to them
  blind       \* the devices somebody looked at and has yet to decide about

evars == <<status, bearer, active, dismissed, blind>>

Init ==
  /\ status = [t \in Tickets |-> "none"]
  /\ bearer = [t \in Tickets |-> None]
  /\ active = {} /\ dismissed = {} /\ blind = {}

Issue(t) ==
  /\ status[t] = "none"
  /\ status' = [status EXCEPT ![t] = "PENDING"]
  /\ UNCHANGED <<bearer, active, dismissed>>

\* The device may no longer act; a blind desk may not notice that it does.
Distrust(m) ==
  \/ active' = active \ {m}
  \/ m \in blind /\ active' = active

\* A ticket that has lapsed under the eyes of its claim is bound all the same.
Bind(t, m) ==
  /\ status[t] \in {"PENDING", "EXPIRED"} /\ bearer[t] = None
  /\ status' = [status EXCEPT ![t] = "CLAIMED"]
  /\ bearer' = [bearer EXCEPT ![t] = m]
  /\ Distrust(m)
  /\ dismissed' = dismissed \ {m}

\* Without effect on a device that was put back while it proved itself.
Prove(t) ==
  /\ status[t] = "CLAIMED"
  /\ status' = [status EXCEPT ![t] = "COMPLETED"]
  /\ active' \in {active, active \cup {bearer[t]}}
  /\ UNCHANGED <<bearer, dismissed>>

Lapse(t) ==
  /\ status[t] \in {"PENDING", "CLAIMED"}
  /\ status' = [status EXCEPT ![t] = "EXPIRED"]
  /\ UNCHANGED <<bearer, active, dismissed>>

Withdraw(m) ==
  /\ Distrust(m)
  /\ dismissed' = dismissed \cup {m}
  /\ UNCHANGED <<status, bearer>>

\* Looks begin, at devices that may not act, and end, at any time.
Look == blind' \subseteq blind \cup (Members \ active)

Next ==
  /\ Look
  /\ \/ \E t \in Tickets : Issue(t) \/ Prove(t) \/ Lapse(t)
     \/ \E t \in Tickets, m \in Members : Bind(t, m)
     \/ \E m \in Members : Withdraw(m)
     \/ UNCHANGED <<status, bearer, active, dismissed>>

Spec == Init /\ [][Next]_evars
=============================================================================
