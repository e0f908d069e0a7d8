------------------------------ MODULE Pairing ------------------------------
(***************************************************************************)
(* Pairing one piece of hardware with one owner: the device asks for a     *)
(* code and polls, the owner types the code in a browser and may unpair.   *)
(* State is spread over the device_pairings, devices and device_keys rows, *)
(* the Redis code, and the agent's stored identity.                        *)
(*                                                                         *)
(* claim_device, register_complete and delete_device each read rows, and   *)
(* commit later what they decided from them; a step of another handler may *)
(* fall in between. The session writes the columns whose value differs     *)
(* from the loaded one; reading the keys flushes a changed device row      *)
(* first, and Postgres keeps that row locked until the commit. A           *)
(* device_keys row is named by the pairing that made it. The rate limits   *)
(* of the three endpoints and the statement timeout are left out.          *)
(***************************************************************************)
EXTENDS Naturals, FiniteSets

CONSTANTS
  Pairings,   \* device_pairings rows, one code each
  Devices,    \* devices rows of this owner and hardware
  Claimers,   \* POST /claim requests that can be in flight together
  None,
  MaxFaults   \* bound: restarts of agent or API, resets of the agent's identity

ASSUME PairingAssumption ==
  /\ None \notin Pairings \cup Devices \cup Claimers
  /\ MaxFaults \in Nat

VARIABLES
  pairing,  \* the row of each pairing: status, public key, device
  late,     \* pairings whose expires_at has passed
  code,     \* pairings whose code Redis still holds
  device,   \* the status column of each device ("none": no row)
  keys,     \* the ACTIVE key rows of each device
  agent,    \* the device's identity (key generation, device id) and its polling
  claim,    \* each claim request: where it is and what it has read
  poll,     \* a register_complete request past its checks
  unpair,   \* a DELETE /devices/{id} request
  revoked,  \* history: the devices unpaired since a claim of them last committed
  faults

rows == <<pairing, device, keys>>
vars == <<rows, late, code, agent, claim, poll, unpair, revoked, faults>>

Generations == 0 .. MaxFaults
PairingStatus == {"PENDING", "CLAIMED", "COMPLETED", "EXPIRED"}
DeviceStatus == {"PENDING", "ACTIVE", "REVOKED"}

IdleClaim == [step |-> "idle", pairing |-> None, device |-> None, status |-> "none",
              writes |-> FALSE, keys |-> {}]
IdlePoll == [pairing |-> None, status |-> "none"]
IdleUnpair == [step |-> "idle", device |-> None, status |-> "none", keys |-> {}]

TypeOK ==
  /\ pairing \in [Pairings -> [status : PairingStatus \cup {"none"},
                               key : Generations, device : Devices \cup {None}]]
  /\ late \subseteq Pairings /\ code \subseteq Pairings
  /\ device \in [Devices -> DeviceStatus \cup {"none"}]
  /\ keys \in [Devices -> SUBSET Pairings]
  /\ agent \in [key : Generations, device : Devices \cup {None},
                pairing : Pairings \cup {None}]
  /\ claim \in [Claimers -> [step : {"idle", "consumed", "checked", "loaded", "keyed"},
                             pairing : Pairings \cup {None},
                             device : Devices \cup {None},
                             status : DeviceStatus \cup {"none"},
                             writes : BOOLEAN, keys : SUBSET Pairings]]
  /\ poll \in [pairing : Pairings \cup {None}, status : DeviceStatus \cup {"none"}]
  /\ unpair \in [step : {"idle", "loaded", "keyed"}, device : Devices \cup {None},
                 status : DeviceStatus \cup {"none"}, keys : SUBSET Pairings]
  /\ revoked \subseteq Devices
  /\ faults \in 0 .. MaxFaults

Init ==
  /\ pairing = [p \in Pairings |-> [status |-> "none", key |-> 0, device |-> None]]
  /\ late = {} /\ code = {}
  /\ device = [d \in Devices |-> "none"]
  /\ keys = [d \in Devices |-> {}]
  /\ agent = [key |-> 0, device |-> None, pairing |-> None]
  /\ claim = [c \in Claimers |-> IdleClaim]
  /\ poll = IdlePoll /\ unpair = IdleUnpair
  /\ revoked = {} /\ faults = 0

\* The column a commit leaves: the new value where it differs from the loaded.
Flush(current, loaded, new) == IF new = loaded THEN current ELSE new

\* A handler has written the device row and not yet committed.
Locked(d) ==
  \/ \E c \in Claimers : claim[c].writes /\ claim[c].device = d
  \/ unpair.step = "keyed" /\ unpair.device = d
-----------------------------------------------------------------------------
(* register_start, by an agent without a device id                         *)

Start(p) ==
  /\ agent.device = None /\ agent.pairing = None
  /\ pairing[p].status = "none"
  /\ pairing' = [pairing EXCEPT ![p].status = "PENDING", ![p].key = agent.key]
  /\ code' = code \cup {p}
  /\ agent' = [agent EXCEPT !.pairing = p]
  /\ UNCHANGED <<late, device, keys, claim, poll, unpair, revoked, faults>>

\* expires_at passes; the Redis entry was stored later and lapses later.
Expire(p) ==
  /\ pairing[p].status # "none" /\ p \notin late
  /\ late' = late \cup {p}
  /\ UNCHANGED <<rows, code, agent, claim, poll, unpair, revoked, faults>>

CodeLapses(p) ==
  /\ p \in code \cap late
  /\ code' = code \ {p}
  /\ UNCHANGED <<rows, late, agent, claim, poll, unpair, revoked, faults>>
-----------------------------------------------------------------------------
(* claim_device *)

\* Mutant: the code is fetched and not deleted.
ConsumeAndKeep(c, p) ==
  /\ claim[c].step = "idle" /\ p \in code
  /\ claim' = [claim EXCEPT ![c] = [IdleClaim EXCEPT !.step = "consumed", !.pairing = p]]
  /\ UNCHANGED <<rows, code, late, agent, poll, unpair, revoked, faults>>

\* consume_pairing_code: GETDEL.
Consume(c, p) ==
  /\ claim[c].step = "idle" /\ p \in code
  /\ code' = code \ {p}
  /\ claim' = [claim EXCEPT ![c] = [IdleClaim EXCEPT !.step = "consumed", !.pairing = p]]
  /\ UNCHANGED <<rows, late, agent, poll, unpair, revoked, faults>>

\* The pairing is no longer PENDING, or late (and is then marked EXPIRED).
ClaimRefused(c) ==
  LET p == claim[c].pairing IN
  /\ claim[c].step = "consumed"
  /\ pairing[p].status # "PENDING" \/ p \in late
  /\ pairing' = IF pairing[p].status = "PENDING"
                THEN [pairing EXCEPT ![p].status = "EXPIRED"] ELSE pairing
  /\ claim' = [claim EXCEPT ![c] = IdleClaim]
  /\ UNCHANGED <<device, keys, late, code, agent, poll, unpair, revoked, faults>>

Rows == {d \in Devices : device[d] # "none"}

ClaimCheck(c) ==
  LET p == claim[c].pairing IN
  /\ claim[c].step = "consumed"
  /\ pairing[p].status = "PENDING" /\ p \notin late
  /\ claim' = [claim EXCEPT ![c].step = "checked"]
  /\ UNCHANGED <<rows, late, code, agent, poll, unpair, revoked, faults>>

\* The owner's device for this hardware, or none.
ClaimLoad(c) ==
  /\ claim[c].step = "checked"
  /\ \/ /\ Rows = {}
        /\ claim' = [claim EXCEPT ![c].step = "keyed"]
     \/ \E d \in Rows :
          claim' = [claim EXCEPT ![c].step = "loaded", ![c].device = d,
                                 ![c].status = device[d]]
  /\ UNCHANGED <<rows, late, code, agent, poll, unpair, revoked, faults>>

\* The keys of that device. A changed status (or alias, or revoked_at) is
\* flushed first, which waits for the row and locks it.
ClaimKeys(c) ==
  LET d == claim[c].device IN
  /\ claim[c].step = "loaded"
  /\ \E writes \in BOOLEAN :
       /\ claim[c].status # "PENDING" => writes
       /\ writes => ~Locked(d)
       /\ claim' = [claim EXCEPT ![c].step = "keyed", ![c].writes = writes,
                                 ![c].keys = keys[d]]
  /\ UNCHANGED <<rows, late, code, agent, poll, unpair, revoked, faults>>

\* The device row a claim writes: the one it loaded, or a new one.
Target(c) == IF claim[c].device # None THEN {claim[c].device} ELSE Devices \ Rows

\* Mutant: the device is active at once.
ClaimActive(c) ==
  LET p == claim[c].pairing IN
  /\ claim[c].step = "keyed"
  /\ \E d \in Target(c) :
       /\ device' = [device EXCEPT ![d] = Flush(@, claim[c].status, "ACTIVE")]
       /\ keys' = [keys EXCEPT ![d] = (@ \ claim[c].keys) \cup {p}]
       /\ pairing' = [pairing EXCEPT ![p].status = "CLAIMED", ![p].device = d]
       /\ revoked' = revoked \ {d}
  /\ claim' = [claim EXCEPT ![c] = IdleClaim]
  /\ UNCHANGED <<late, code, agent, poll, unpair, faults>>

\* Mutant: a claimed device keeps its status.
ClaimKeepsStatus(c) ==
  LET p == claim[c].pairing IN
  /\ claim[c].step = "keyed"
  /\ \E d \in Target(c) :
       /\ device' = [device EXCEPT ![d] = IF @ = "none" THEN "PENDING" ELSE @]
       /\ keys' = [keys EXCEPT ![d] = (@ \ claim[c].keys) \cup {p}]
       /\ pairing' = [pairing EXCEPT ![p].status = "CLAIMED", ![p].device = d]
       /\ revoked' = revoked \ {d}
  /\ claim' = [claim EXCEPT ![c] = IdleClaim]
  /\ UNCHANGED <<late, code, agent, poll, unpair, faults>>

\* Revoke the loaded keys, add this pairing's, mark the pairing CLAIMED.
ClaimCommit(c) ==
  LET p == claim[c].pairing IN
  /\ claim[c].step = "keyed"
  /\ \E d \in Target(c) :
       /\ device' = [device EXCEPT ![d] = Flush(@, claim[c].status, "PENDING")]
       /\ keys' = [keys EXCEPT ![d] = (@ \ claim[c].keys) \cup {p}]
       /\ pairing' = [pairing EXCEPT ![p].status = "CLAIMED", ![p].device = d]
       /\ revoked' = revoked \ {d}
  /\ claim' = [claim EXCEPT ![c] = IdleClaim]
  /\ UNCHANGED <<late, code, agent, poll, unpair, faults>>
-----------------------------------------------------------------------------
(* register_complete, polled by the agent for its current pairing          *)

Mine == pairing[agent.pairing]
Polling == agent.pairing # None /\ poll = IdlePoll

\* Mutant: only a claimed pairing expires.
PollExpiresClaimed ==
  /\ Polling /\ Mine.status = "CLAIMED" /\ agent.pairing \in late
  /\ pairing' = [pairing EXCEPT ![agent.pairing].status = "EXPIRED"]
  /\ agent' = [agent EXCEPT !.pairing = None]
  /\ UNCHANGED <<device, keys, late, code, claim, poll, unpair, revoked, faults>>

\* 410: the agent goes for a new code.
PollExpires ==
  /\ Polling /\ Mine.status # "COMPLETED" /\ agent.pairing \in late
  /\ pairing' = [pairing EXCEPT ![agent.pairing].status = "EXPIRED"]
  /\ agent' = [agent EXCEPT !.pairing = None]
  /\ UNCHANGED <<device, keys, late, code, claim, poll, unpair, revoked, faults>>

\* Claimed: the signature is verified and the device row loaded.
PollLoad ==
  /\ Polling /\ Mine.status = "CLAIMED" /\ agent.pairing \notin late
  /\ Mine.key = agent.key
  /\ poll' = [pairing |-> agent.pairing, status |-> device[Mine.device]]
  /\ UNCHANGED <<rows, late, code, agent, claim, unpair, revoked, faults>>

\* The device goes ACTIVE, once its row is free; the agent learns it unless it
\* has restarted, and then it pairs anew: it never asks for a completed pairing
\* again, so the idempotent first answer of register_complete is left out.
PollCommit ==
  LET p == poll.pairing
      d == pairing[p].device IN
  /\ p # None /\ ~Locked(d)
  /\ device' = [device EXCEPT ![d] = Flush(@, poll.status, "ACTIVE")]
  /\ pairing' = [pairing EXCEPT ![p].status = "COMPLETED"]
  /\ poll' = IdlePoll
  /\ agent' = IF agent.pairing = p
              THEN [agent EXCEPT !.pairing = None, !.device = d] ELSE agent
  /\ UNCHANGED <<keys, late, code, claim, unpair, revoked, faults>>
-----------------------------------------------------------------------------
(* delete_device, device authentication, restarts                          *)

\* allow_revoked: a revoked device may be deleted again.
UnpairLoad(d) ==
  /\ unpair.step = "idle" /\ d \in Rows
  /\ unpair' = [IdleUnpair EXCEPT !.step = "loaded", !.device = d, !.status = device[d]]
  /\ UNCHANGED <<rows, late, code, agent, claim, poll, revoked, faults>>

\* revoked_at always changes: the row is flushed and locked before the read.
UnpairKeys ==
  /\ unpair.step = "loaded" /\ ~Locked(unpair.device)
  /\ unpair' = [unpair EXCEPT !.step = "keyed", !.keys = keys[unpair.device]]
  /\ UNCHANGED <<rows, late, code, agent, claim, poll, revoked, faults>>

UnpairCommit ==
  LET d == unpair.device IN
  /\ unpair.step = "keyed"
  /\ device' = [device EXCEPT ![d] = Flush(@, unpair.status, "REVOKED")]
  /\ keys' = [keys EXCEPT ![d] = @ \ unpair.keys]
  /\ revoked' = revoked \cup {d}
  /\ unpair' = IdleUnpair
  /\ UNCHANGED <<pairing, late, code, agent, claim, poll, faults>>

\* A signature by the agent's key is accepted: the device is ACTIVE and the
\* first ACTIVE key the query returns is the agent's.
Accepted(d, k) ==
  device[d] = "ACTIVE" /\ k \in keys[d] /\ pairing[k].key = agent.key

\* AUTH_FAIL: the agent forgets its device id and pairs anew.
NeedsRepair ==
  /\ agent.device # None
  /\ \/ keys[agent.device] = {}
     \/ \E k \in keys[agent.device] : ~Accepted(agent.device, k)
  /\ agent' = [agent EXCEPT !.device = None]
  /\ UNCHANGED <<rows, late, code, claim, poll, unpair, revoked, faults>>

Fault == faults < MaxFaults /\ faults' = faults + 1

\* The agent restarts, or fails on an error answer and is restarted: what is
\* not stored is the pairing it polls.
AgentRestart ==
  /\ Fault
  /\ agent.pairing # None
  /\ agent' = [agent EXCEPT !.pairing = None]
  /\ UNCHANGED <<rows, late, code, claim, poll, unpair, revoked>>

\* identity.reset: a new key pair for the same hardware.
AgentReset ==
  /\ Fault
  /\ agent' = [key |-> agent.key + 1, device |-> None, pairing |-> None]
  /\ UNCHANGED <<rows, late, code, claim, poll, unpair, revoked>>

\* The API restarts: requests under way are lost, a polling agent fails.
ApiRestart ==
  /\ Fault
  /\ claim' = [c \in Claimers |-> IdleClaim]
  /\ poll' = IdlePoll /\ unpair' = IdleUnpair
  /\ agent' = [agent EXCEPT !.pairing = IF poll.pairing = @ THEN None ELSE @]
  /\ UNCHANGED <<rows, late, code, revoked>>
-----------------------------------------------------------------------------
ClaimStep(c) ==
  ClaimRefused(c) \/ ClaimCheck(c) \/ ClaimLoad(c) \/ ClaimKeys(c) \/ ClaimCommit(c)
PollStep == PollExpires \/ PollLoad \/ PollCommit

Next ==
  \/ \E p \in Pairings : Start(p) \/ Expire(p) \/ CodeLapses(p)
  \/ \E c \in Claimers : ClaimStep(c) \/ \E p \in Pairings : Consume(c, p)
  \/ PollStep
  \/ UnpairKeys \/ UnpairCommit \/ \E d \in Devices : UnpairLoad(d)
  \/ NeedsRepair \/ AgentRestart \/ AgentReset \/ ApiRestart

Spec == Init /\ [][Next]_vars

\* Time passes, the agent keeps polling, the loop runs what it has started, and
\* a row lock is granted in the order it was asked for.
Fairness ==
  /\ \A p \in Pairings : WF_vars(Expire(p))
  /\ \A c \in Claimers : WF_vars(ClaimStep(c))
  /\ WF_vars(PollStep) /\ SF_vars(PollCommit) /\ WF_vars(UnpairCommit)

FairSpec == Spec /\ Fairness
-----------------------------------------------------------------------------
(* Properties *)

Claiming(c, p) == claim[c].step # "idle" /\ claim[c].pairing = p

\* consume_pairing_code ("one-time use"): a pairing is in the hands of at most
\* one claim, is then neither claimable again nor claimed already, so it is
\* claimed at most once however many requests bring its code.
CodeUsedOnce ==
  \A p \in Pairings, c \in Claimers :
    Claiming(c, p) => /\ p \notin code
                      /\ pairing[p].status \in {"PENDING", "EXPIRED"}
                      /\ \A b \in Claimers : Claiming(b, p) => b = c

\* claim_device ("re-pairing leaves exactly ONE active key"): no device has two.
OneActiveKey == \A d \in Devices : \A j, k \in keys[d] : j = k

\* claim_device ("rather than creating a duplicate/zombie row"): the hardware
\* has one device row with this owner.
NoDuplicateDevice == \A d, e \in Rows : d = e

\* register_complete ("the device must prove possession"): an active device has
\* completed a pairing, whatever claims, unpairs and restarts came between.
ActiveOnlyAfterProof ==
  \A d \in Devices : device[d] = "ACTIVE" =>
    \E p \in Pairings : pairing[p].status = "COMPLETED" /\ pairing[p].device = d

\* The devices some claim or unpair under way loaded with the status it is to
\* give them: it will write none.
Blind ==
  {d \in Devices :
     \/ \E c \in Claimers : claim[c].device = d /\ claim[c].status = "PENDING"
     \/ unpair.device = d /\ unpair.status = "REVOKED"}

\* claim_device, register_complete, delete_device together keep the promise of
\* Enrolment: a pairing binds one device, once; each time a device goes ACTIVE a
\* pairing bound to it is completed in the same step, and a completed pairing
\* activates nothing again; a re-claim or an unpair leaves the device not ACTIVE,
\* but for one that loaded it before its activation and commits after. A pairing
\* bound before an unpair may still activate the device after it.
Desk == INSTANCE Enrolment WITH
  Tickets <- Pairings, Members <- Devices,
  status <- [p \in Pairings |-> pairing[p].status],
  bearer <- [p \in Pairings |-> pairing[p].device],
  active <- {d \in Devices : device[d] = "ACTIVE"},
  dismissed <- revoked, blind <- Blind
KeepsEnrolment == Desk!Spec

\* runner.pair: no pairing is polled for ever; a code that was consumed by a
\* claim that died ends in 410 and a new code.
PollEnds == \A p \in Pairings : agent.pairing = p ~> agent.pairing # p
=============================================================================
