--------------------------- MODULE PairingProofs ---------------------------
(***************************************************************************)
(* For any number of pairings, device rows and faults: the types of        *)
(* Pairing; that a code is used once and an active device has proved       *)
(* itself, for any number of claims in flight; that with one claim at a    *)
(* time no device ever has two active keys; that while every re-claim      *)
(* locks the device row an unpair is final and one key remains however     *)
(* claims overlap; and that Pairing implements Enrolment.                  *)
(***************************************************************************)
EXTENDS Pairing, TLAPS

PairingRow == [status : PairingStatus \cup {"none"}, key : Generations,
               device : Devices \cup {None}]
ClaimRecord == [step : {"idle", "consumed", "checked", "loaded", "keyed"},
                pairing : Pairings \cup {None}, device : Devices \cup {None},
                status : DeviceStatus \cup {"none"}, writes : BOOLEAN,
                keys : SUBSET Pairings]
UnpairRecord == [step : {"idle", "loaded", "keyed"}, device : Devices \cup {None},
                 status : DeviceStatus \cup {"none"}, keys : SUBSET Pairings]

\* What a claim, a poll and an unpair in progress may hold; a new identity is
\* a fault, so there are no more generations than faults.
Holding ==
  /\ \A c \in Claimers : claim[c].step # "idle" => claim[c].pairing \in Pairings
  /\ \A c \in Claimers : claim[c].step = "loaded" => claim[c].device \in Devices
  /\ unpair.step # "idle" => unpair.device \in Devices
  /\ \A p \in Pairings : pairing[p].status \in {"CLAIMED", "COMPLETED"} =>
                           pairing[p].device \in Devices
  /\ poll.pairing # None => pairing[poll.pairing].device \in Devices
  /\ agent.key <= faults

Typed == TypeOK /\ Holding

LEMMA TypedInit == Init => Typed
<1> SUFFICES ASSUME Init PROVE Typed
  OBVIOUS
<1>1. 0 \in Generations /\ 0 \in 0 .. MaxFaults BY PairingAssumption DEF Generations
<1>2. IdleClaim \in ClaimRecord BY DEF IdleClaim, ClaimRecord
<1>3. claim \in [Claimers -> ClaimRecord] BY <1>2 DEF Init
<1>4. pairing \in [Pairings -> PairingRow] BY <1>1 DEF Init, PairingRow
<1>5. TypeOK
  BY <1>1, <1>3, <1>4
  DEF Init, TypeOK, IdlePoll, IdleUnpair, ClaimRecord, PairingRow
<1>6. Holding BY PairingAssumption DEF Init, Holding, IdleClaim, IdlePoll, IdleUnpair
<1> QED BY <1>5, <1>6 DEF Typed

LEMMA TypedStep == Typed /\ [Next]_vars => Typed'
<1> SUFFICES ASSUME Typed, [Next]_vars PROVE Typed'
  OBVIOUS
<1>t. /\ pairing \in [Pairings -> PairingRow]
      /\ late \subseteq Pairings /\ code \subseteq Pairings
      /\ device \in [Devices -> DeviceStatus \cup {"none"}]
      /\ keys \in [Devices -> SUBSET Pairings]
      /\ agent \in [key : Generations, device : Devices \cup {None},
                    pairing : Pairings \cup {None}]
      /\ claim \in [Claimers -> ClaimRecord]
      /\ poll \in [pairing : Pairings \cup {None}, status : DeviceStatus \cup {"none"}]
      /\ unpair \in UnpairRecord
      /\ revoked \subseteq Devices
      /\ faults \in 0 .. MaxFaults
  BY DEF Typed, TypeOK, PairingRow, ClaimRecord, UnpairRecord
<1>h. Holding BY DEF Typed
<1>n. None \notin Pairings /\ None \notin Devices /\ None \notin Claimers
      /\ MaxFaults \in Nat
  BY PairingAssumption
<1>i. /\ IdleClaim \in ClaimRecord
      /\ IdlePoll \in [pairing : Pairings \cup {None}, status : DeviceStatus \cup {"none"}]
      /\ IdleUnpair \in UnpairRecord
      /\ IdleClaim.step = "idle" /\ IdlePoll.pairing = None /\ IdleUnpair.step = "idle"
  BY DEF IdleClaim, IdlePoll, IdleUnpair, ClaimRecord, UnpairRecord
<1> USE <1>t, <1>h, <1>n, <1>i DEF rows
\* Re-assembling Typed' from the parts.
<1>k. ASSUME pairing' \in [Pairings -> PairingRow],
             late' \subseteq Pairings, code' \subseteq Pairings,
             device' \in [Devices -> DeviceStatus \cup {"none"}],
             keys' \in [Devices -> SUBSET Pairings],
             agent' \in [key : Generations, device : Devices \cup {None},
                         pairing : Pairings \cup {None}],
             claim' \in [Claimers -> ClaimRecord],
             poll' \in [pairing : Pairings \cup {None}, status : DeviceStatus \cup {"none"}],
             unpair' \in UnpairRecord,
             revoked' \subseteq Devices, faults' \in 0 .. MaxFaults, Holding'
      PROVE  Typed'
  BY <1>k DEF Typed, TypeOK, PairingRow, ClaimRecord, UnpairRecord
<1>1. ASSUME NEW p \in Pairings, Start(p) PROVE Typed'
  <2>1. pairing' \in [Pairings -> PairingRow]
    <3>1. [pairing[p] EXCEPT !.status = "PENDING"] \in PairingRow
      BY DEF PairingRow, PairingStatus
    <3>2. [[pairing[p] EXCEPT !.status = "PENDING"] EXCEPT !.key = agent.key] \in PairingRow
      BY <3>1 DEF PairingRow
    <3> QED BY <1>1, <3>2 DEF Start
  <2>2. agent' \in [key : Generations, device : Devices \cup {None},
                    pairing : Pairings \cup {None}] BY <1>1 DEF Start
  <2>3. Holding' BY <1>1 DEF Start, Holding, PairingRow
  <2> QED BY <1>1, <2>1, <2>2, <2>3, <1>k DEF Start
<1>2. ASSUME NEW p \in Pairings, Expire(p) \/ CodeLapses(p) PROVE Typed'
  <2>1. CASE Expire(p) BY <2>1, <1>k DEF Expire, Holding
  <2>2. CASE CodeLapses(p) BY <2>2, <1>k DEF CodeLapses, Holding
  <2> QED BY <1>2, <2>1, <2>2
<1>3. ASSUME NEW c \in Claimers, NEW p \in Pairings, Consume(c, p) PROVE Typed'
  <2>1. [IdleClaim EXCEPT !.step = "consumed", !.pairing = p] \in ClaimRecord
    <3>1. [IdleClaim EXCEPT !.step = "consumed"] \in ClaimRecord BY DEF ClaimRecord
    <3> QED BY <3>1 DEF ClaimRecord
  <2>2. claim' \in [Claimers -> ClaimRecord] BY <1>3, <2>1 DEF Consume
  <2>3. Holding'
    <3>1. claim'[c].pairing = p /\ \A b \in Claimers \ {c} : claim'[b] = claim[b]
      BY <1>3 DEF Consume, IdleClaim
    <3> QED BY <1>3, <3>1 DEF Consume, Holding
  <2> QED BY <1>3, <2>2, <2>3, <1>k DEF Consume
<1>4. ASSUME NEW c \in Claimers, ClaimRefused(c) PROVE Typed'
  <2>1. claim' \in [Claimers -> ClaimRecord] BY <1>4 DEF ClaimRefused
  <2>2. claim[c].pairing \in Pairings BY <1>4 DEF ClaimRefused, Holding
  <2>3. pairing' \in [Pairings -> PairingRow]
    BY <1>4, <2>2 DEF ClaimRefused, PairingRow, PairingStatus
  <2>4. Holding'
    BY <1>4, <2>2 DEF ClaimRefused, Holding, PairingRow
  <2> QED BY <1>4, <2>1, <2>3, <2>4, <1>k DEF ClaimRefused
\* A claim that has read something more: its pairing stays, the others stay.
<1>c. ASSUME NEW c \in Claimers, NEW r \in ClaimRecord,
             r.pairing = claim[c].pairing, r.step = "loaded" => r.device \in Devices,
             claim[c].step # "idle", claim' = [claim EXCEPT ![c] = r],
             UNCHANGED <<rows, late, code, agent, poll, unpair, revoked, faults>>
      PROVE  Typed'
  <2>1. claim' \in [Claimers -> ClaimRecord] BY <1>c
  <2>2. claim'[c] = r /\ \A b \in Claimers \ {c} : claim'[b] = claim[b] BY <1>c
  <2>3. Holding' BY <1>c, <2>2 DEF Holding
  <2> QED BY <1>c, <2>1, <2>3, <1>k
<1>5. ASSUME NEW c \in Claimers, ClaimCheck(c) \/ ClaimLoad(c) \/ ClaimKeys(c)
      PROVE  Typed'
  <2>1. CASE ClaimCheck(c)
    <3> DEFINE r == [claim[c] EXCEPT !.step = "checked"]
    <3>1. r \in ClaimRecord BY DEF ClaimRecord
    <3>2. r.pairing = claim[c].pairing /\ r.step = "checked" BY DEF ClaimRecord
    <3> QED BY <2>1, <3>1, <3>2, <1>c DEF ClaimCheck
  <2>2. CASE ClaimLoad(c)
    <3>1. CASE claim' = [claim EXCEPT ![c].step = "keyed"]
      <4> DEFINE r == [claim[c] EXCEPT !.step = "keyed"]
      <4>1. r \in ClaimRecord BY DEF ClaimRecord
      <4>2. r.pairing = claim[c].pairing /\ r.step = "keyed" BY DEF ClaimRecord
      <4> QED BY <2>2, <3>1, <4>1, <4>2, <1>c DEF ClaimLoad
    <3>2. CASE \E d \in Rows :
                 claim' = [claim EXCEPT ![c].step = "loaded", ![c].device = d,
                                        ![c].status = device[d]]
      <4>1. PICK d \in Rows :
                 claim' = [claim EXCEPT ![c].step = "loaded", ![c].device = d,
                                        ![c].status = device[d]]
        BY <3>2
      <4> DEFINE r == [claim[c] EXCEPT !.step = "loaded", !.device = d, !.status = device[d]]
      <4>2. d \in Devices BY DEF Rows
      <4>3. claim' = [claim EXCEPT ![c] = r] BY <4>1 DEF ClaimRecord
      <4>4. r \in ClaimRecord
        <5> DEFINE r1 == [claim[c] EXCEPT !.step = "loaded"]
                   r2 == [r1 EXCEPT !.device = d]
        <5>1. r1 \in ClaimRecord BY DEF ClaimRecord
        <5>2. r2 \in ClaimRecord BY <5>1, <4>2 DEF ClaimRecord
        <5>3. device[d] \in DeviceStatus \cup {"none"} BY <4>2
        <5> QED BY <5>2, <5>3 DEF ClaimRecord
      <4>5. r.pairing = claim[c].pairing /\ r.device = d BY DEF ClaimRecord
      <4>6. claim[c].step # "idle" /\ UNCHANGED <<rows, late, code, agent, poll, unpair, revoked, faults>>
        BY <2>2 DEF ClaimLoad
      <4> HIDE DEF r
      <4> QED BY <4>2, <4>3, <4>4, <4>5, <4>6, <1>c
    <3> QED BY <2>2, <3>1, <3>2 DEF ClaimLoad
  <2>3. CASE ClaimKeys(c)
    <3>1. PICK w \in BOOLEAN :
            claim' = [claim EXCEPT ![c].step = "keyed", ![c].writes = w,
                                   ![c].keys = keys[claim[c].device]]
      BY <2>3 DEF ClaimKeys
    <3> DEFINE r == [claim[c] EXCEPT !.step = "keyed", !.writes = w,
                                     !.keys = keys[claim[c].device]]
    <3>2. claim[c].device \in Devices BY <2>3 DEF ClaimKeys, Holding
    <3>3. claim' = [claim EXCEPT ![c] = r] BY <3>1 DEF ClaimRecord
    <3>4. r \in ClaimRecord
      <4> DEFINE r1 == [claim[c] EXCEPT !.step = "keyed"]
                 r2 == [r1 EXCEPT !.writes = w]
      <4>1. r1 \in ClaimRecord BY DEF ClaimRecord
      <4> HIDE DEF r1
      <4>2. r2 \in ClaimRecord BY <4>1, ZenonT(20) DEF ClaimRecord
      <4>3. keys[claim[c].device] \in SUBSET Pairings BY <3>2
      <4> QED BY <4>2, <4>3 DEF ClaimRecord
    <3>5. r.pairing = claim[c].pairing /\ r.step = "keyed" BY DEF ClaimRecord
    <3> QED BY <2>3, <3>3, <3>4, <3>5, <1>c DEF ClaimKeys
  <2> QED BY <1>5, <2>1, <2>2, <2>3
<1>6. ASSUME NEW c \in Claimers, ClaimCommit(c) PROVE Typed'
  <2>0. claim[c].pairing \in Pairings BY <1>6 DEF ClaimCommit, Holding
  <2>1. PICK d \in Target(c) :
          /\ device' = [device EXCEPT ![d] = Flush(@, claim[c].status, "PENDING")]
          /\ keys' = [keys EXCEPT ![d] = (@ \ claim[c].keys) \cup {claim[c].pairing}]
          /\ pairing' = [pairing EXCEPT ![claim[c].pairing].status = "CLAIMED",
                                        ![claim[c].pairing].device = d]
          /\ revoked' = revoked \ {d}
    BY <1>6 DEF ClaimCommit
  <2>2. d \in Devices BY <2>1 DEF Target, ClaimRecord
  <2>3. device' \in [Devices -> DeviceStatus \cup {"none"}]
    BY <2>1, <2>2 DEF Flush, DeviceStatus
  <2>4. keys' \in [Devices -> SUBSET Pairings] BY <2>0, <2>1, <2>2
  <2>5. pairing' \in [Pairings -> PairingRow]
    BY <2>0, <2>1, <2>2 DEF PairingRow, PairingStatus
  <2>6. claim' \in [Claimers -> ClaimRecord] BY <1>6 DEF ClaimCommit
  <2>7. Holding'
    <3>1. \A q \in Pairings : pairing'[q].device = d \/ pairing'[q] = pairing[q]
      BY <2>0, <2>1 DEF PairingRow
    <3>2. \A b \in Claimers : claim'[b] = claim[b] \/ claim'[b] = IdleClaim
      BY <1>6 DEF ClaimCommit
    <3>3. UNCHANGED <<poll, unpair, agent, faults>> BY <1>6 DEF ClaimCommit
    <3> QED BY <2>2, <3>1, <3>2, <3>3 DEF Holding
  <2>8. revoked' \subseteq Devices BY <2>1
  <2> QED BY <1>6, <2>3, <2>4, <2>5, <2>6, <2>7, <2>8, <1>k DEF ClaimCommit
<1>7. ASSUME PollExpires PROVE Typed'
  <2>0. agent.pairing \in Pairings /\ poll = IdlePoll BY <1>7 DEF PollExpires, Polling
  <2>1. pairing' \in [Pairings -> PairingRow]
    BY <1>7, <2>0 DEF PollExpires, PairingRow, PairingStatus
  <2>2. agent' \in [key : Generations, device : Devices \cup {None},
                    pairing : Pairings \cup {None}] BY <1>7 DEF PollExpires
  <2>3. Holding' BY <1>7, <2>0 DEF PollExpires, Holding, PairingRow
  <2> QED BY <1>7, <2>1, <2>2, <2>3, <1>k DEF PollExpires
<1>9. ASSUME PollLoad PROVE Typed'
  <2>1. agent.pairing \in Pairings /\ Mine.device \in Devices
    BY <1>9 DEF PollLoad, Polling, Mine, Holding
  <2>2. poll' \in [pairing : Pairings \cup {None}, status : DeviceStatus \cup {"none"}]
        /\ poll'.pairing = agent.pairing
    BY <1>9, <2>1 DEF PollLoad
  <2>3. Holding' BY <1>9, <2>1, <2>2 DEF PollLoad, Holding, Mine
  <2> QED BY <1>9, <2>2, <2>3, <1>k DEF PollLoad
<1>10. ASSUME PollCommit PROVE Typed'
  <2>0. poll.pairing \in Pairings /\ pairing[poll.pairing].device \in Devices
    BY <1>10 DEF PollCommit, Holding
  <2>1. pairing' \in [Pairings -> PairingRow]
    BY <1>10, <2>0 DEF PollCommit, PairingRow, PairingStatus
  <2>2. device' \in [Devices -> DeviceStatus \cup {"none"}]
    BY <1>10, <2>0 DEF PollCommit, Flush, DeviceStatus
  <2>3. agent' \in [key : Generations, device : Devices \cup {None},
                    pairing : Pairings \cup {None}] BY <1>10, <2>0 DEF PollCommit
  <2>4. Holding' BY <1>10, <2>0 DEF PollCommit, Holding, PairingRow
  <2> QED BY <1>10, <2>1, <2>2, <2>3, <2>4, <1>k DEF PollCommit
<1>11. ASSUME UnpairKeys \/ \E d \in Devices : UnpairLoad(d) PROVE Typed'
  <2>1. unpair' \in UnpairRecord /\ unpair'.device \in Devices
    <3>1. CASE UnpairKeys
      <4>1. unpair.device \in Devices BY <3>1 DEF UnpairKeys, Holding
      <4> QED BY <3>1, <4>1 DEF UnpairKeys, UnpairRecord
    <3>2. CASE \E d \in Devices : UnpairLoad(d)
      <4>1. PICK d \in Devices : UnpairLoad(d) BY <3>2
      <4> DEFINE u1 == [IdleUnpair EXCEPT !.step = "loaded"]
                 u2 == [u1 EXCEPT !.device = d]
      <4>2. u1 \in UnpairRecord BY DEF UnpairRecord
      <4>3. u2 \in UnpairRecord /\ u2.device = d BY <4>2 DEF UnpairRecord
      <4>4. unpair' = [u2 EXCEPT !.status = device[d]] BY <4>1 DEF UnpairLoad
      <4>5. device[d] \in DeviceStatus \cup {"none"} OBVIOUS
      <4> HIDE DEF u1, u2
      <4> QED BY <4>3, <4>4, <4>5 DEF UnpairRecord
    <3> QED BY <1>11, <3>1, <3>2
  <2>2. UNCHANGED <<rows, late, code, agent, claim, poll, revoked, faults>>
    BY <1>11 DEF UnpairLoad, UnpairKeys
  <2>3. Holding' BY <2>1, <2>2 DEF Holding
  <2> QED BY <2>1, <2>2, <2>3, <1>k
<1>12. ASSUME UnpairCommit PROVE Typed'
  <2>0. unpair.device \in Devices BY <1>12 DEF UnpairCommit, Holding
  <2>1. device' \in [Devices -> DeviceStatus \cup {"none"}]
    BY <1>12, <2>0 DEF UnpairCommit, Flush, DeviceStatus
  <2>2. keys' \in [Devices -> SUBSET Pairings] BY <1>12, <2>0 DEF UnpairCommit
  <2>3. Holding' BY <1>12 DEF UnpairCommit, Holding
  <2> QED BY <1>12, <2>0, <2>1, <2>2, <2>3, <1>k DEF UnpairCommit
<1>13. ASSUME NeedsRepair \/ AgentRestart \/ AgentReset PROVE Typed'
  <2>1. faults' \in 0 .. MaxFaults
    BY <1>13 DEF NeedsRepair, AgentRestart, AgentReset, Fault
  <2>2. UNCHANGED <<pairing, device, keys, late, code, claim, poll, unpair, revoked>>
    BY <1>13 DEF NeedsRepair, AgentRestart, AgentReset
  <2>3. agent' \in [key : Generations, device : Devices \cup {None},
                    pairing : Pairings \cup {None}]
    <3>1. CASE NeedsRepair BY <3>1 DEF NeedsRepair
    <3>2. CASE AgentRestart BY <3>2 DEF AgentRestart
    <3>3. CASE AgentReset
      <4>1. agent.key + 1 \in Generations
        BY <3>3 DEF AgentReset, Fault, Generations, Holding
      <4> QED BY <3>3, <4>1 DEF AgentReset
    <3> QED BY <1>13, <3>1, <3>2, <3>3
  <2>4. agent'.key <= faults'
    <3>1. CASE NeedsRepair BY <3>1 DEF NeedsRepair, Holding
    <3>2. CASE AgentRestart BY <3>2 DEF AgentRestart, Fault, Holding, Generations
    <3>3. CASE AgentReset BY <3>3 DEF AgentReset, Fault, Holding, Generations
    <3> QED BY <1>13, <3>1, <3>2, <3>3
  <2>5. Holding' BY <2>2, <2>4 DEF Holding
  <2> QED BY <2>1, <2>2, <2>3, <2>5, <2>4, <1>k
<1>14. ASSUME ApiRestart PROVE Typed'
  <2>1. faults' \in 0 .. MaxFaults BY <1>14 DEF ApiRestart, Fault
  <2>2. agent' \in [key : Generations, device : Devices \cup {None},
                    pairing : Pairings \cup {None}] BY <1>14 DEF ApiRestart
  <2>3. claim' \in [Claimers -> ClaimRecord] /\ poll' = IdlePoll /\ unpair' = IdleUnpair
        /\ \A c \in Claimers : claim'[c] = IdleClaim
    BY <1>14 DEF ApiRestart
  <2>4. agent'.key <= faults' BY <1>14 DEF ApiRestart, Fault, Holding, Generations
  <2>5. Holding' BY <1>14, <2>3, <2>4 DEF ApiRestart, Holding
  <2> QED BY <1>14, <2>1, <2>2, <2>3, <2>5, <1>k DEF ApiRestart
<1>15. ASSUME UNCHANGED vars PROVE Typed'
  BY <1>15, <1>k DEF vars, Holding
<1>16. CASE \E p \in Pairings : Start(p) \/ Expire(p) \/ CodeLapses(p)
  BY <1>16, <1>1, <1>2
<1>17. CASE \E c \in Claimers : ClaimStep(c) \/ \E p \in Pairings : Consume(c, p)
  BY <1>17, <1>3, <1>4, <1>5, <1>6 DEF ClaimStep
<1>18. CASE UnpairKeys \/ UnpairCommit \/ \E d \in Devices : UnpairLoad(d)
  BY <1>18, <1>11, <1>12
<1> QED BY <1>7, <1>9, <1>10, <1>13, <1>14, <1>15, <1>16, <1>17, <1>18
        DEF Next, PollStep

\* The types of Pairing hold in every behaviour: a resumed claim, poll or
\* unpair always refers to rows that exist.
THEOREM TypeCorrect == Spec => []TypeOK
<1>1. Typed => TypeOK BY DEF Typed
<1> QED BY <1>1, TypedInit, TypedStep, PTL DEF Spec
-----------------------------------------------------------------------------
(* One use per code, and an active device has proved possession            *)

Open == {"PENDING", "EXPIRED"}

\* A code in Redis has not been used; a completing poll holds a claimed pairing.
CodeInv ==
  /\ CodeUsedOnce
  /\ \A p \in code : pairing[p].status \in Open
  /\ poll.pairing # None => pairing[poll.pairing].status = "CLAIMED"
  /\ ActiveOnlyAfterProof

\* Until its commit a claim stays with the pairing of its code.
LEMMA ClaimGoesOn ==
  ASSUME Typed, NEW c \in Claimers, ClaimCheck(c) \/ ClaimLoad(c) \/ ClaimKeys(c)
  PROVE  /\ claim[c].step # "idle"
         /\ \A b \in Claimers : claim'[b].pairing = claim[b].pairing
         /\ \A b \in Claimers : claim'[b].step # "idle" => claim[b].step # "idle"
<1>t. claim \in [Claimers -> ClaimRecord] BY DEF Typed, TypeOK, ClaimRecord
<1> USE <1>t
<1>1. CASE ClaimCheck(c) BY <1>1 DEF ClaimCheck, ClaimRecord
<1>2. CASE ClaimLoad(c)
  <2>0. claim[c].step # "idle" BY <1>2 DEF ClaimLoad
  <2>1. CASE claim' = [claim EXCEPT ![c].step = "keyed"]
    <3>1. claim'[c].pairing = claim[c].pairing BY <2>1 DEF ClaimRecord
    <3>2. \A b \in Claimers \ {c} : claim'[b] = claim[b] BY <2>1
    <3> QED BY <2>0, <3>1, <3>2
  <2>2. ASSUME NEW d \in Rows,
               claim' = [claim EXCEPT ![c].step = "loaded", ![c].device = d,
                                      ![c].status = device[d]]
        PROVE  /\ \A b \in Claimers : claim'[b].pairing = claim[b].pairing
               /\ \A b \in Claimers : claim'[b].step # "idle" => claim[b].step # "idle"
    <3>1. claim'[c].pairing = claim[c].pairing BY <2>2 DEF ClaimRecord
    <3>2. \A b \in Claimers \ {c} : claim'[b] = claim[b] BY <2>2
    <3> QED BY <2>0, <3>1, <3>2
  <2>3. \/ claim' = [claim EXCEPT ![c].step = "keyed"]
        \/ \E d \in Rows : claim' = [claim EXCEPT ![c].step = "loaded", ![c].device = d,
                                                  ![c].status = device[d]]
    BY <1>2, Zenon DEF ClaimLoad
  <2>4. CASE \E d \in Rows : claim' = [claim EXCEPT ![c].step = "loaded", ![c].device = d,
                                                    ![c].status = device[d]]
    <3>1. PICK d \in Rows : claim' = [claim EXCEPT ![c].step = "loaded", ![c].device = d,
                                                  ![c].status = device[d]]
      BY <2>4
    <3> QED BY <2>0, <2>2, <3>1
  <2> QED BY <2>0, <2>1, <2>3, <2>4
<1>3. CASE ClaimKeys(c)
  <2>0. claim[c].step # "idle" BY <1>3 DEF ClaimKeys
  <2>1. PICK writes \in BOOLEAN :
          claim' = [claim EXCEPT ![c].step = "keyed", ![c].writes = writes,
                                 ![c].keys = keys[claim[c].device]]
    BY <1>3 DEF ClaimKeys
  <2>2. claim'[c].pairing = claim[c].pairing BY <2>1 DEF ClaimRecord
  <2>3. \A b \in Claimers \ {c} : claim'[b] = claim[b] BY <2>1
  <2> QED BY <2>0, <2>2, <2>3
<1> QED BY <1>1, <1>2, <1>3

LEMMA CodeInit == Init => CodeInv
BY DEF Init, CodeInv, CodeUsedOnce, ActiveOnlyAfterProof, Claiming, IdleClaim, IdlePoll

LEMMA CodeStep == Typed /\ CodeInv /\ [Next]_vars => CodeInv'
<1> SUFFICES ASSUME Typed, CodeInv, [Next]_vars PROVE CodeInv'
  OBVIOUS
<1>t. /\ pairing \in [Pairings -> PairingRow]
      /\ device \in [Devices -> DeviceStatus \cup {"none"}]
      /\ claim \in [Claimers -> ClaimRecord]
      /\ code \subseteq Pairings
      /\ poll.pairing \in Pairings \cup {None}
      /\ agent.pairing \in Pairings \cup {None}
  BY DEF Typed, TypeOK, PairingRow, ClaimRecord, UnpairRecord
<1>h. Holding BY DEF Typed
<1>n. None \notin Pairings /\ None \notin Devices BY PairingAssumption
<1>u. /\ \A p \in Pairings, c \in Claimers :
           claim[c].step # "idle" /\ claim[c].pairing = p =>
             /\ p \notin code /\ pairing[p].status \in Open
             /\ \A b \in Claimers :
                  claim[b].step # "idle" /\ claim[b].pairing = p => b = c
      /\ \A p \in code : pairing[p].status \in Open
      /\ poll.pairing # None => pairing[poll.pairing].status = "CLAIMED"
      /\ \A d \in Devices : device[d] = "ACTIVE" =>
           \E p \in Pairings : pairing[p].status = "COMPLETED" /\ pairing[p].device = d
  BY DEF CodeInv, CodeUsedOnce, ActiveOnlyAfterProof, Claiming, Open
<1> USE <1>t, <1>h, <1>n, <1>u
\* Re-assembling CodeInv' from the parts.
<1>k. ASSUME \A p \in Pairings, c \in Claimers :
               claim'[c].step # "idle" /\ claim'[c].pairing = p =>
                 /\ p \notin code' /\ pairing'[p].status \in Open
                 /\ \A b \in Claimers :
                      claim'[b].step # "idle" /\ claim'[b].pairing = p => b = c,
             \A p \in code' : pairing'[p].status \in Open,
             poll'.pairing # None => pairing'[poll'.pairing].status = "CLAIMED",
             \A d \in Devices : device'[d] = "ACTIVE" =>
               \E p \in Pairings : pairing'[p].status = "COMPLETED" /\ pairing'[p].device = d
      PROVE  CodeInv'
  BY <1>k DEF CodeInv, CodeUsedOnce, ActiveOnlyAfterProof, Claiming, Open
<1>1. ASSUME NEW p \in Pairings, Start(p) PROVE CodeInv'
  <2>1. /\ pairing[p].status = "none" /\ pairing'[p].status = "PENDING"
        /\ \A q \in Pairings \ {p} : pairing'[q] = pairing[q]
    BY <1>1 DEF Start, PairingRow
  <2>2. code' = code \cup {p} /\ UNCHANGED <<claim, poll, device>> BY <1>1 DEF Start
  <2> QED BY <2>1, <2>2, <1>k DEF Open
<1>2. ASSUME UNCHANGED <<pairing, device, claim, poll>>, code' \subseteq code PROVE CodeInv'
  BY <1>2, <1>k
<1>3. ASSUME NEW c \in Claimers, NEW p \in Pairings, Consume(c, p) PROVE CodeInv'
  <2>1. /\ p \in code /\ code' = code \ {p} /\ claim'[c].pairing = p
        /\ \A b \in Claimers \ {c} : claim'[b] = claim[b]
        /\ UNCHANGED <<pairing, poll, device>>
    BY <1>3 DEF Consume, IdleClaim, rows
  <2> QED BY <2>1, <1>k
<1>4. ASSUME NEW c \in Claimers, ClaimRefused(c) PROVE CodeInv'
  <2>1. claim[c].pairing \in Pairings /\ pairing[claim[c].pairing].status \in Open
    BY <1>4 DEF ClaimRefused, Holding
  <2>2. \A q \in Pairings : pairing'[q] = pairing[q] \/
          (pairing[q].status \in Open /\ pairing'[q].status \in Open)
    BY <1>4, <2>1 DEF ClaimRefused, Open, PairingRow
  <2>3. \A q \in Pairings : pairing'[q].device = pairing[q].device
    BY <1>4, <2>1 DEF ClaimRefused, PairingRow
  <2>4. /\ claim'[c].step = "idle" /\ UNCHANGED <<code, poll, device>>
        /\ \A b \in Claimers \ {c} : claim'[b] = claim[b]
    BY <1>4 DEF ClaimRefused, IdleClaim
  <2> QED BY <2>2, <2>3, <2>4, <1>k DEF Open
<1>5. ASSUME NEW c \in Claimers, ClaimCheck(c) \/ ClaimLoad(c) \/ ClaimKeys(c)
      PROVE  CodeInv'
  <2>1. /\ \A b \in Claimers : claim'[b].pairing = claim[b].pairing
        /\ \A b \in Claimers : claim'[b].step # "idle" => claim[b].step # "idle"
    BY <1>5, ClaimGoesOn
  <2>2. UNCHANGED <<pairing, code, poll, device>>
    BY <1>5 DEF ClaimCheck, ClaimLoad, ClaimKeys, rows
  <2> QED BY <2>1, <2>2, <1>k
<1>6. ASSUME NEW c \in Claimers, ClaimCommit(c) PROVE CodeInv'
  <2>0. claim[c].pairing \in Pairings BY <1>6 DEF ClaimCommit, Holding
  <2> DEFINE p == claim[c].pairing
  <2>1. PICK d \in Target(c) :
          /\ device' = [device EXCEPT ![d] = Flush(@, claim[c].status, "PENDING")]
          /\ pairing' = [pairing EXCEPT ![p].status = "CLAIMED", ![p].device = d]
    BY <1>6 DEF ClaimCommit
  <2>2. \A q \in Pairings \ {p} : pairing'[q] = pairing[q] BY <2>1, <2>0
  <2>3. pairing[p].status \in Open /\ p \notin code
        /\ \A b \in Claimers : claim[b].step # "idle" /\ claim[b].pairing = p => b = c
    BY <1>6, <2>0 DEF ClaimCommit
  <2>4. /\ claim'[c].step = "idle" /\ UNCHANGED <<code, poll>>
        /\ \A b \in Claimers \ {c} : claim'[b] = claim[b]
    BY <1>6 DEF ClaimCommit, IdleClaim
  <2>5. \A e \in Devices : device'[e] = "ACTIVE" => device[e] = "ACTIVE"
    BY <2>1 DEF Flush
  <2>6. poll.pairing # p BY <2>3, <2>0 DEF Open
  <2>7. \A q \in Pairings : pairing[q].status = "COMPLETED" => pairing'[q] = pairing[q]
    BY <2>2, <2>3 DEF Open
  <2>8. \A q \in Pairings, b \in Claimers :
          claim'[b].step # "idle" /\ claim'[b].pairing = q =>
            q # p /\ claim[b].step # "idle" /\ claim[b].pairing = q
    BY <2>3, <2>4
  <2>9. \A b \in Claimers : claim'[b].step # "idle" => claim'[b] = claim[b]
    BY <2>4
  <2>10. \A q \in Pairings, b \in Claimers :
           claim'[b].step # "idle" /\ claim'[b].pairing = q =>
             /\ q \notin code' /\ pairing'[q].status \in Open
             /\ \A a \in Claimers :
                  claim'[a].step # "idle" /\ claim'[a].pairing = q => a = b
    BY <2>2, <2>4, <2>8, <2>9
  <2>11. \A q \in code' : pairing'[q].status \in Open BY <2>2, <2>3, <2>4
  <2>12. poll'.pairing # None => pairing'[poll'.pairing].status = "CLAIMED"
    BY <2>2, <2>4, <2>6
  <2>13. \A e \in Devices : device'[e] = "ACTIVE" =>
           \E q \in Pairings : pairing'[q].status = "COMPLETED" /\ pairing'[q].device = e
    BY <2>5, <2>7
  <2> QED BY <2>10, <2>11, <2>12, <2>13, <1>k
<1>7. ASSUME PollExpires PROVE CodeInv'
  <2>1. /\ agent.pairing \in Pairings /\ poll.pairing = None
        /\ pairing[agent.pairing].status # "COMPLETED"
    BY <1>7 DEF PollExpires, Polling, Mine, IdlePoll
  <2>2. /\ pairing'[agent.pairing].status = "EXPIRED"
        /\ \A q \in Pairings \ {agent.pairing} : pairing'[q] = pairing[q]
        /\ UNCHANGED <<code, claim, poll, device>>
    BY <1>7, <2>1 DEF PollExpires, PairingRow
  <2> QED BY <2>1, <2>2, <1>k DEF Open
<1>8. ASSUME PollLoad PROVE CodeInv'
  <2>1. /\ UNCHANGED <<pairing, code, claim, device>>
        /\ pairing[poll'.pairing].status = "CLAIMED"
    BY <1>8 DEF PollLoad, Mine, rows
  <2> QED BY <2>1, <1>k
<1>9. ASSUME PollCommit PROVE CodeInv'
  <2> DEFINE p == poll.pairing
  <2>0. p \in Pairings /\ pairing[p].device \in Devices /\ pairing[p].status = "CLAIMED"
    BY <1>9 DEF PollCommit, Holding
  <2>1. /\ pairing'[p].status = "COMPLETED" /\ pairing'[p].device = pairing[p].device
        /\ \A q \in Pairings \ {p} : pairing'[q] = pairing[q]
    BY <1>9, <2>0 DEF PollCommit, PairingRow
  <2>2. \A d \in Devices : device'[d] = "ACTIVE" =>
          device[d] = "ACTIVE" \/ d = pairing[p].device
    BY <1>9, <2>0 DEF PollCommit
  <2>3. UNCHANGED <<code, claim>> /\ poll'.pairing = None
    BY <1>9 DEF PollCommit, IdlePoll
  <2>4. \A d \in Devices : device'[d] = "ACTIVE" =>
          \E q \in Pairings : pairing'[q].status = "COMPLETED" /\ pairing'[q].device = d
    BY <2>0, <2>1, <2>2
  <2>5. \A q \in Pairings : pairing[q].status \in Open => pairing'[q] = pairing[q]
    BY <2>0, <2>1 DEF Open
  <2> QED BY <2>3, <2>4, <2>5, <1>k
<1>10. ASSUME UnpairCommit PROVE CodeInv'
  <2>1. \A d \in Devices : device'[d] = "ACTIVE" => device[d] = "ACTIVE"
    BY <1>10 DEF UnpairCommit, Flush, Holding
  <2> QED BY <1>10, <2>1, <1>k DEF UnpairCommit
<1>11. ASSUME ApiRestart PROVE CodeInv'
  <2>1. /\ \A c \in Claimers : claim'[c].step = "idle"
        /\ poll'.pairing = None /\ UNCHANGED <<pairing, device, code>>
    BY <1>11 DEF ApiRestart, IdleClaim, IdlePoll, rows
  <2> QED BY <2>1, <1>k
<1>12. ASSUME \/ NeedsRepair \/ AgentRestart \/ AgentReset
              \/ UnpairKeys \/ \E d \in Devices : UnpairLoad(d)
              \/ \E p \in Pairings : Expire(p) \/ CodeLapses(p)
              \/ UNCHANGED vars
       PROVE CodeInv'
  <2>1. UNCHANGED <<pairing, device, claim, poll>> /\ code' \subseteq code
    BY <1>12 DEF NeedsRepair, AgentRestart, AgentReset, UnpairLoad,
                 UnpairKeys, Expire, CodeLapses, vars, rows
  <2> QED BY <2>1, <1>2
<1>13. CASE \E p \in Pairings : Start(p) \/ Expire(p) \/ CodeLapses(p)
  BY <1>13, <1>1, <1>12
<1>14. CASE \E c \in Claimers : ClaimStep(c) \/ \E p \in Pairings : Consume(c, p)
  BY <1>14, <1>3, <1>4, <1>5, <1>6 DEF ClaimStep
<1>15. CASE PollStep BY <1>15, <1>7, <1>8, <1>9, <1>12 DEF PollStep
<1>16. CASE UnpairKeys \/ UnpairCommit \/ \E d \in Devices : UnpairLoad(d)
  BY <1>16, <1>10, <1>12
<1> QED BY <1>11, <1>12, <1>13, <1>14, <1>15, <1>16 DEF Next

\* A code is in the hands of at most one claim and is used at most once,
\* however many requests bring it, and whatever restarts fall in between.
THEOREM CodeOnce == Spec => []CodeUsedOnce
<1>1. CodeInv => CodeUsedOnce BY DEF CodeInv
<1> QED BY <1>1, TypedInit, TypedStep, CodeInit, CodeStep, PTL DEF Spec

\* No interleaving of claims, polls, unpairs and restarts makes a device active
\* that did not complete a pairing.
THEOREM ProofBeforeActive == Spec => []ActiveOnlyAfterProof
<1>1. CodeInv => ActiveOnlyAfterProof BY DEF CodeInv
<1> QED BY <1>1, TypedInit, TypedStep, CodeInit, CodeStep, PTL DEF Spec
-----------------------------------------------------------------------------
(* One claim at a time: what claim_device promises about keys and rows     *)

OneClaimer == \A b, c \in Claimers : b = c

\* While the only claim in flight holds what it read, nobody else makes a row or
\* a key; a row that some request has read is there for good.
SerialInv ==
  /\ OneActiveKey /\ NoDuplicateDevice
  /\ \A d \in Devices \ Rows : keys[d] = {}
  /\ \A c \in Claimers : claim[c].step = "loaded" => claim[c].device \in Rows
  /\ \A c \in Claimers : claim[c].step = "keyed" =>
       \/ /\ claim[c].device \in Rows
          /\ keys[claim[c].device] \subseteq claim[c].keys
       \/ claim[c].device = None /\ Rows = {}
  /\ \A c \in Claimers : claim[c].device = None => claim[c].status = "none"
  /\ \A c \in Claimers : claim[c].step \in {"consumed", "checked"} => claim[c].device = None
  /\ \A p \in Pairings : pairing[p].device \in Rows \cup {None}
  /\ unpair.step # "idle" => unpair.device \in Rows

LEMMA SerialInit == Init => SerialInv
BY DEF Init, SerialInv, OneActiveKey, NoDuplicateDevice, Rows, IdleClaim, IdleUnpair

LEMMA SerialStep == OneClaimer /\ Typed /\ SerialInv /\ [Next]_vars => SerialInv'
<1> SUFFICES ASSUME OneClaimer, Typed, SerialInv, [Next]_vars PROVE SerialInv'
  OBVIOUS
<1>t. /\ pairing \in [Pairings -> PairingRow]
      /\ device \in [Devices -> DeviceStatus \cup {"none"}]
      /\ keys \in [Devices -> SUBSET Pairings]
      /\ claim \in [Claimers -> ClaimRecord]
      /\ poll.pairing \in Pairings \cup {None}
      /\ agent.pairing \in Pairings \cup {None}
  BY DEF Typed, TypeOK, PairingRow, ClaimRecord, UnpairRecord
<1>h. Holding BY DEF Typed
<1>n. None \notin Pairings /\ None \notin Devices BY PairingAssumption
<1>r. Rows \subseteq Devices BY DEF Rows
<1> USE <1>t, <1>h, <1>n, <1>r
\* A step that leaves the rows there are, adds no key, and leaves what a claim
\* holds or drops it.
<1>k. ASSUME Rows' = Rows, \A d \in Devices : keys'[d] \subseteq keys[d],
             \A c \in Claimers : claim'[c] \in {claim[c], IdleClaim},
             \A p \in Pairings : pairing'[p].device = pairing[p].device,
             unpair'.step # "idle" => unpair'.device \in Rows
      PROVE  SerialInv'
  <2>1. OneActiveKey' BY <1>k DEF SerialInv, OneActiveKey
  <2>2. NoDuplicateDevice' BY <1>k DEF SerialInv, NoDuplicateDevice
  <2>3. \A d \in Devices \ Rows' : keys'[d] = {} BY <1>k DEF SerialInv
  <2>4. \A c \in Claimers : claim'[c].step = "keyed" =>
          \/ /\ claim'[c].device \in Rows'
             /\ keys'[claim'[c].device] \subseteq claim'[c].keys
          \/ claim'[c].device = None /\ Rows' = {}
    BY <1>k DEF SerialInv, IdleClaim
  <2>5. /\ \A c \in Claimers : claim'[c].device = None => claim'[c].status = "none"
        /\ \A c \in Claimers :
             claim'[c].step \in {"consumed", "checked"} => claim'[c].device = None
        /\ \A c \in Claimers : claim'[c].step = "loaded" => claim'[c].device \in Rows'
    BY <1>k DEF SerialInv, IdleClaim
  <2> QED BY <1>k, <2>1, <2>2, <2>3, <2>4, <2>5 DEF SerialInv
<1>1. ASSUME NEW p \in Pairings, Start(p) PROVE SerialInv'
  <2>1. \A q \in Pairings : pairing'[q].device = pairing[q].device
    BY <1>1 DEF Start, PairingRow
  <2> QED BY <1>1, <2>1, <1>k DEF Start, Rows, SerialInv
<1>2. ASSUME NEW c \in Claimers, NEW p \in Pairings, Consume(c, p) PROVE SerialInv'
  <2>1. /\ claim'[c].step = "consumed" /\ claim'[c].device = None
        /\ claim'[c].status = "none"
    BY <1>2 DEF Consume, IdleClaim
  <2>2. \A b \in Claimers : b = c BY DEF OneClaimer
  <2>3. UNCHANGED <<pairing, device, keys, unpair>> BY <1>2 DEF Consume, rows
  <2> QED BY <2>1, <2>2, <2>3 DEF SerialInv, OneActiveKey, NoDuplicateDevice, Rows
<1>3. ASSUME NEW c \in Claimers, ClaimRefused(c) PROVE SerialInv'
  <2>1. claim[c].pairing \in Pairings BY <1>3 DEF ClaimRefused, Holding
  <2>2. \A q \in Pairings : pairing'[q].device = pairing[q].device
    BY <1>3, <2>1 DEF ClaimRefused, PairingRow
  <2>3. \A b \in Claimers : claim'[b] \in {claim[b], IdleClaim}
    BY <1>3 DEF ClaimRefused
  <2> QED BY <1>3, <2>2, <2>3, <1>k DEF ClaimRefused, Rows, SerialInv
\* What the only claim holds once it has read something more.
<1>c. ASSUME NEW c \in Claimers,
             UNCHANGED <<pairing, device, keys, unpair>>,
             \/ /\ claim'[c].step = "checked" /\ claim'[c].device = None
                /\ claim'[c].status = "none"
             \/ claim'[c].step = "loaded" /\ claim'[c].device \in Rows
             \/ /\ claim'[c].step = "keyed" /\ claim'[c].device \in Rows
                /\ keys[claim'[c].device] \subseteq claim'[c].keys
             \/ /\ claim'[c].step = "keyed" /\ claim'[c].device = None
                /\ claim'[c].status = "none" /\ Rows = {}
      PROVE  SerialInv'
  <2>1. \A b \in Claimers : b = c BY DEF OneClaimer
  <2>2. Rows' = Rows BY <1>c DEF Rows
  <2> QED BY <1>c, <2>1, <2>2 DEF SerialInv, OneActiveKey, NoDuplicateDevice
<1>4. ASSUME NEW c \in Claimers, ClaimCheck(c) \/ ClaimLoad(c) \/ ClaimKeys(c)
      PROVE  SerialInv'
  <2>0. UNCHANGED <<pairing, device, keys, unpair>>
    BY <1>4 DEF ClaimCheck, ClaimLoad, ClaimKeys, rows
  <2>1. CASE ClaimCheck(c)
    <3>1. claim[c].device = None /\ claim[c].status = "none"
      BY <2>1 DEF ClaimCheck, SerialInv
    <3>2. /\ claim'[c].step = "checked" /\ claim'[c].device = claim[c].device
          /\ claim'[c].status = claim[c].status
      BY <2>1 DEF ClaimCheck, ClaimRecord
    <3> QED BY <2>0, <3>1, <3>2, <1>c
  <2>2. CASE ClaimLoad(c)
    <3>1. claim[c].device = None /\ claim[c].status = "none"
      BY <2>2 DEF ClaimLoad, SerialInv
    <3>2. \/ /\ claim'[c].step = "keyed" /\ claim'[c].device = claim[c].device
             /\ claim'[c].status = claim[c].status /\ Rows = {}
          \/ claim'[c].step = "loaded" /\ claim'[c].device \in Rows
      <4>1. CASE Rows = {} /\ claim' = [claim EXCEPT ![c].step = "keyed"]
        BY <4>1 DEF ClaimRecord
      <4>2. CASE \E d \in Rows :
                   claim' = [claim EXCEPT ![c].step = "loaded", ![c].device = d,
                                          ![c].status = device[d]]
        <5>1. PICK d \in Rows :
                   claim' = [claim EXCEPT ![c].step = "loaded", ![c].device = d,
                                          ![c].status = device[d]]
          BY <4>2
        <5>2. claim'[c].step = "loaded" /\ claim'[c].device = d BY <5>1 DEF ClaimRecord
        <5> QED BY <5>2
      <4> QED BY <2>2, <4>1, <4>2 DEF ClaimLoad
    <3> QED BY <2>0, <3>1, <3>2, <1>c
  <2>3. CASE ClaimKeys(c)
    <3>1. claim[c].device \in Rows BY <2>3 DEF ClaimKeys, SerialInv
    <3>2. /\ claim'[c].step = "keyed" /\ claim'[c].device = claim[c].device
          /\ claim'[c].keys = keys[claim[c].device]
      BY <2>3 DEF ClaimKeys, ClaimRecord
    <3> QED BY <2>0, <3>1, <3>2, <1>c
  <2> QED BY <1>4, <2>1, <2>2, <2>3
<1>5. ASSUME NEW c \in Claimers, ClaimCommit(c) PROVE SerialInv'
  <2>0. claim[c].pairing \in Pairings /\ claim[c].step = "keyed"
    BY <1>5 DEF ClaimCommit, Holding
  <2> DEFINE p == claim[c].pairing
  <2>1. PICK d \in Target(c) :
          /\ device' = [device EXCEPT ![d] = Flush(@, claim[c].status, "PENDING")]
          /\ keys' = [keys EXCEPT ![d] = (@ \ claim[c].keys) \cup {p}]
          /\ pairing' = [pairing EXCEPT ![p].status = "CLAIMED", ![p].device = d]
    BY <1>5 DEF ClaimCommit
  <2>2. d \in Devices BY <2>1 DEF Target, ClaimRecord
  \* The keys the row still has are exactly the ones the claim revokes.
  <2>3. /\ keys[d] \subseteq claim[c].keys \/ keys[d] = {}
        /\ Rows' = Rows \cup {d}
        /\ d \in Rows \/ Rows = {}
    <3>1. CASE claim[c].device \in Rows
      <4>1. d = claim[c].device BY <3>1, <2>1 DEF Target
      <4>2. keys[d] \subseteq claim[c].keys BY <2>0, <3>1, <4>1 DEF SerialInv
      <4>3. device'[d] # "none" BY <2>1, <2>2, <3>1, <4>1 DEF Flush, Rows
      <4> QED BY <2>1, <2>2, <3>1, <4>1, <4>2, <4>3 DEF Rows
    <3>2. CASE claim[c].device = None /\ Rows = {}
      <4>1. keys[d] = {} BY <2>2, <3>2 DEF SerialInv
      <4>2. claim[c].status = "none" BY <3>2 DEF SerialInv
      <4>3. device'[d] # "none" BY <2>1, <2>2, <4>2 DEF Flush
      <4> QED BY <2>1, <2>2, <3>2, <4>1, <4>3 DEF Rows
    <3> QED BY <2>0, <3>1, <3>2 DEF SerialInv
  <2>4. keys'[d] = {p} /\ \A e \in Devices \ {d} : keys'[e] = keys[e]
    BY <2>1, <2>2, <2>3
  <2>5. claim'[c] = IdleClaim /\ UNCHANGED unpair BY <1>5 DEF ClaimCommit
  <2>6. OneActiveKey' BY <2>4 DEF SerialInv, OneActiveKey
  <2>7. NoDuplicateDevice' BY <2>3 DEF SerialInv, NoDuplicateDevice
  <2>8. \A e \in Devices \ Rows' : keys'[e] = {} BY <2>3, <2>4 DEF SerialInv
  <2>9. \A q \in Pairings : pairing'[q].device \in Rows' \cup {None}
    <3>1. \A q \in Pairings : pairing'[q].device \in {pairing[q].device, d}
      BY <2>0, <2>1 DEF PairingRow
    <3> QED BY <2>3, <3>1 DEF SerialInv
  <2>10. unpair'.step # "idle" => unpair'.device \in Rows'
    BY <2>3, <2>5 DEF SerialInv
  <2>11. \A b \in Claimers : claim'[b] = IdleClaim BY <2>5 DEF OneClaimer
  <2>12. \A b \in Claimers : /\ claim'[b].step = "idle"
                             /\ claim'[b].device = None /\ claim'[b].status = "none"
    BY <2>11 DEF IdleClaim
  <2> QED BY <2>6, <2>7, <2>8, <2>9, <2>10, <2>12 DEF SerialInv
<1>6. ASSUME PollExpires PROVE SerialInv'
  <2>1. agent.pairing \in Pairings BY <1>6 DEF PollExpires, Polling
  <2>2. \A q \in Pairings : pairing'[q].device = pairing[q].device
    BY <1>6, <2>1 DEF PollExpires, PairingRow
  <2> QED BY <1>6, <2>2, <1>k DEF PollExpires, Rows, SerialInv
<1>7. ASSUME PollCommit PROVE SerialInv'
  <2>0. /\ poll.pairing \in Pairings
        /\ pairing[poll.pairing].device \in Rows
    BY <1>7 DEF PollCommit, Holding, SerialInv
  <2>1. \A q \in Pairings : pairing'[q].device = pairing[q].device
    BY <1>7, <2>0 DEF PollCommit, PairingRow
  <2>2. Rows' = Rows BY <1>7, <2>0 DEF PollCommit, Rows, Flush
  <2> QED BY <1>7, <2>1, <2>2, <1>k DEF PollCommit, SerialInv
<1>8. ASSUME UnpairCommit PROVE SerialInv'
  <2>0. unpair.device \in Rows BY <1>8 DEF UnpairCommit, SerialInv
  <2>1. Rows' = Rows BY <1>8, <2>0 DEF UnpairCommit, Rows, Flush
  <2>2. \A d \in Devices : keys'[d] \subseteq keys[d] BY <1>8, <2>0 DEF UnpairCommit
  <2>3. unpair'.step = "idle" /\ UNCHANGED <<pairing, claim>>
    BY <1>8 DEF UnpairCommit, IdleUnpair
  <2> QED BY <2>1, <2>2, <2>3, <1>k
<1>9. ASSUME UnpairKeys \/ \E d \in Devices : UnpairLoad(d) PROVE SerialInv'
  <2>1. UNCHANGED <<pairing, device, keys, claim>> BY <1>9 DEF UnpairLoad, UnpairKeys, rows
  <2>2. unpair'.device \in Rows
    <3>1. CASE UnpairKeys
      <4>1. unpair.device \in Rows BY <3>1 DEF UnpairKeys, SerialInv
      <4>2. unpair'.device = unpair.device
        BY <3>1 DEF UnpairKeys, Typed, TypeOK
      <4> QED BY <4>1, <4>2
    <3>2. CASE \E d \in Devices : UnpairLoad(d)
      BY <3>2 DEF UnpairLoad, IdleUnpair
    <3> QED BY <1>9, <3>1, <3>2
  <2> QED BY <2>1, <2>2, <1>k DEF Rows
<1>10. ASSUME ApiRestart PROVE SerialInv'
  BY <1>10, <1>k DEF ApiRestart, IdleUnpair, Rows, rows
<1>11. ASSUME \/ NeedsRepair \/ AgentRestart \/ AgentReset \/ PollLoad
              \/ \E p \in Pairings : Expire(p) \/ CodeLapses(p)
              \/ UNCHANGED vars
       PROVE SerialInv'
  <2>1. UNCHANGED <<pairing, device, keys, claim, unpair>>
    BY <1>11 DEF NeedsRepair, AgentRestart, AgentReset, PollLoad,
                 Expire, CodeLapses, vars, rows
  <2> QED BY <2>1, <1>k DEF Rows, SerialInv
<1>12. CASE \E p \in Pairings : Start(p) \/ Expire(p) \/ CodeLapses(p)
  BY <1>12, <1>1, <1>11
<1>13. CASE \E c \in Claimers : ClaimStep(c) \/ \E p \in Pairings : Consume(c, p)
  BY <1>13, <1>2, <1>3, <1>4, <1>5 DEF ClaimStep
<1>14. CASE PollStep BY <1>14, <1>6, <1>7, <1>11 DEF PollStep
<1>15. CASE UnpairKeys \/ UnpairCommit \/ \E d \in Devices : UnpairLoad(d)
  BY <1>15, <1>8, <1>9
<1> QED BY <1>10, <1>11, <1>12, <1>13, <1>14, <1>15 DEF Next

\* With one claim at a time a re-pairing leaves one active key, and hardware has
\* one row, for any number of pairings, unpairs in between and restarts. The run
\* that races two claims shows that the condition is needed.
THEOREM SerialClaims == OneClaimer => (Spec => [](OneActiveKey /\ NoDuplicateDevice))
<1> SUFFICES ASSUME OneClaimer PROVE Spec => [](OneActiveKey /\ NoDuplicateDevice)
  OBVIOUS
<1>1. Typed /\ SerialInv /\ [Next]_vars => SerialInv' BY SerialStep
<1>2. SerialInv => OneActiveKey /\ NoDuplicateDevice BY DEF SerialInv
<1> QED BY <1>1, <1>2, TypedInit, TypedStep, SerialInit, PTL DEF Spec
-----------------------------------------------------------------------------
(* What makes an unpair final                                              *)

\* Every claim of a known device changes its row, and so takes its lock: the
\* exception is one that finds the row PENDING, with the alias it was given.
EveryClaimWrites ==
  \A c \in Claimers :
    claim[c].step = "keyed" /\ claim[c].device # None => claim[c].writes

\* delete_device (docs/device-registration.md: "unpairing/deleting a device
\* revokes its key; later signed requests fail").
UnpairedHasNoKey == \A d \in revoked : keys[d] = {}

\* From the moment an unpair has read the keys of a row until its commit, no
\* claim of that row is between its own read and its commit.
Final ==
  /\ UnpairedHasNoKey
  /\ unpair.step # "idle" => unpair.device \in Rows
  /\ unpair.step = "keyed" =>
       /\ keys[unpair.device] \subseteq unpair.keys
       /\ \A c \in Claimers : claim[c].writes => claim[c].device # unpair.device
  /\ \A c \in Claimers : claim[c].writes => claim[c].step = "keyed"

LEMMA FinalInit == Init => Final
BY DEF Init, Final, UnpairedHasNoKey, IdleClaim, IdleUnpair

LEMMA FinalStep == Typed /\ EveryClaimWrites /\ Final /\ [Next]_vars => Final'
<1> SUFFICES ASSUME Typed, EveryClaimWrites, Final, [Next]_vars PROVE Final'
  OBVIOUS
<1>t. /\ device \in [Devices -> DeviceStatus \cup {"none"}]
      /\ keys \in [Devices -> SUBSET Pairings] /\ claim \in [Claimers -> ClaimRecord]
      /\ unpair \in UnpairRecord /\ revoked \subseteq Devices
  BY DEF Typed, TypeOK, ClaimRecord, UnpairRecord
<1>h. Holding BY DEF Typed
\* Steps that leave keys, rows and unpairs alone.
<1>k. ASSUME UNCHANGED <<keys, unpair, revoked>>, Rows \subseteq Rows',
             \A c \in Claimers : claim'[c].writes =>
               /\ claim'[c].step = "keyed"
               /\ claim[c].writes \/ ~Locked(claim'[c].device)
               /\ claim[c].writes => claim'[c].device = claim[c].device
      PROVE  Final'
  BY <1>k DEF Final, UnpairedHasNoKey, Locked
<1>1. ASSUME NEW c \in Claimers, NEW r \in ClaimRecord, ~r.writes,
             claim' = [claim EXCEPT ![c] = r], UNCHANGED <<device, keys, unpair, revoked>>
      PROVE  Final'
  <2>1. \A b \in Claimers : claim'[b] = IF b = c THEN r ELSE claim[b] BY <1>1, <1>t
  <2>2. Rows' = Rows BY <1>1 DEF Rows
  <2> QED BY <1>1, <1>k, <2>1, <2>2 DEF Final
<1>2. ASSUME NEW c \in Claimers, (\E p \in Pairings : Consume(c, p)) \/ ClaimRefused(c)
      PROVE  Final'
  <2>1. CASE ClaimRefused(c)
    <3>1. IdleClaim \in ClaimRecord /\ ~IdleClaim.writes BY DEF IdleClaim, ClaimRecord
    <3> QED BY <1>1, <2>1, <3>1 DEF ClaimRefused
  <2>2. ASSUME NEW p \in Pairings, Consume(c, p) PROVE Final'
    <3> DEFINE r == [IdleClaim EXCEPT !.step = "consumed", !.pairing = p]
    <3>1. r \in ClaimRecord /\ ~r.writes BY DEF IdleClaim, ClaimRecord
    <3> HIDE DEF r
    <3>2. claim' = [claim EXCEPT ![c] = r] /\ UNCHANGED <<device, keys, unpair, revoked>>
      BY <2>2 DEF Consume, rows, r
    <3> QED BY <1>1, <3>1, <3>2
  <2> QED BY <1>2, <2>1, <2>2
<1>3. ASSUME NEW c \in Claimers, ClaimCheck(c) \/ ClaimLoad(c) PROVE Final'
  <2>1. /\ claim[c].step \in {"consumed", "checked"}
        /\ \A b \in Claimers : b # c => claim'[b] = claim[b]
        /\ UNCHANGED <<device, keys, unpair, revoked>>
    BY <1>3, <1>t DEF ClaimCheck, ClaimLoad, rows
  <2>2. ~claim[c].writes BY <2>1 DEF Final
  <2>3. claim'[c].writes = claim[c].writes
    <3>1. CASE ClaimCheck(c) BY <3>1, <1>t DEF ClaimCheck, ClaimRecord
    <3>2. CASE ClaimLoad(c)
      <4>1. CASE claim' = [claim EXCEPT ![c].step = "keyed"] BY <4>1, <1>t DEF ClaimRecord
      <4>2. ASSUME NEW d \in Rows, claim' = [claim EXCEPT ![c].step = "loaded", ![c].device = d,
                                                         ![c].status = device[d]]
            PROVE  claim'[c].writes = claim[c].writes
        BY <4>2, <1>t DEF ClaimRecord
      <4> QED BY <3>2, <4>1, <4>2, Zenon DEF ClaimLoad
    <3> QED BY <1>3, <3>1, <3>2
  <2>4. Rows' = Rows BY <2>1 DEF Rows
  <2> QED BY <1>k, <2>1, <2>2, <2>3, <2>4 DEF Final
<1>4. ASSUME NEW c \in Claimers, ClaimKeys(c) PROVE Final'
  <2>1. PICK writes \in BOOLEAN :
          /\ writes => ~Locked(claim[c].device)
          /\ claim' = [claim EXCEPT ![c].step = "keyed", ![c].writes = writes,
                                    ![c].keys = keys[claim[c].device]]
    BY <1>4 DEF ClaimKeys
  <2>2. /\ claim'[c].step = "keyed" /\ claim'[c].writes = writes
        /\ claim'[c].device = claim[c].device
    BY <2>1, <1>t DEF ClaimRecord
  <2>3. \A b \in Claimers : b # c => claim'[b] = claim[b] BY <2>1, <1>t
  <2>4. UNCHANGED <<device, keys, unpair, revoked>> BY <1>4 DEF ClaimKeys, rows
  <2>5. Rows' = Rows BY <2>4 DEF Rows
  <2> QED BY <1>k, <2>1, <2>2, <2>3, <2>4, <2>5 DEF Final
<1>5. ASSUME NEW c \in Claimers, ClaimCommit(c) PROVE Final'
  <2>1. Target(c) \subseteq Devices
    <3>1. claim[c].device \in Devices \cup {None} BY <1>t DEF ClaimRecord
    <3> QED BY <3>1 DEF Target
  <2>2. PICK d \in Devices :
          /\ d \in Target(c)
          /\ device' = [device EXCEPT ![d] = Flush(device[d], claim[c].status, "PENDING")]
          /\ keys' = [keys EXCEPT ![d] = (keys[d] \ claim[c].keys) \cup {claim[c].pairing}]
          /\ revoked' = revoked \ {d}
    BY <1>5, <2>1 DEF ClaimCommit
  <2>3. /\ claim[c].step = "keyed" /\ unpair' = unpair
        /\ \A b \in Claimers : b # c => claim'[b] = claim[b]
        /\ claim'[c] = IdleClaim
    BY <1>5, <1>t DEF ClaimCommit
  <2>4. \A e \in Devices : e # d => device'[e] = device[e] /\ keys'[e] = keys[e]
    BY <1>t, <2>2
  <2>5. device'[d] = device[d] \/ device'[d] = "PENDING" BY <1>t, <2>2 DEF Flush
  <2>6. Rows \subseteq Rows' BY <2>4, <2>5 DEF Rows
  <2>7. unpair.step = "keyed" => d # unpair.device
    <3>1. CASE claim[c].device # None
      <4>1. claim[c].writes BY <2>3, <3>1 DEF EveryClaimWrites
      <4> QED BY <2>2, <3>1, <4>1 DEF Target, Final
    <3>2. CASE claim[c].device = None BY <2>2, <3>2 DEF Target, Final
    <3> QED BY <3>1, <3>2
  <2>8. UnpairedHasNoKey' BY <1>t, <2>2, <2>4 DEF Final, UnpairedHasNoKey
  <2>9. unpair.step = "keyed" => keys'[unpair.device] = keys[unpair.device]
    BY <1>h, <2>4, <2>7 DEF Holding
  <2>10. ~claim'[c].writes BY <2>3 DEF IdleClaim
  <2> QED BY <2>3, <2>6, <2>8, <2>9, <2>10 DEF Final
<1>6. ASSUME NEW d \in Devices, UnpairLoad(d) PROVE Final'
  <2>1. unpair'.step = "loaded" /\ unpair'.device = d /\ d \in Rows
    BY <1>6 DEF UnpairLoad, IdleUnpair
  <2>2. UNCHANGED <<device, keys, claim, revoked>> BY <1>6 DEF UnpairLoad, rows
  <2>3. Rows' = Rows BY <2>2 DEF Rows
  <2> QED BY <2>1, <2>2, <2>3 DEF Final, UnpairedHasNoKey
<1>7. ASSUME UnpairKeys PROVE Final'
  <2>1. /\ unpair.step = "loaded" /\ ~Locked(unpair.device)
        /\ unpair' = [unpair EXCEPT !.step = "keyed", !.keys = keys[unpair.device]]
        /\ UNCHANGED <<device, keys, claim, revoked>>
    BY <1>7 DEF UnpairKeys, rows
  <2>2. unpair'.device = unpair.device /\ unpair'.keys = keys[unpair.device]
    BY <1>t, <2>1 DEF UnpairRecord
  <2>3. \A c \in Claimers : claim[c].writes => claim[c].device # unpair.device
    BY <2>1 DEF Locked
  <2>4. Rows' = Rows BY <2>1 DEF Rows
  <2> QED BY <2>1, <2>2, <2>3, <2>4 DEF Final, UnpairedHasNoKey
<1>8. ASSUME UnpairCommit PROVE Final'
  <2> DEFINE d == unpair.device
  <2>1. /\ unpair.step = "keyed" /\ d \in Devices
        /\ device' = [device EXCEPT ![d] = Flush(device[d], unpair.status, "REVOKED")]
        /\ keys' = [keys EXCEPT ![d] = keys[d] \ unpair.keys]
        /\ revoked' = revoked \cup {d} /\ unpair' = IdleUnpair /\ claim' = claim
    BY <1>8, <1>h DEF UnpairCommit, Holding
  <2>2. keys'[d] = {} /\ \A e \in Devices : e # d => keys'[e] = keys[e]
    BY <1>t, <2>1 DEF Final
  <2>3. UnpairedHasNoKey' BY <1>t, <2>1, <2>2 DEF Final, UnpairedHasNoKey
  <2>4. unpair'.step = "idle" BY <2>1 DEF IdleUnpair
  <2> QED BY <2>1, <2>3, <2>4 DEF Final
<1>9. ASSUME PollCommit PROVE Final'
  <2>1. /\ \E d : device' = [device EXCEPT ![d] = Flush(device[d], poll.status, "ACTIVE")]
        /\ UNCHANGED <<keys, claim, unpair, revoked>>
    BY <1>9 DEF PollCommit
  <2>2. \A e \in Devices : device'[e] = device[e] \/ device'[e] = "ACTIVE"
    BY <1>t, <2>1 DEF Flush
  <2>3. Rows \subseteq Rows' BY <2>2 DEF Rows
  <2> QED BY <1>k, <2>1, <2>3 DEF Final
<1>10. ASSUME ApiRestart PROVE Final'
  <2>1. /\ \A c \in Claimers : ~claim'[c].writes
        /\ unpair'.step = "idle" /\ UNCHANGED <<device, keys, revoked>>
    BY <1>10 DEF ApiRestart, IdleClaim, IdleUnpair, rows
  <2> QED BY <2>1 DEF Final, UnpairedHasNoKey
<1>11. ASSUME UNCHANGED <<device, keys, claim, unpair, revoked>> PROVE Final'
  <2>1. Rows' = Rows BY <1>11 DEF Rows
  <2> QED BY <1>11, <1>k, <2>1 DEF Final
<1>12. CASE PollLoad BY <1>11, <1>12 DEF PollLoad, rows
<1>13. CASE PollExpires BY <1>11, <1>13 DEF PollExpires
<1>14. CASE \/ NeedsRepair \/ AgentRestart \/ AgentReset \/ UNCHANGED vars
            \/ \E p \in Pairings : Start(p) \/ Expire(p) \/ CodeLapses(p)
  <2>1. UNCHANGED <<device, keys, claim, unpair, revoked>>
    BY <1>14 DEF NeedsRepair, AgentRestart, AgentReset, Start, Expire, CodeLapses, vars, rows
  <2> QED BY <2>1, <1>11
<1> QED
  BY <1>2, <1>3, <1>4, <1>5, <1>6, <1>7, <1>8, <1>9, <1>10, <1>12, <1>13, <1>14
  DEF Next, ClaimStep, PollStep

\* delete_device, claim_device: as long as every re-claim changes the device row,
\* an unpaired device has no key until it is claimed again, for any number of
\* claims in flight and of restarts. Without that condition it does not hold
\* (README, Observations): the claim that takes no lock is the only way past it.
THEOREM UnpairIsFinal == Spec /\ []EveryClaimWrites => []UnpairedHasNoKey
<1>1. Final => UnpairedHasNoKey BY DEF Final
<1> QED BY <1>1, TypedInit, TypedStep, FinalInit, FinalStep, PTL DEF Spec

\* A claim that has written its row read every key the row has, and no other
\* claim has written that row.
Exclusive ==
  /\ OneActiveKey
  /\ \A d \in Devices \ Rows : keys[d] = {}
  /\ \A c \in Claimers : claim[c].step = "loaded" => claim[c].device \in Rows
  /\ \A c \in Claimers : claim[c].device = None => claim[c].status = "none"
  /\ \A c \in Claimers : claim[c].step \in {"consumed", "checked"} => claim[c].device = None
  /\ \A c \in Claimers : claim[c].writes =>
       /\ claim[c].device \in Rows
       /\ keys[claim[c].device] \subseteq claim[c].keys
       /\ \A b \in Claimers : claim[b].writes /\ claim[b].device = claim[c].device => b = c

\* A claim that has read no key yet.
Reading(r) ==
  /\ ~r.writes
  /\ r.step = "loaded" => r.device \in Rows
  /\ r.device = None => r.status = "none"
  /\ r.step \in {"consumed", "checked"} => r.device = None

LEMMA ExclusiveInit == Init => Exclusive
BY DEF Init, Exclusive, OneActiveKey, Rows, IdleClaim

LEMMA ExclusiveStep ==
  Typed /\ Final /\ EveryClaimWrites /\ Exclusive /\ [Next]_vars => Exclusive'
<1> SUFFICES ASSUME Typed, Final, EveryClaimWrites, Exclusive, [Next]_vars PROVE Exclusive'
  OBVIOUS
<1>t. /\ device \in [Devices -> DeviceStatus \cup {"none"}]
      /\ keys \in [Devices -> SUBSET Pairings] /\ claim \in [Claimers -> ClaimRecord]
  BY DEF Typed, TypeOK, ClaimRecord
<1>h. Holding BY DEF Typed
\* Steps that add no key, and whose claims end or read nothing.
<1>k. ASSUME \A d \in Devices : keys'[d] \subseteq keys[d], Rows \subseteq Rows',
             \A c \in Claimers : \/ claim'[c] = claim[c]
                                 \/ Reading(claim'[c])
      PROVE  Exclusive'
  <2>1. \A d \in Devices : d \notin Rows' => keys'[d] = {} BY <1>k DEF Exclusive
  <2>2. OneActiveKey' BY <1>k DEF Exclusive, OneActiveKey
  <2>3. \A c \in Claimers :
          /\ claim'[c].step = "loaded" => claim'[c].device \in Rows'
          /\ claim'[c].device = None => claim'[c].status = "none"
          /\ claim'[c].step \in {"consumed", "checked"} => claim'[c].device = None
    BY <1>k DEF Exclusive, Reading
  <2>4. \A c \in Claimers : claim'[c].writes => claim'[c] = claim[c] BY <1>k DEF Reading
  <2>5. Rows \subseteq Devices BY DEF Rows
  <2> QED BY <1>k, <2>1, <2>2, <2>3, <2>4, <2>5 DEF Exclusive
<1>1. ASSUME NEW c \in Claimers, NEW r \in ClaimRecord, Reading(r),
             claim' = [claim EXCEPT ![c] = r], UNCHANGED <<device, keys>>
      PROVE  Exclusive'
  <2>1. \A b \in Claimers : claim'[b] = IF b = c THEN r ELSE claim[b] BY <1>1, <1>t
  <2>2. Rows' = Rows BY <1>1 DEF Rows
  <2> QED BY <1>1, <1>k, <2>1, <2>2
<1>2. ASSUME NEW c \in Claimers, (\E p \in Pairings : Consume(c, p)) \/ ClaimRefused(c)
      PROVE  Exclusive'
  <2>1. CASE ClaimRefused(c)
    <3>1. IdleClaim \in ClaimRecord /\ Reading(IdleClaim)
      BY DEF IdleClaim, ClaimRecord, Reading
    <3> QED BY <1>1, <2>1, <3>1 DEF ClaimRefused
  <2>2. ASSUME NEW p \in Pairings, Consume(c, p) PROVE Exclusive'
    <3> DEFINE r == [IdleClaim EXCEPT !.step = "consumed", !.pairing = p]
    <3>1. r \in ClaimRecord /\ Reading(r) BY DEF IdleClaim, ClaimRecord, Reading
    <3> HIDE DEF r
    <3>2. claim' = [claim EXCEPT ![c] = r] /\ UNCHANGED <<device, keys>>
      BY <2>2 DEF Consume, rows, r
    <3> QED BY <1>1, <3>1, <3>2
  <2> QED BY <1>2, <2>1, <2>2
<1>3. ASSUME NEW c \in Claimers, ClaimCheck(c) \/ ClaimLoad(c) PROVE Exclusive'
  <2>1. /\ claim[c].step \in {"consumed", "checked"}
        /\ \A b \in Claimers : b # c => claim'[b] = claim[b]
        /\ UNCHANGED <<device, keys>>
    BY <1>3, <1>t DEF ClaimCheck, ClaimLoad, rows
  <2>2. ~claim[c].writes /\ claim[c].device = None /\ claim[c].status = "none"
    BY <2>1 DEF Final, Exclusive
  <2>3. Reading(claim'[c])
    <3>1. CASE ClaimCheck(c) BY <2>2, <3>1, <1>t DEF ClaimCheck, ClaimRecord, Reading
    <3>2. CASE ClaimLoad(c)
      <4>1. CASE claim' = [claim EXCEPT ![c].step = "keyed"]
        BY <2>2, <4>1, <1>t DEF ClaimRecord, Reading
      <4>2. ASSUME NEW d \in Rows, claim' = [claim EXCEPT ![c].step = "loaded", ![c].device = d,
                                                         ![c].status = device[d]]
            PROVE  Reading(claim'[c])
        <5>1. claim'[c].device = d /\ claim'[c].step = "loaded" /\ ~claim'[c].writes
          BY <2>2, <4>2, <1>t DEF ClaimRecord
        <5>2. d # None BY PairingAssumption DEF Rows
        <5> QED BY <5>1, <5>2 DEF Reading
      <4> QED BY <3>2, <4>1, <4>2, Zenon DEF ClaimLoad
    <3> QED BY <1>3, <3>1, <3>2
  <2>4. Rows' = Rows BY <2>1 DEF Rows
  <2> QED BY <1>k, <2>1, <2>3, <2>4
<1>4. ASSUME NEW c \in Claimers, ClaimKeys(c) PROVE Exclusive'
  <2>1. PICK writes \in BOOLEAN :
          /\ writes => ~Locked(claim[c].device)
          /\ claim' = [claim EXCEPT ![c].step = "keyed", ![c].writes = writes,
                                    ![c].keys = keys[claim[c].device]]
    BY <1>4 DEF ClaimKeys
  <2>2. /\ claim'[c].step = "keyed" /\ claim'[c].writes = writes
        /\ claim'[c].device = claim[c].device /\ claim'[c].keys = keys[claim[c].device]
        /\ claim'[c].status = claim[c].status
    BY <2>1, <1>t DEF ClaimRecord
  <2>3. \A b \in Claimers : b # c => claim'[b] = claim[b] BY <2>1, <1>t
  <2>4. UNCHANGED <<device, keys>> /\ claim[c].step = "loaded" BY <1>4 DEF ClaimKeys, rows
  <2>5. Rows' = Rows BY <2>4 DEF Rows
  <2>6. claim[c].device \in Rows BY <2>4 DEF Exclusive
  <2>7. writes => \A b \in Claimers : ~(claim[b].writes /\ claim[b].device = claim[c].device)
    BY <2>1 DEF Locked
  <2>8. OneActiveKey' BY <2>4 DEF Exclusive, OneActiveKey
  <2> QED BY <2>2, <2>3, <2>4, <2>5, <2>6, <2>7, <2>8 DEF Exclusive
<1>5. ASSUME NEW c \in Claimers, ClaimCommit(c) PROVE Exclusive'
  <2>1. Target(c) \subseteq Devices
    <3>1. claim[c].device \in Devices \cup {None} BY <1>t DEF ClaimRecord
    <3> QED BY <3>1 DEF Target
  <2>2. PICK d \in Devices :
          /\ d \in Target(c)
          /\ device' = [device EXCEPT ![d] = Flush(device[d], claim[c].status, "PENDING")]
          /\ keys' = [keys EXCEPT ![d] = (keys[d] \ claim[c].keys) \cup {claim[c].pairing}]
    BY <1>5, <2>1 DEF ClaimCommit
  <2>3. /\ claim[c].step = "keyed" /\ claim'[c] = IdleClaim
        /\ \A b \in Claimers : b # c => claim'[b] = claim[b]
    BY <1>5, <1>t DEF ClaimCommit
  <2>4. \A e \in Devices : e # d => device'[e] = device[e] /\ keys'[e] = keys[e]
    BY <1>t, <2>2
  <2>5. \/ claim[c].device = d /\ claim[c].writes
        \/ claim[c].device = None /\ d \notin Rows
    BY <2>2, <2>3, PairingAssumption DEF Target, EveryClaimWrites
  <2>6. keys[d] \subseteq claim[c].keys \/ keys[d] = {} BY <2>5 DEF Exclusive
  <2>7. keys'[d] = {claim[c].pairing} BY <1>t, <2>2, <2>6
  <2>8. d \in Rows'
    <3>1. device'[d] = Flush(device[d], claim[c].status, "PENDING") BY <1>t, <2>2
    <3>2. CASE claim[c].device = d /\ claim[c].writes BY <3>1, <3>2 DEF Rows, Flush, Exclusive
    <3>3. CASE claim[c].device = None
      BY <3>1, <3>3 DEF Rows, Flush, Exclusive
    <3> QED BY <2>5, <3>2, <3>3
  <2>9. Rows \subseteq Rows' BY <2>4, <2>8 DEF Rows
  <2>10. \A b \in Claimers : b # c /\ claim[b].writes => claim[b].device # d
    BY <2>5 DEF Exclusive
  <2>11. OneActiveKey' BY <2>4, <2>7 DEF Exclusive, OneActiveKey
  <2>12. \A e \in Devices : e \notin Rows' => keys'[e] = {}
    BY <2>4, <2>8, <2>9 DEF Exclusive
  <2>13. ~IdleClaim.writes /\ Reading(IdleClaim) BY DEF IdleClaim, Reading
  <2>14. Rows \subseteq Devices BY DEF Rows
  <2>15. ASSUME NEW b \in Claimers, claim'[b].writes
         PROVE  /\ claim'[b].device \in Rows'
                /\ keys'[claim'[b].device] \subseteq claim'[b].keys
                /\ \A a \in Claimers : claim'[a].writes /\ claim'[a].device = claim'[b].device
                                         => a = b
    <3>1. b # c /\ claim'[b] = claim[b] BY <2>3, <2>13, <2>15
    <3>2. claim[b].device \in Rows /\ claim[b].device # d BY <2>10, <2>15, <3>1 DEF Exclusive
    <3>3. keys'[claim[b].device] = keys[claim[b].device] BY <2>4, <2>14, <3>2
    <3>4. \A a \in Claimers : claim'[a].writes => claim'[a] = claim[a] BY <2>3, <2>13
    <3> QED BY <2>9, <2>15, <3>1, <3>2, <3>3, <3>4 DEF Exclusive
  <2>16. \A b \in Claimers :
           /\ claim'[b].step = "loaded" => claim'[b].device \in Rows'
           /\ claim'[b].device = None => claim'[b].status = "none"
           /\ claim'[b].step \in {"consumed", "checked"} => claim'[b].device = None
    BY <2>3, <2>9, <2>13 DEF Exclusive, Reading
  <2> QED BY <2>11, <2>12, <2>15, <2>16 DEF Exclusive
<1>6. ASSUME UnpairCommit PROVE Exclusive'
  <2>1. /\ device' = [device EXCEPT ![unpair.device] = Flush(@, unpair.status, "REVOKED")]
        /\ keys' = [keys EXCEPT ![unpair.device] = @ \ unpair.keys] /\ claim' = claim
    BY <1>6 DEF UnpairCommit
  <2>2. \A d \in Devices : keys'[d] \subseteq keys[d] BY <1>t, <2>1
  <2>3. \A d \in Devices : device'[d] = device[d] \/ device'[d] = "REVOKED"
    BY <1>t, <2>1 DEF Flush
  <2>4. Rows \subseteq Rows' BY <2>3 DEF Rows
  <2> QED BY <1>k, <2>1, <2>2, <2>4
<1>7. ASSUME PollCommit PROVE Exclusive'
  <2>1. /\ \E d : device' = [device EXCEPT ![d] = Flush(device[d], poll.status, "ACTIVE")]
        /\ UNCHANGED <<keys, claim>>
    BY <1>7 DEF PollCommit
  <2>2. \A e \in Devices : device'[e] = device[e] \/ device'[e] = "ACTIVE"
    BY <1>t, <2>1 DEF Flush
  <2>3. Rows \subseteq Rows' BY <2>2 DEF Rows
  <2> QED BY <1>k, <2>1, <2>3
<1>8. ASSUME ApiRestart PROVE Exclusive'
  <2>1. (\A c \in Claimers : Reading(claim'[c])) /\ UNCHANGED <<device, keys>>
    BY <1>8 DEF ApiRestart, IdleClaim, Reading, rows
  <2>2. Rows' = Rows BY <2>1 DEF Rows
  <2> QED BY <1>k, <2>1, <2>2
<1>9. ASSUME UNCHANGED <<device, keys, claim>> PROVE Exclusive'
  <2>1. Rows' = Rows BY <1>9 DEF Rows
  <2> QED BY <1>9, <1>k, <2>1
<1>10. CASE PollLoad \/ PollExpires \/ UnpairKeys \/ \E d \in Devices : UnpairLoad(d)
  BY <1>9, <1>10 DEF PollLoad, PollExpires, UnpairKeys, UnpairLoad, rows
<1>11. CASE \/ NeedsRepair \/ AgentRestart \/ AgentReset \/ UNCHANGED vars
            \/ \E p \in Pairings : Start(p) \/ Expire(p) \/ CodeLapses(p)
  <2>1. UNCHANGED <<device, keys, claim>>
    BY <1>11 DEF NeedsRepair, AgentRestart, AgentReset, Start, Expire, CodeLapses, vars, rows
  <2> QED BY <2>1, <1>9
<1> QED
  BY <1>2, <1>3, <1>4, <1>5, <1>6, <1>7, <1>8, <1>10, <1>11 DEF Next, ClaimStep, PollStep

\* claim_device ("re-pairing leaves exactly ONE active key"): as long as every
\* re-claim changes the device row, no device ever has two active keys, for any
\* number of claims in flight, unpairs and restarts.
THEOREM OneKeyUnderLock == Spec /\ []EveryClaimWrites => []OneActiveKey
<1>1. Exclusive => OneActiveKey BY DEF Exclusive
<1> QED
  BY <1>1, TypedInit, TypedStep, FinalInit, FinalStep, ExclusiveInit, ExclusiveStep, PTL
  DEF Spec
-----------------------------------------------------------------------------
(* The handlers together implement Enrolment                               *)

\* A pairing that can still be claimed is bound to no device, and the agent polls
\* one that was started.
Fresh ==
  /\ agent.pairing # None => pairing[agent.pairing].status # "none"
  /\ \A p \in Pairings : pairing[p].status = "none" => pairing[p].device = None
  /\ \A p \in code : pairing[p].device = None
  /\ \A p \in Pairings, c \in Claimers : Claiming(c, p) => pairing[p].device = None

LEMMA FreshInit == Init => Fresh
BY PairingAssumption DEF Init, Fresh, Claiming, IdleClaim

LEMMA FreshStep == Typed /\ CodeInv /\ Fresh /\ [Next]_vars => Fresh'
<1> SUFFICES ASSUME Typed, CodeInv, Fresh, [Next]_vars PROVE Fresh'
  OBVIOUS
<1>t. /\ pairing \in [Pairings -> PairingRow] /\ claim \in [Claimers -> ClaimRecord]
      /\ code \subseteq Pairings /\ agent.pairing \in Pairings \cup {None}
      /\ poll.pairing \in Pairings \cup {None}
  BY DEF Typed, TypeOK, PairingRow, ClaimRecord
<1>g. agent \in [key : Generations, device : Devices \cup {None},
                  pairing : Pairings \cup {None}]
  BY DEF Typed, TypeOK
<1>h. Holding BY DEF Typed
\* No claim begins on a pairing that was neither claimed nor claimable before.
<1>k. ASSUME \A p \in Pairings : /\ pairing'[p].device = pairing[p].device
                                 /\ pairing'[p].status = "none" => pairing[p].status = "none",
             \A p \in code' : p \in code \/ pairing[p].status = "none",
             \A c \in Claimers : claim'[c].step # "idle" =>
               \/ claim[c].step # "idle" /\ claim'[c].pairing = claim[c].pairing
               \/ claim'[c].pairing \in code,
             code' \subseteq Pairings,
             agent'.pairing \in {agent.pairing, None}
               \/ pairing'[agent'.pairing].status # "none"
      PROVE  Fresh'
  <2>1. agent'.pairing # None => pairing'[agent'.pairing].status # "none"
    BY <1>k, <1>t DEF Fresh
  <2> QED BY <1>k, <2>1 DEF Fresh, Claiming
<1>1. ASSUME NEW p \in Pairings, Start(p) PROVE Fresh'
  <2>1. /\ pairing[p].status = "none" /\ pairing'[p].status = "PENDING"
        /\ pairing'[p].device = pairing[p].device
        /\ \A q \in Pairings \ {p} : pairing'[q] = pairing[q]
    BY <1>1, <1>t DEF Start, PairingRow
  <2>2. code' = code \cup {p} /\ claim' = claim /\ agent'.pairing = p
    BY <1>1, <1>g DEF Start
  <2> QED BY <1>t, <1>k, <2>1, <2>2
<1>2. ASSUME UNCHANGED <<pairing, claim>>, code' \subseteq code,
             agent'.pairing \in {agent.pairing, None}
      PROVE  Fresh'
  BY <1>2, <1>t, <1>k
<1>3. ASSUME NEW c \in Claimers, NEW p \in Pairings, Consume(c, p) PROVE Fresh'
  <2>1. /\ p \in code /\ code' = code \ {p} /\ claim'[c].pairing = p /\ pairing' = pairing
        /\ \A b \in Claimers \ {c} : claim'[b] = claim[b]
    BY <1>3, <1>t DEF Consume, IdleClaim, rows
  <2>2. agent' = agent BY <1>3 DEF Consume
  <2> QED BY <1>t, <1>k, <2>1, <2>2
<1>4. ASSUME NEW c \in Claimers, ClaimRefused(c) PROVE Fresh'
  <2>1. \A p \in Pairings : /\ pairing'[p].device = pairing[p].device
                            /\ pairing'[p].status = "none" => pairing[p].status = "none"
    BY <1>4, <1>t DEF ClaimRefused, PairingRow
  <2>2. /\ claim'[c].step = "idle" /\ UNCHANGED <<code, agent>>
        /\ \A b \in Claimers \ {c} : claim'[b] = claim[b]
    BY <1>4, <1>t DEF ClaimRefused, IdleClaim
  <2> QED BY <1>t, <1>k, <2>1, <2>2
<1>5. ASSUME NEW c \in Claimers, ClaimCheck(c) \/ ClaimLoad(c) \/ ClaimKeys(c)
      PROVE  Fresh'
  <2>1. /\ \A b \in Claimers : claim'[b].pairing = claim[b].pairing
        /\ \A b \in Claimers : claim'[b].step # "idle" => claim[b].step # "idle"
    BY <1>5, ClaimGoesOn
  <2>2. UNCHANGED <<pairing, code, agent>>
    BY <1>5 DEF ClaimCheck, ClaimLoad, ClaimKeys, rows
  <2> QED BY <1>t, <1>k, <2>1, <2>2
<1>6. ASSUME NEW c \in Claimers, ClaimCommit(c) PROVE Fresh'
  <2> DEFINE p == claim[c].pairing
  <2>1. p \in Pairings /\ Claiming(c, p) BY <1>6, <1>h DEF ClaimCommit, Holding, Claiming
  <2>2. p \notin code /\ \A b \in Claimers : Claiming(b, p) => b = c
    BY <2>1 DEF CodeInv, CodeUsedOnce
  <2>3. /\ pairing'[p].status = "CLAIMED"
        /\ \A q \in Pairings \ {p} : pairing'[q] = pairing[q]
    BY <1>6, <1>t, <2>1 DEF ClaimCommit, PairingRow
  <2>4. /\ claim'[c].step = "idle" /\ UNCHANGED <<code, agent>>
        /\ \A b \in Claimers \ {c} : claim'[b] = claim[b]
    BY <1>6, <1>t DEF ClaimCommit, IdleClaim
  <2> QED BY <1>t, <2>1, <2>2, <2>3, <2>4 DEF Fresh, Claiming
<1>7. ASSUME PollExpires \/ PollCommit PROVE Fresh'
  <2>1. \A p \in Pairings : /\ pairing'[p].device = pairing[p].device
                            /\ pairing'[p].status = "none" => pairing[p].status = "none"
    BY <1>7, <1>t DEF PollExpires, PollCommit, PairingRow
  <2>2. UNCHANGED <<claim, code>> /\ agent'.pairing \in {agent.pairing, None}
    BY <1>7, <1>g DEF PollExpires, PollCommit
  <2> QED BY <1>t, <1>k, <2>1, <2>2
<1>8. ASSUME ApiRestart PROVE Fresh'
  <2>1. /\ \A c \in Claimers : claim'[c].step = "idle"
        /\ UNCHANGED <<pairing, code>>
    BY <1>8 DEF ApiRestart, IdleClaim, rows
  <2>2. agent'.pairing \in {agent.pairing, None} BY <1>8, <1>g DEF ApiRestart
  <2> QED BY <1>t, <1>k, <2>1, <2>2
<1>9. ASSUME PollLoad PROVE Fresh'
  <2>1. UNCHANGED <<pairing, claim, code, agent>> BY <1>9 DEF PollLoad, rows
  <2> QED BY <2>1, <1>2
<1>10. ASSUME \/ NeedsRepair \/ AgentRestart \/ AgentReset \/ UnpairKeys \/ UnpairCommit
              \/ \E d \in Devices : UnpairLoad(d)
              \/ \E p \in Pairings : Expire(p) \/ CodeLapses(p)
              \/ UNCHANGED vars
       PROVE  Fresh'
  <2>1. UNCHANGED <<pairing, claim>> /\ code' \subseteq code
    BY <1>10 DEF NeedsRepair, AgentRestart, AgentReset, UnpairLoad, UnpairKeys,
                 UnpairCommit, Expire, CodeLapses, vars, rows
  <2>2. agent'.pairing \in {agent.pairing, None}
    <3>1. CASE NeedsRepair BY <3>1, <1>g DEF NeedsRepair
    <3>2. CASE AgentRestart \/ AgentReset BY <3>2, <1>g DEF AgentRestart, AgentReset
    <3>3. CASE ~(NeedsRepair \/ AgentRestart \/ AgentReset)
      <4>1. agent' = agent
        BY <1>10, <3>3 DEF UnpairLoad, UnpairKeys, UnpairCommit, Expire, CodeLapses, vars
      <4> QED BY <4>1
    <3> QED BY <3>1, <3>2, <3>3
  <2> QED BY <2>1, <2>2, <1>2
<1> QED
  BY <1>1, <1>3, <1>4, <1>5, <1>6, <1>7, <1>8, <1>9, <1>10 DEF Next, ClaimStep, PollStep

LEMMA BlindDevice ==
  \A d \in Devices :
    d \in Blind <=>
      \/ \E c \in Claimers : claim[c].device = d /\ claim[c].status = "PENDING"
      \/ unpair.device = d /\ unpair.status = "REVOKED"
BY DEF Blind

\* Only a load looks at a device, and keeps from it that it is not ACTIVE.
LEMMA LooksStep == Typed /\ [Next]_vars => Desk!Look
<1> SUFFICES ASSUME Typed, [Next]_vars, NEW d \in Blind', d \notin Blind
             PROVE  d \in Devices /\ device[d] # "ACTIVE"
  BY DEF Desk!Look
<1>t. /\ claim \in [Claimers -> ClaimRecord] /\ d \in Devices
      /\ device \in [Devices -> DeviceStatus \cup {"none"}]
  BY DEF Typed, TypeOK, ClaimRecord, Blind
<1>i. None \notin Devices BY PairingAssumption
<1>s. /\ ~(unpair.device = d /\ unpair.status = "REVOKED")
      /\ \A c \in Claimers : ~(claim[c].device = d /\ claim[c].status = "PENDING")
  BY <1>t, BlindDevice
<1>d. \/ unpair'.device = d /\ unpair'.status = "REVOKED"
      \/ \E c \in Claimers : claim'[c].device = d /\ claim'[c].status = "PENDING"
  BY DEF Blind
\* One claim takes another record.
<1>r. ASSUME NEW c \in Claimers, NEW r, claim' = [claim EXCEPT ![c] = r], unpair' = unpair,
             r.device = d /\ r.status = "PENDING" => device[d] # "ACTIVE"
      PROVE  device[d] # "ACTIVE"
  BY <1>r, <1>s, <1>d, <1>t
<1>1. ASSUME NEW c \in Claimers, ClaimStep(c) \/ \E p \in Pairings : Consume(c, p)
      PROVE  device[d] # "ACTIVE"
  <2>0. IdleClaim.device # d BY <1>t, <1>i DEF IdleClaim
  <2>1. CASE \E p \in Pairings : Consume(c, p)
    <3>1. PICK p \in Pairings :
            claim' = [claim EXCEPT ![c] = [IdleClaim EXCEPT !.step = "consumed", !.pairing = p]]
      BY <2>1 DEF Consume
    <3>2. [IdleClaim EXCEPT !.step = "consumed", !.pairing = p].device # d
      BY <1>t, <1>i DEF IdleClaim
    <3>3. unpair' = unpair BY <2>1 DEF Consume
    <3> QED BY <1>r, <3>1, <3>2, <3>3
  <2>2. CASE ClaimRefused(c)
    BY <1>r, <2>0, <2>2 DEF ClaimRefused
  <2>3. CASE ClaimCommit(c)
    BY <1>r, <2>0, <2>3 DEF ClaimCommit
  <2>4. CASE ClaimCheck(c)
    <3>1. claim' = [claim EXCEPT ![c] = [claim[c] EXCEPT !.step = "checked"]] /\ unpair' = unpair
      BY <2>4, <1>t DEF ClaimCheck, ClaimRecord
    <3>2. /\ [claim[c] EXCEPT !.step = "checked"].device = claim[c].device
          /\ [claim[c] EXCEPT !.step = "checked"].status = claim[c].status
      BY <1>t DEF ClaimRecord
    <3> QED BY <1>r, <1>s, <3>1, <3>2
  <2>5. CASE ClaimLoad(c)
    <3>1. CASE claim' = [claim EXCEPT ![c].step = "keyed"]
      <4>1. claim'[c].device = claim[c].device /\ claim'[c].status = claim[c].status
        BY <1>t, <3>1 DEF ClaimRecord
      <4>2. \A b \in Claimers : b # c => claim'[b] = claim[b] BY <1>t, <3>1
      <4> QED BY <1>s, <1>d, <2>5, <4>1, <4>2 DEF ClaimLoad
    <3>2. CASE \E e \in Rows : claim' = [claim EXCEPT ![c].step = "loaded", ![c].device = e,
                                                      ![c].status = device[e]]
      <4>1. PICK e \in Rows : claim' = [claim EXCEPT ![c].step = "loaded", ![c].device = e,
                                                      ![c].status = device[e]]
        BY <3>2
      <4>2. claim'[c].device = e /\ claim'[c].status = device[e]
        BY <1>t, <4>1 DEF ClaimRecord
      <4>3. \A b \in Claimers : b # c => claim'[b] = claim[b] BY <1>t, <4>1
      <4> QED BY <1>s, <1>d, <2>5, <4>2, <4>3 DEF ClaimLoad
    <3> QED BY <2>5, <3>1, <3>2 DEF ClaimLoad
  <2>6. CASE ClaimKeys(c)
    <3>1. PICK w \in BOOLEAN :
            claim' = [claim EXCEPT ![c].step = "keyed", ![c].writes = w,
                                   ![c].keys = keys[claim[c].device]]
      BY <2>6 DEF ClaimKeys
    <3>2. claim'[c].device = claim[c].device /\ claim'[c].status = claim[c].status
      BY <1>t, <3>1 DEF ClaimRecord
    <3>3. \A b \in Claimers : b # c => claim'[b] = claim[b] BY <1>t, <3>1
    <3> QED BY <1>s, <1>d, <2>6, <3>2, <3>3 DEF ClaimKeys
  <2> QED BY <1>1, <2>1, <2>2, <2>3, <2>4, <2>5, <2>6 DEF ClaimStep
<1>2. ASSUME NEW e \in Devices, UnpairLoad(e) PROVE device[d] # "ACTIVE"
  <2>1. unpair'.device = e /\ unpair'.status = device[e]
    BY <1>2 DEF UnpairLoad, IdleUnpair
  <2> QED BY <1>2, <1>s, <1>d, <2>1 DEF UnpairLoad
<1>3. CASE UnpairKeys
  <2>1. unpair'.device = unpair.device /\ unpair'.status = unpair.status
    BY <1>3 DEF UnpairKeys, Typed, TypeOK
  <2> QED BY <1>3, <1>s, <1>d, <2>1 DEF UnpairKeys
<1>4. CASE UnpairCommit
  BY <1>4, <1>s, <1>d, <1>t, <1>i DEF UnpairCommit, IdleUnpair
<1>5. CASE ApiRestart
  BY <1>5, <1>d, <1>t, <1>i DEF ApiRestart, IdleClaim, IdleUnpair
<1>6. CASE UNCHANGED <<claim, unpair>> BY <1>6, <1>s, <1>d
<1>7. CASE \/ PollStep \/ NeedsRepair \/ AgentRestart \/ AgentReset \/ UNCHANGED vars
           \/ \E p \in Pairings : Start(p) \/ Expire(p) \/ CodeLapses(p)
  <2>1. UNCHANGED <<claim, unpair>>
    BY <1>7 DEF PollStep, PollExpires, PollLoad, PollCommit, NeedsRepair, AgentRestart,
                AgentReset, Start, Expire, CodeLapses, vars
  <2> QED BY <2>1, <1>6
<1> QED BY <1>1, <1>2, <1>3, <1>4, <1>5, <1>7, <1>t DEF Next

\* What a step leaves alone, in the terms of Enrolment.
LEMMA DeskRest ==
  ASSUME \A p \in Pairings : pairing'[p] = pairing[p],
         \A d \in Devices : device'[d] = "ACTIVE" <=> device[d] = "ACTIVE",
         revoked' = revoked, Desk!Look
  PROVE  Desk!Next
<1>1. {d \in Devices : device'[d] = "ACTIVE"} = {d \in Devices : device[d] = "ACTIVE"}
  OBVIOUS
<1>2. [p \in Pairings |-> pairing'[p].status] = [p \in Pairings |-> pairing[p].status]
  OBVIOUS
<1>3. [p \in Pairings |-> pairing'[p].device] = [p \in Pairings |-> pairing[p].device]
  OBVIOUS
<1> QED BY <1>1, <1>2, <1>3 DEF Desk!Next

\* A step that gives one pairing another status.
LEMMA DeskStatus ==
  ASSUME pairing \in [Pairings -> PairingRow], NEW p \in Pairings, NEW s,
         pairing' = [pairing EXCEPT ![p].status = s]
  PROVE  /\ [q \in Pairings |-> pairing[q].status]'
              = [[q \in Pairings |-> pairing[q].status] EXCEPT ![p] = s]
         /\ [q \in Pairings |-> pairing[q].device]' = [q \in Pairings |-> pairing[q].device]
<1>1. \A q \in Pairings : /\ pairing'[q].status = IF q = p THEN s ELSE pairing[q].status
                          /\ pairing'[q].device = pairing[q].device
  BY DEF PairingRow
<1> QED BY <1>1

LEMMA StartEnrols ==
  ASSUME Typed, NEW p \in Pairings, Start(p)
  PROVE  Desk!Issue(p)
<1>1. pairing \in [Pairings -> PairingRow] BY DEF Typed, TypeOK, PairingRow
<1>2. \A q \in Pairings : /\ pairing'[q].status = IF q = p THEN "PENDING" ELSE pairing[q].status
                          /\ pairing'[q].device = pairing[q].device
  BY <1>1 DEF Start, PairingRow
<1>3. pairing[p].status = "none" /\ UNCHANGED <<device, revoked>> BY DEF Start
<1> QED BY <1>2, <1>3 DEF Desk!Issue

LEMMA LapseEnrols ==
  ASSUME Typed, Fresh, PollExpires \/ \E c \in Claimers : ClaimRefused(c), Desk!Look
  PROVE  Desk!Next
<1>t. /\ pairing \in [Pairings -> PairingRow] /\ agent.pairing \in Pairings \cup {None}
  BY DEF Typed, TypeOK, PairingRow
<1>1. ASSUME NEW p \in Pairings, pairing[p].status \in {"PENDING", "CLAIMED"},
             pairing' = [pairing EXCEPT ![p].status = "EXPIRED"],
             UNCHANGED <<device, revoked>>
      PROVE  Desk!Next
  <2>1. Desk!Lapse(p) BY <1>t, <1>1, DeskStatus DEF Desk!Lapse
  <2> QED BY <2>1 DEF Desk!Next
<1>2. CASE PollExpires
  <2> DEFINE p == agent.pairing
  <2>1. /\ p \in Pairings /\ pairing[p].status # "COMPLETED" /\ UNCHANGED <<device, revoked>>
        /\ pairing' = [pairing EXCEPT ![p].status = "EXPIRED"]
    BY <1>2, <1>t DEF PollExpires, Polling, Mine
  <2>2. CASE pairing[p].status \in {"PENDING", "CLAIMED"} BY <1>1, <2>1, <2>2
  <2>3. CASE pairing[p].status \notin {"PENDING", "CLAIMED"}
    <3>1. pairing[p].status \in {"none", "EXPIRED"}
      BY <1>t, <2>1, <2>3 DEF PairingRow, PairingStatus
    <3>2. pairing[p].status # "none" BY <1>2 DEF PollExpires, Polling, Fresh
    <3>3. \A q \in Pairings : pairing'[q] = pairing[q]
      BY <1>t, <2>1, <3>1, <3>2 DEF PairingRow
    <3> QED BY <2>1, <3>3, DeskRest
  <2> QED BY <2>2, <2>3
<1>3. ASSUME NEW c \in Claimers, ClaimRefused(c) PROVE Desk!Next
  <2> DEFINE p == claim[c].pairing
  <2>1. p \in Pairings /\ UNCHANGED <<device, revoked>>
    BY <1>3 DEF ClaimRefused, Typed, Holding
  <2>2. CASE pairing[p].status = "PENDING" BY <1>1, <1>3, <2>1, <2>2 DEF ClaimRefused
  <2>3. CASE pairing[p].status # "PENDING"
    <3>1. pairing' = pairing BY <1>3, <2>3 DEF ClaimRefused
    <3> QED BY <2>1, <3>1, DeskRest
  <2> QED BY <2>2, <2>3
<1> QED BY <1>2, <1>3

LEMMA ClaimEnrols ==
  ASSUME Typed, CodeInv, Fresh, NEW c \in Claimers, ClaimCommit(c), Desk!Look
  PROVE  Desk!Next
<1> DEFINE p == claim[c].pairing
<1>1. p \in Pairings /\ Claiming(c, p) BY DEF ClaimCommit, Claiming, Typed, Holding
<1>2. pairing[p].status \in {"PENDING", "EXPIRED"} /\ pairing[p].device = None
  BY <1>1 DEF CodeInv, CodeUsedOnce, Fresh
<1>3. pairing \in [Pairings -> PairingRow] /\ device \in [Devices -> DeviceStatus \cup {"none"}]
  BY DEF Typed, TypeOK, PairingRow
<1>4. PICK d \in Target(c) :
        /\ device' = [device EXCEPT ![d] = Flush(device[d], claim[c].status, "PENDING")]
        /\ pairing' = [pairing EXCEPT ![p].status = "CLAIMED", ![p].device = d]
        /\ revoked' = revoked \ {d}
  BY DEF ClaimCommit
<1>d. /\ d \in Devices
      /\ claim[c].device = d \/ device[d] = "none"
  <2>1. claim[c].device \in Devices \cup {None} BY DEF Typed, TypeOK
  <2> QED BY <2>1 DEF Target, Rows
<1>r. revoked' = revoked \ {d} BY <1>4
<1>5. \A q \in Pairings : /\ pairing'[q].status = IF q = p THEN "CLAIMED" ELSE pairing[q].status
                          /\ pairing'[q].device = IF q = p THEN d ELSE pairing[q].device
  BY <1>1, <1>3, <1>4, <1>d DEF PairingRow
<1>6. /\ \A e \in Devices \ {d} : device'[e] = device[e]
      /\ \/ device'[d] = "PENDING"
         \/ device'[d] = device[d] /\ claim[c].status = "PENDING"
  BY <1>3, <1>4, <1>d DEF Flush
<1>7. \/ {e \in Devices : device'[e] = "ACTIVE"} = {e \in Devices : device[e] = "ACTIVE"} \ {d}
      \/ /\ d \in Blind
         /\ {e \in Devices : device'[e] = "ACTIVE"} = {e \in Devices : device[e] = "ACTIVE"}
  <2>1. CASE device'[d] = "PENDING" BY <1>6, <2>1
  <2>2. CASE device'[d] = device[d] /\ claim[c].status = "PENDING"
    <3>1. {e \in Devices : device'[e] = "ACTIVE"} = {e \in Devices : device[e] = "ACTIVE"}
      BY <1>6, <2>2
    <3>2. CASE claim[c].device = d
      <4>1. d \in Blind BY <1>d, <2>2, <3>2, BlindDevice
      <4> QED BY <3>1, <4>1
    <3>3. CASE device[d] = "none" BY <3>1, <3>3
    <3> QED BY <1>d, <3>2, <3>3
  <2> QED BY <1>6, <2>1, <2>2
<1>8. Desk!Bind(p, d) BY <1>1, <1>2, <1>r, <1>5, <1>7 DEF Desk!Bind, Desk!Distrust
<1> QED
  <2>1. \E t \in Pairings, m \in Devices : Desk!Bind(t, m) BY <1>1, <1>d, <1>8
  <2> QED BY <2>1 DEF Desk!Next

LEMMA PollEnrols ==
  ASSUME Typed, CodeInv, PollCommit, Desk!Look
  PROVE  Desk!Next
<1>0. PICK p \in Pairings : p = poll.pairing
  BY DEF PollCommit, Typed, TypeOK
<1> DEFINE d == pairing[p].device
<1>1. /\ pairing \in [Pairings -> PairingRow]
      /\ device \in [Devices -> DeviceStatus \cup {"none"}]
  BY DEF Typed, TypeOK, PairingRow
<1>2. pairing[p].status = "CLAIMED" /\ d \in Devices
  BY <1>0 DEF CodeInv, PollCommit, Typed, Holding
<1>3. /\ pairing' = [pairing EXCEPT ![p].status = "COMPLETED"] /\ revoked' = revoked
      /\ device' = [device EXCEPT ![d] = Flush(device[d], poll.status, "ACTIVE")]
  BY <1>0, <1>1, <1>2 DEF PollCommit
<1>4. /\ \A e \in Devices \ {d} : device'[e] = device[e]
      /\ device'[d] = device[d] \/ device'[d] = "ACTIVE"
  BY <1>1, <1>2, <1>3 DEF Flush
<1>5. {e \in Devices : device'[e] = "ACTIVE"}
        \in {{e \in Devices : device[e] = "ACTIVE"},
             {e \in Devices : device[e] = "ACTIVE"} \cup {d}}
  <2>1. CASE device'[d] = device[d] BY <1>4, <2>1
  <2>2. CASE device'[d] = "ACTIVE" BY <1>2, <1>4, <2>2
  <2> QED BY <1>4, <2>1, <2>2
<1>6. Desk!Prove(p) BY <1>1, <1>2, <1>3, <1>5, DeskStatus DEF Desk!Prove
<1> QED BY <1>6 DEF Desk!Next

LEMMA UnpairEnrols ==
  ASSUME Typed, UnpairCommit, Desk!Look
  PROVE  Desk!Next
<1>0. PICK d \in Devices : d = unpair.device
  BY DEF UnpairCommit, Typed, Holding
<1>1. device \in [Devices -> DeviceStatus \cup {"none"}]
  BY DEF Typed, TypeOK
<1>2. /\ pairing' = pairing /\ revoked' = revoked \cup {d}
      /\ device' = [device EXCEPT ![d] = Flush(device[d], unpair.status, "REVOKED")]
  BY <1>0 DEF UnpairCommit
<1>3. /\ \A e \in Devices \ {d} : device'[e] = device[e]
      /\ \/ device'[d] = "REVOKED"
         \/ device'[d] = device[d] /\ unpair.status = "REVOKED"
  BY <1>1, <1>2 DEF Flush
<1>4. \/ {e \in Devices : device'[e] = "ACTIVE"} = {e \in Devices : device[e] = "ACTIVE"} \ {d}
      \/ /\ d \in Blind
         /\ {e \in Devices : device'[e] = "ACTIVE"} = {e \in Devices : device[e] = "ACTIVE"}
  <2>1. CASE device'[d] = "REVOKED" BY <1>3, <2>1
  <2>2. CASE device'[d] = device[d] /\ unpair.status = "REVOKED"
    <3>1. d \in Blind BY <1>0, <2>2 DEF Blind
    <3> QED BY <1>3, <2>2, <3>1
  <2> QED BY <1>3, <2>1, <2>2
<1>5. Desk!Withdraw(d) BY <1>2, <1>4 DEF Desk!Withdraw, Desk!Distrust
<1> QED BY <1>5 DEF Desk!Next

LEMMA StepEnrols ==
  Typed /\ CodeInv /\ Fresh /\ [Next]_vars => [Desk!Next]_(Desk!evars)
<1> SUFFICES ASSUME Typed, CodeInv, Fresh, [Next]_vars PROVE Desk!Next
  OBVIOUS
<1>0. Desk!Look BY LooksStep
<1>1. ASSUME NEW p \in Pairings, Start(p) PROVE Desk!Next
  BY <1>0, <1>1, StartEnrols DEF Desk!Next
<1>2. CASE PollExpires \/ \E c \in Claimers : ClaimRefused(c) BY <1>0, <1>2, LapseEnrols
<1>3. ASSUME NEW c \in Claimers, ClaimCommit(c) PROVE Desk!Next BY <1>0, <1>3, ClaimEnrols
<1>4. CASE PollCommit BY <1>0, <1>4, PollEnrols
<1>5. CASE UnpairCommit BY <1>0, <1>5, UnpairEnrols
<1>6. CASE UNCHANGED <<pairing, device, revoked>> BY <1>0, <1>6, DeskRest
<1>7. ASSUME NEW c \in Claimers,
             \/ ClaimCheck(c) \/ ClaimLoad(c) \/ ClaimKeys(c)
             \/ \E p \in Pairings : Consume(c, p)
      PROVE  UNCHANGED <<pairing, device, revoked>>
  BY <1>7 DEF ClaimCheck, ClaimLoad, ClaimKeys, Consume, rows
<1>8. CASE PollLoad
  <2>1. UNCHANGED <<pairing, device, revoked>> BY <1>8 DEF PollLoad, rows
  <2> QED BY <2>1, <1>6
<1>9. CASE \/ NeedsRepair \/ AgentRestart \/ AgentReset \/ ApiRestart \/ UnpairKeys
           \/ \E d \in Devices : UnpairLoad(d)
           \/ \E p \in Pairings : Expire(p) \/ CodeLapses(p)
           \/ UNCHANGED vars
  <2>1. UNCHANGED <<pairing, device, revoked>>
    BY <1>9 DEF NeedsRepair, AgentRestart, AgentReset, ApiRestart, UnpairKeys, UnpairLoad,
                Expire, CodeLapses, vars, rows
  <2> QED BY <2>1, <1>6
<1> QED
  BY <1>1, <1>2, <1>3, <1>4, <1>5, <1>6, <1>7, <1>8, <1>9 DEF Next, ClaimStep, PollStep

\* claim_device, register_complete, delete_device: for any number of pairings,
\* devices, claims in flight, unpairs, restarts and resets, every activation of
\* a device is one completion of a pairing bound to it, each pairing is bound
\* once and completed once, and a re-claim or an unpair ends the device's trust
\* unless it loaded the device before the activation it commits after.
THEOREM ImplementsEnrolment == Spec => KeepsEnrolment
<1>1. Init => Desk!Init
  BY PairingAssumption DEF Init, Desk!Init, Blind, IdleClaim, IdleUnpair
<1> QED
  BY <1>1, TypedInit, TypedStep, CodeInit, CodeStep, FreshInit, FreshStep, StepEnrols, PTL
  DEF Spec, KeepsEnrolment, Desk!Spec
=============================================================================
