------------------------------ MODULE Archive ------------------------------
(***************************************************************************)
(* What the stack promises of uploaded files, with no word of handlers,    *)
(* tables, objects, slots or restarts. While a row is open, a file is      *)
(* readable from the answer to its upload on. A deletion, once begun, may  *)
(* never finish; meanwhile the files of its row come and go. After it, no  *)
(* file of the row is ever read again.                                     *)
(***************************************************************************)
CONSTANTS Rows, Key    \* a key is a row and a name

VARIABLES
  stage,     \* of each row: open, ending or gone
  shelf,     \* the files that can be read
  answered   \* the files whose upload was answered "stored"

avars == <<stage, shelf, answered>>

Init ==
  /\ stage = [r \in Rows |-> "open"]
  /\ shelf = {} /\ answered = {}

Upload(k) ==
  /\ stage[k[1]] = "open"
  /\ shelf' = shelf \cup {k} /\ answered' = answered \cup {k}
  /\ UNCHANGED stage

BeginDeletion(r) ==
  /\ stage[r] = "open"
  /\ stage' = [stage EXCEPT ![r] = "ending"]
  /\ UNCHANGED <<shelf, answered>>

\* A late upload, a deleted object, a reconcile run; an upload of a file that
\* was there already may be answered even after its row is gone.
Waver ==
  LET loose == {k \in Key : stage[k[1]] = "ending"}
      late == {k \in Key : stage[k[1]] # "open"} IN
  /\ shelf' \ loose = shelf \ loose
  /\ answered \subseteq answered' /\ answered' \subseteq answered \cup late
  /\ UNCHANGED stage

EndDeletion(rows) ==
  /\ \A r \in rows : stage[r] # "open"
  /\ stage' = [r \in Rows |-> IF r \in rows THEN "gone" ELSE stage[r]]
  /\ shelf' = {k \in shelf : k[1] \notin rows}
  /\ UNCHANGED answered

Next ==
  \/ \E k \in Key : Upload(k)
  \/ \E r \in Rows : BeginDeletion(r)
  \/ Waver
  \/ \E rows \in SUBSET Rows : EndDeletion(rows)

Spec == Init /\ [][Next]_avars
=============================================================================
