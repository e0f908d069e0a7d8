---------------------------- MODULE FanoutProofs ----------------------------
(***************************************************************************)
(* Theorems about Accounts and Fanout, for any users, browsers, sessions,  *)
(* sockets and events.                                                     *)
(***************************************************************************)
EXTENDS Fanout, SequenceTheorems, TLAPS

Requests ==
  [pc : {"idle", "setup", "login", "logout", "verify", "update", "commit"},
   user : Users \cup {None}, verified : 0 .. MaxPasswords,
   session : Sessions \cup {None}, others : SUBSET Sessions]

SessionRows ==
  [user : Users \cup {None}, verified : 0 .. MaxPasswords, upto : 0 .. MaxPasswords,
   state : {"none", "open", "revoked", "expired"}]

\* A session belongs to a user who exists.
Owned ==
  \A s \in Sessions :
    /\ session[s].state = "none" => session[s].user = None
    /\ session[s].state # "none" =>
         session[s].user \in Users /\ password[session[s].user] >= 1

\* What a handler has read still holds.
Good(q) ==
  /\ q.pc # "idle" => q.user \in Users
  /\ q.pc \in {"login", "logout", "verify", "update", "commit"} => password[q.user] >= 1
  /\ q.pc \in {"logout", "verify", "update", "commit"} =>
       /\ q.session \in Sessions /\ session[q.session].user = q.user
       /\ session[q.session].state # "none"
  /\ q.pc = "commit" =>
       /\ password[q.user] < scenario.passwords
       /\ \A s \in q.others \cap Sessions :
            session[s].user = q.user /\ session[s].state # "none"

\* A session that a change about to commit will leave open is its own, or was
\* opened after the change had chosen which to end.
Newer(q) ==
  \A s \in Sessions \ (q.others \cup {q.session}) :
    session[s].state = "open" /\ session[s].user = q.user =>
      session[s].upto > password[q.user]

Requested ==
  \A c \in Clients : Good(request[c]) /\ (request[c].pc = "commit" => Newer(request[c]))

\* The row lock: one change of a user's password at a time.
OneChange ==
  \A c, d \in Clients :
    request[c].pc = "commit" /\ request[d].pc = "commit" /\ request[c].user = request[d].user
      => c = d

AInv == AccountsTypeOK /\ Owned /\ Requested /\ OneChange /\ SeenSignedOut
-----------------------------------------------------------------------------
(* Accounts *)

LEMMA AccountsTypes ==
  AccountsTypeOK <=> /\ scenario \in Scenarios /\ password \in [Users -> 0 .. MaxPasswords]
                     /\ session \in [Sessions -> SessionRows]
                     /\ cookie \in [Clients -> Sessions \cup {None}]
                     /\ request \in [Clients -> Requests]
BY DEF AccountsTypeOK, SessionRows, Requests

LEMMA Blank ==
  /\ Idle \in Requests /\ Idle.pc = "idle"
  /\ NoSession \in SessionRows /\ NoSession.state = "none" /\ NoSession.user = None
BY AccountsAssumption DEF Idle, Requests, NoSession, SessionRows

LEMMA AccountsStart == AccountsInit => AInv
<1> SUFFICES ASSUME AccountsInit PROVE AInv OBVIOUS
<1>1. AccountsTypeOK
  BY Blank, AccountsAssumption, AccountsTypes DEF AccountsInit
<1>2. \A c \in Clients : request[c].pc = "idle" BY Blank DEF AccountsInit
<1>3. \A s \in Sessions : session[s].state = "none" /\ session[s].user = None
  BY Blank DEF AccountsInit
<1> QED BY <1>1, <1>2, <1>3 DEF AInv, Owned, Requested, Good, OneChange, SeenSignedOut

\* A step in which one handler reads, ends or dies.
LEMMA RequestStep ==
  ASSUME AInv, UNCHANGED <<scenario, password, session, cookie>>,
         NEW c \in Clients, NEW q \in Requests, request' = [request EXCEPT ![c] = q],
         Good(q),
         q.pc = "commit" =>
           /\ Newer(q)
           /\ \A d \in Clients \ {c} : ~(request[d].pc = "commit" /\ request[d].user = q.user)
  PROVE  AInv'
<1>1. \A d \in Clients : request'[d] = IF d = c THEN q ELSE request[d]
  BY AccountsTypes DEF AInv
<1>2. AccountsTypeOK'
  <2>1. request' \in [Clients -> Requests] BY AccountsTypes DEF AInv
  <2> QED BY <2>1 DEF AInv, AccountsTypeOK, Requests
<1>3. Requested'
  <2>1. \A d \in Clients : Good(request'[d])
        /\ (request'[d].pc = "commit" => Newer(request'[d]))
    BY <1>1 DEF AInv, Requested
  <2> QED BY <2>1 DEF Requested, Good, Newer
<1>4. OneChange' BY <1>1 DEF AInv, OneChange
<1>5. Owned' /\ SeenSignedOut' BY DEF AInv, Owned, SeenSignedOut
<1> QED BY <1>2, <1>3, <1>4, <1>5 DEF AInv

LEMMA ReadStep ==
  ASSUME AInv, NEW c \in Clients,
         SetupCheck(c) \/ LoginVerify(c) \/ LoadSession(c) \/ RequestDies(c)
  PROVE  AInv'
<1>0. UNCHANGED <<scenario, password, session, cookie>>
  BY DEF SetupCheck, LoginVerify, LoadSession, RequestDies
<1>1. CASE SetupCheck(c)
  <2>1. PICK u \in scenario.users :
          request' = [request EXCEPT ![c] = [UserRead(u) EXCEPT !.pc = "setup"]]
    BY <1>1 DEF SetupCheck, Begin
  <2>2. u \in Users BY AccountsAssumption DEF AInv, AccountsTypeOK
  <2> DEFINE q == [UserRead(u) EXCEPT !.pc = "setup"]
  <2>3. q \in Requests /\ q.pc = "setup" /\ q.user = u
    BY <2>2, Blank DEF UserRead, Requests
  <2> HIDE DEF q
  <2>4. Good(q) BY <2>2, <2>3 DEF Good
  <2> QED BY <1>0, <2>1, <2>3, <2>4, RequestStep DEF q
<1>2. CASE LoginVerify(c)
  <2>1. PICK u \in Users : /\ password[u] > 0
                           /\ request' = [request EXCEPT ![c] =
                                [UserRead(u) EXCEPT !.pc = "login", !.verified = password[u]]]
    BY <1>2 DEF LoginVerify, Begin
  <2> DEFINE q == [UserRead(u) EXCEPT !.pc = "login", !.verified = password[u]]
  <2>2. q \in Requests /\ q.pc = "login" /\ q.user = u
    BY AccountsAssumption DEF AInv, AccountsTypeOK, UserRead, Idle, Requests
  <2> HIDE DEF q
  <2>3. Good(q)
    <3>1. password[u] \in Nat BY AccountsAssumption DEF AInv, AccountsTypeOK
    <3> QED BY <2>1, <2>2, <3>1 DEF Good
  <2> QED BY <1>0, <2>1, <2>2, <2>3, RequestStep DEF q
<1>3. CASE LoadSession(c)
  <2>1. PICK s \in Sessions : s = cookie[c] /\ session[s].state = "open"
    BY <1>3 DEF LoadSession, SignedIn, AInv, AccountsTypeOK
  <2>2. PICK to \in {"logout", "verify"} :
          request' = [request EXCEPT ![c] =
            [UserRead(session[s].user) EXCEPT !.pc = to, !.session = s]]
    BY <1>3, <2>1 DEF LoadSession, Begin
  <2>3. session[s].user \in Users /\ password[session[s].user] >= 1
    BY <2>1 DEF AInv, Owned
  <2> DEFINE q == [UserRead(session[s].user) EXCEPT !.pc = to, !.session = s]
  <2>4. /\ q \in Requests /\ q.pc = to /\ q.user = session[s].user /\ q.session = s
    BY <2>3, Blank DEF UserRead, Requests
  <2> HIDE DEF q
  <2>5. Good(q) BY <2>1, <2>2, <2>3, <2>4 DEF Good
  <2>6. q.pc # "commit" BY <2>2, <2>4
  <2> QED BY <1>0, <2>2, <2>4, <2>5, <2>6, RequestStep DEF q
<1>4. CASE RequestDies(c)
  <2>1. request' = [request EXCEPT ![c] = Idle] BY <1>4 DEF RequestDies, End
  <2>2. Good(Idle) BY Blank DEF Good
  <2> QED BY <1>0, <2>1, <2>2, Blank, RequestStep
<1> QED BY <1>1, <1>2, <1>3, <1>4

LEMMA ChangeReadStep ==
  ASSUME AInv, NEW c \in Clients, ChangeVerify(c) \/ ChangeSelect(c)
  PROVE  AInv'
<1>0. UNCHANGED <<scenario, password, session, cookie>> BY DEF ChangeVerify, ChangeSelect
<1>1. request[c] \in Requests /\ Good(request[c])
  BY AccountsTypes DEF AInv, Requested
<1>2. CASE ChangeVerify(c)
  <2>1. CASE End(c)
    <3>1. request' = [request EXCEPT ![c] = Idle] BY <2>1 DEF End
    <3>2. Good(Idle) BY Blank DEF Good
    <3> QED BY <1>0, <3>1, <3>2, Blank, RequestStep
  <2>2. CASE Step(c, "verify", "update")
    <3> DEFINE q == [request[c] EXCEPT !.pc = "update"]
    <3>1. request[c].pc = "verify" /\ request' = [request EXCEPT ![c] = q]
      BY <2>2 DEF Step
    <3>2. /\ q \in Requests /\ q.pc = "update" /\ q.user = request[c].user
          /\ q.session = request[c].session
      BY <1>1 DEF Requests
    <3> HIDE DEF q
    <3>3. Good(q) BY <1>1, <3>1, <3>2 DEF Good
    <3> QED BY <1>0, <3>1, <3>2, <3>3, RequestStep
  <2> QED BY <1>2, <2>1, <2>2 DEF ChangeVerify
<1>3. CASE ChangeSelect(c)
  <2> DEFINE u == request[c].user
             others == {s \in Sessions \ {request[c].session} :
                          session[s].user = u /\ session[s].state # "revoked"}
             q == [[request[c] EXCEPT !.pc = "commit"] EXCEPT !.others = others]
  <2>1. /\ request[c].pc = "update" /\ ~Changing(u) /\ password[u] < scenario.passwords
        /\ request' = [request EXCEPT ![c] = q]
    BY <1>1, <1>3 DEF ChangeSelect, AInv, AccountsTypeOK
  <2>2. others \in SUBSET Sessions OBVIOUS
  <2> HIDE DEF others
  <2>3. /\ q \in Requests /\ q.pc = "commit" /\ q.user = u /\ q.others = others
        /\ q.session = request[c].session
    BY <1>1, <2>2 DEF Requests
  <2> HIDE DEF q
  <2>4. Good(q)
    <3>1. u \in Users /\ u # None BY <1>1, <2>1, AccountsAssumption DEF Good
    <3>2. \A s \in others : session[s].user = u /\ session[s].state # "none"
      BY <3>1 DEF others, AInv, Owned
    <3>3. u = request[c].user OBVIOUS
    <3> HIDE DEF u
    <3> QED BY <1>1, <2>1, <2>3, <3>2, <3>3 DEF Good
  <2>5. Newer(q)
    <3>1. \A s \in Sessions \ (others \cup {request[c].session}) :
            session[s].user = u => session[s].state = "revoked"
      BY DEF others
    <3> QED BY <2>3, <3>1 DEF Newer
  <2>6. \A d \in Clients \ {c} : ~(request[d].pc = "commit" /\ request[d].user = q.user)
    BY <2>1, <2>3 DEF Changing
  <2> QED BY <1>0, <2>1, <2>3, <2>4, <2>5, <2>6, RequestStep
<1> QED BY <1>2, <1>3

LEMMA EstablishStep ==
  ASSUME AInv, NEW c \in Clients, NEW u \in Users, NEW version \in 0 .. MaxPasswords,
         NEW current \in 1 .. MaxPasswords,
         Establish(c, u, version, current), scenario' = scenario,
         request' = [request EXCEPT ![c] = Idle],
         password' = [password EXCEPT ![u] = current], password[u] \in {0, current}
  PROVE  AInv'
<1> DEFINE upto == IF Changing(u) THEN current + 1 ELSE current
           row == [user |-> u, state |-> "open", verified |-> version, upto |-> upto]
<1>1. PICK s \in 1 .. scenario.sessions :
        /\ session[s] = NoSession
        /\ session' = [session EXCEPT ![s] = row] /\ cookie' = [cookie EXCEPT ![c] = s]
  BY DEF Establish
<1>2. s \in Sessions
  <2>1. scenario.sessions \in 0 .. MaxSessions
    BY AccountsAssumption DEF AInv, AccountsTypeOK
  <2> QED BY <2>1, AccountsAssumption DEF Sessions
<1>3. Changing(u) => current < MaxPasswords /\ password[u] = current
  <2> SUFFICES ASSUME Changing(u) PROVE current < MaxPasswords /\ password[u] = current OBVIOUS
  <2>1. PICK d \in Clients : request[d].pc = "commit" /\ request[d].user = u BY DEF Changing
  <2>2. Good(request[d]) BY DEF AInv, Requested
  <2>3. password[u] >= 1 /\ password[u] < scenario.passwords BY <2>1, <2>2 DEF Good
  <2>4. scenario.passwords \in 1 .. MaxPasswords
    BY AccountsAssumption DEF AInv, AccountsTypeOK
  <2> QED BY <2>3, <2>4, AccountsAssumption
<1>4. /\ upto \in 0 .. MaxPasswords /\ upto >= current
      /\ Changing(u) => upto > current
  BY <1>3, AccountsAssumption
<1> HIDE DEF upto
<1>5. row \in SessionRows /\ row.user = u /\ row.state = "open" /\ row.upto = upto
  BY <1>4 DEF SessionRows
<1> HIDE DEF row
<1>6. /\ \A t \in Sessions : session'[t] = IF t = s THEN row ELSE session[t]
      /\ \A v \in Users : password'[v] = IF v = u THEN current ELSE password[v]
      /\ \A d \in Clients : request'[d] = IF d = c THEN Idle ELSE request[d]
  BY <1>1, AccountsTypes DEF AInv
<1>7. AccountsTypeOK'
  <2>1. /\ session' \in [Sessions -> SessionRows] /\ cookie' \in [Clients -> Sessions \cup {None}]
        /\ request' \in [Clients -> Requests] /\ password' \in [Users -> 0 .. MaxPasswords]
    BY <1>1, <1>2, <1>5, Blank, AccountsTypes, AccountsAssumption DEF AInv
  <2> QED BY <2>1 DEF AInv, AccountsTypeOK, Requests, SessionRows
<1>8. /\ \A v \in Users :
           /\ password'[v] >= password[v]
           /\ password'[v] # password[v] => v = u /\ password[u] = 0
      /\ password'[u] >= 1
  <2>1. \A v \in Users : password[v] \in Nat BY AccountsAssumption DEF AInv, AccountsTypeOK
  <2> QED BY <1>6, <2>1, AccountsAssumption
<1>9. Owned'
  <2>1. \A v \in Users : password[v] >= 1 => password'[v] >= 1
    BY <1>8, AccountsAssumption DEF AInv, AccountsTypeOK
  <2> QED BY <1>5, <1>6, <1>8, <2>1 DEF AInv, Owned
<1>10. session[s].state = "none" BY <1>1, Blank
<1>11. \A t \in Sessions :
         session[t].state # "none" => password'[session[t].user] = password[session[t].user]
  <2>1. \A t \in Sessions : session[t].state # "none" =>
          session[t].user \in Users /\ password[session[t].user] >= 1
    BY DEF AInv, Owned
  <2> QED BY <1>8, <2>1
<1>12. SeenSignedOut'
  <2>1. \A t \in Sessions \ {s} : session[t].state = "open" =>
          session[t].upto >= password'[session[t].user]
    BY <1>11 DEF AInv, SeenSignedOut
  <2>2. row.upto >= password'[row.user] BY <1>4, <1>5, <1>6
  <2>3. \A t \in Sessions : session'[t].state = "open" =>
          session'[t].upto >= password'[session'[t].user]
    BY <1>6, <2>1, <2>2
  <2> QED BY <2>3 DEF SeenSignedOut
<1>13. OneChange' BY <1>6, Blank DEF AInv, OneChange
<1>14. Requested'
  <2> SUFFICES ASSUME NEW d \in Clients, d # c
               PROVE  Good(request[d])' /\ (request[d].pc = "commit" => Newer(request[d])')
    <3>1. request'[c].pc = "idle" BY <1>6, Blank
    <3>2. Good(request[c])' BY <3>1 DEF Good
    <3>3. \A d \in Clients \ {c} : request'[d] = request[d] BY <1>6
    <3> QED BY <3>1, <3>2, <3>3 DEF Requested
  <2>1. request'[d] = request[d] /\ Good(request[d]) BY <1>6 DEF AInv, Requested
  <2>2. request[d].pc \in {"login", "logout", "verify", "update", "commit"} =>
          request[d].user \in Users /\ password'[request[d].user] = password[request[d].user]
    <3>1. \A v \in Users : password[v] >= 1 => password'[v] = password[v] BY <1>8
    <3> QED BY <2>1, <3>1 DEF Good
  <2>3. Good(request[d])'
    BY <1>6, <1>10, <2>1, <2>2 DEF Good
  <2>4. ASSUME request[d].pc = "commit" PROVE Newer(request[d])'
    <3>1. Newer(request[d]) BY <2>4 DEF AInv, Requested
    <3>2. request[d].user = u => Changing(u) BY <2>4 DEF Changing
    <3>3. request[d].user = u => row.upto > password'[request[d].user]
      BY <1>4, <1>5, <1>6, <3>2
    <3>4. password'[request[d].user] = password[request[d].user] BY <2>2, <2>4
    <3> QED BY <1>5, <1>6, <2>1, <3>1, <3>3, <3>4 DEF Newer
  <2> QED BY <2>3, <2>4
<1> QED BY <1>7, <1>9, <1>12, <1>13, <1>14 DEF AInv

LEMMA CommitStep ==
  ASSUME AInv, NEW c \in Clients, SetupCommit(c) \/ LoginCommit(c)
  PROVE  AInv'
<1>1. /\ request' = [request EXCEPT ![c] = Idle] /\ scenario' = scenario
      /\ request[c] \in Requests /\ Good(request[c])
  BY AccountsTypes DEF SetupCommit, LoginCommit, End, AInv, Requested
<1> DEFINE u == request[c].user
<1>2. CASE LoginCommit(c)
  <2>1. u \in Users /\ password[u] >= 1 BY <1>1, <1>2 DEF LoginCommit, Good
  <2>2. password[u] \in 1 .. MaxPasswords
    BY <2>1, AccountsAssumption DEF AInv, AccountsTypeOK
  <2>3. /\ Establish(c, u, request[c].verified, password[u]) /\ password' = password
        /\ request[c].verified \in 0 .. MaxPasswords
    BY <1>1, <1>2 DEF LoginCommit, Requests
  <2>4. password' = [password EXCEPT ![u] = password[u]]
    BY <2>1, <2>3 DEF AInv, AccountsTypeOK
  <2> QED BY <1>1, <2>1, <2>2, <2>3, <2>4, EstablishStep
<1>3. CASE SetupCommit(c)
  <2>1. u \in Users BY <1>1, <1>3 DEF SetupCommit, Good
  <2>2. CASE password[u] = 0
    <3>1. Establish(c, u, 1, 1) /\ password' = [password EXCEPT ![u] = 1]
      BY <1>3, <2>2 DEF SetupCommit
    <3>2. 1 \in 1 .. MaxPasswords /\ 1 \in 0 .. MaxPasswords BY AccountsAssumption
    <3> QED BY <1>1, <2>1, <2>2, <3>1, <3>2, EstablishStep
  <2>3. CASE password[u] # 0
    <3>1. UNCHANGED <<scenario, password, session, cookie>>
      BY <1>3, <2>3 DEF SetupCommit
    <3>2. Good(Idle) BY Blank DEF Good
    <3> QED BY <1>1, <3>1, <3>2, Blank, RequestStep
  <2> QED BY <2>2, <2>3
<1> QED BY <1>2, <1>3

\* A step in which sessions end, and nothing else happens to them.
LEMMA EndingStep ==
  ASSUME AInv, UNCHANGED <<scenario, password>>,
         cookie' \in [Clients -> Sessions \cup {None}],
         \/ request' = request
         \/ \E c \in Clients : request' = [request EXCEPT ![c] = Idle],
         session' \in [Sessions -> SessionRows],
         \A s \in Sessions : \/ session'[s] = session[s]
                             \/ /\ session'[s].user = session[s].user
                                /\ session[s].state # "none"
                                /\ session'[s].state \in {"revoked", "expired"}
  PROVE  AInv'
<1>1. /\ request' \in [Clients -> Requests]
      /\ \A d \in Clients : request'[d] = request[d] \/ request'[d] = Idle
  <2>1. CASE request' = request BY <2>1, AccountsTypes DEF AInv
  <2>2. ASSUME NEW c \in Clients, request' = [request EXCEPT ![c] = Idle]
        PROVE  /\ request' \in [Clients -> Requests]
               /\ \A d \in Clients : request'[d] = request[d] \/ request'[d] = Idle
    BY <2>2, Blank, AccountsTypes DEF AInv
  <2> QED BY <2>1, <2>2
<1>2. AccountsTypeOK' BY <1>1 DEF AInv, AccountsTypeOK, Requests, SessionRows
<1>3. Owned' BY DEF AInv, Owned
<1>4. SeenSignedOut' BY DEF AInv, SeenSignedOut
<1>5. OneChange' BY <1>1, Blank DEF AInv, OneChange
<1>6. Requested'
  <2>1. ASSUME NEW d \in Clients
        PROVE  Good(request[d])' /\ (request'[d].pc = "commit" => Newer(request[d])')
    <3>1. CASE request'[d] = Idle BY <3>1, Blank DEF Good
    <3>2. CASE request'[d] = request[d] /\ request'[d] # Idle
      <4>1. Good(request[d])' BY <3>2 DEF AInv, Requested, Good
      <4>2. request[d].pc = "commit" => Newer(request[d])'
        BY <3>2 DEF AInv, Requested, Newer
      <4> QED BY <3>2, <4>1, <4>2
    <3> QED BY <1>1, <3>1, <3>2
  <2> QED BY <2>1 DEF Requested
<1> QED BY <1>2, <1>3, <1>4, <1>5, <1>6 DEF AInv

LEMMA SessionEndStep ==
  ASSUME AInv, (\E c \in Clients : LogoutCommit(c)) \/ \E s \in Sessions : Expires(s)
  PROVE  AInv'
<1>1. ASSUME NEW c \in Clients, LogoutCommit(c) PROVE AInv'
  <2> DEFINE s == request[c].session
             row == [session[s] EXCEPT !.state = "revoked"]
  <2>1. /\ s \in Sessions /\ session[s].state # "none"
        /\ request' = [request EXCEPT ![c] = Idle] /\ UNCHANGED <<scenario, password>>
        /\ cookie' = [cookie EXCEPT ![c] = None]
        /\ session' = [session EXCEPT ![s] = row]
    BY <1>1 DEF LogoutCommit, End, AInv, Requested, Good
  <2>2. row \in SessionRows /\ row.user = session[s].user /\ row.state = "revoked"
    BY <2>1, AccountsTypes DEF AInv, SessionRows
  <2> HIDE DEF row, s
  <2>3. session' \in [Sessions -> SessionRows]
        /\ \A t \in Sessions : session'[t] = IF t = s THEN row ELSE session[t]
    BY <2>1, <2>2, AccountsTypes DEF AInv
  <2>4. cookie' \in [Clients -> Sessions \cup {None}] BY <2>1, AccountsTypes DEF AInv
  <2> QED BY <2>1, <2>2, <2>3, <2>4, EndingStep
<1>2. ASSUME NEW s \in Sessions, Expires(s) PROVE AInv'
  <2> DEFINE row == [session[s] EXCEPT !.state = "expired"]
  <2>1. /\ session[s].state # "none" /\ UNCHANGED <<scenario, password, cookie, request>>
        /\ session' = [session EXCEPT ![s] = row]
    BY <1>2 DEF Expires
  <2>2. row \in SessionRows /\ row.user = session[s].user /\ row.state = "expired"
    BY <2>1, AccountsTypes DEF AInv, SessionRows
  <2> HIDE DEF row
  <2>3. session' \in [Sessions -> SessionRows]
        /\ \A t \in Sessions : session'[t] = IF t = s THEN row ELSE session[t]
    BY <2>1, <2>2, AccountsTypes DEF AInv
  <2>4. cookie' \in [Clients -> Sessions \cup {None}] BY <2>1, AccountsTypes DEF AInv
  <2> QED BY <2>1, <2>2, <2>3, <2>4, EndingStep
<1> QED BY <1>1, <1>2

LEMMA ChangeCommitStep == ASSUME AInv, NEW c \in Clients, ChangeCommit(c) PROVE AInv'
<1> DEFINE u == request[c].user
           own == request[c].session
           others == request[c].others
           kept(s) == [session[s] EXCEPT !.verified = password[u] + 1, !.upto = password[u] + 1]
           ended(s) == [session[s] EXCEPT !.state = "revoked"]
<1>1. /\ request[c].pc = "commit" /\ Good(request[c]) /\ Newer(request[c])
      /\ request' = [request EXCEPT ![c] = Idle] /\ UNCHANGED <<scenario, cookie>>
      /\ password' = [password EXCEPT ![u] = password[u] + 1]
  BY DEF ChangeCommit, End, AInv, Requested, AccountsTypeOK
<1>2. /\ u \in Users /\ password[u] \in 1 .. MaxPasswords - 1
      /\ own \in Sessions /\ session[own].user = u /\ session[own].state # "none"
  <2>1. password[u] < scenario.passwords /\ scenario.passwords \in 1 .. MaxPasswords
    BY <1>1, AccountsAssumption DEF Good, AInv, AccountsTypeOK
  <2>2. u \in Users /\ password[u] >= 1 /\ password[u] \in 0 .. MaxPasswords
    BY <1>1 DEF Good, AInv, AccountsTypeOK
  <2> QED BY <1>1, <2>1, <2>2, AccountsAssumption DEF Good
<1>3. \A s \in Sessions :
        session'[s] = IF s \in others THEN ended(s) ELSE IF s = own THEN kept(s) ELSE session[s]
  BY DEF ChangeCommit
<1>4. \A s \in Sessions :
        /\ ended(s) \in SessionRows /\ ended(s).user = session[s].user
        /\ ended(s).state = "revoked"
        /\ kept(s) \in SessionRows /\ kept(s).user = session[s].user
        /\ kept(s).state = session[s].state /\ kept(s).upto = password[u] + 1
  <2> SUFFICES ASSUME NEW s \in Sessions
               PROVE  /\ ended(s) \in SessionRows /\ ended(s).user = session[s].user
                      /\ ended(s).state = "revoked"
                      /\ kept(s) \in SessionRows /\ kept(s).user = session[s].user
                      /\ kept(s).state = session[s].state /\ kept(s).upto = password[u] + 1
    OBVIOUS
  <2>1. session[s] \in SessionRows BY AccountsTypes DEF AInv
  <2>2. password[u] + 1 \in 0 .. MaxPasswords BY <1>2, AccountsAssumption
  <2> QED BY <2>1, <2>2 DEF SessionRows
<1> HIDE DEF kept, ended
<1>5. /\ \A v \in Users : password'[v] = IF v = u THEN password[u] + 1 ELSE password[v]
      /\ \A d \in Clients : request'[d] = IF d = c THEN Idle ELSE request[d]
  BY <1>1, <1>2, AccountsTypes DEF AInv
<1>6. \A d \in Clients \ {c} : request[d].pc = "commit" => request[d].user # u
  BY <1>1 DEF AInv, OneChange
<1>7. AccountsTypeOK'
  <2>1. \A s \in Sessions : session'[s] \in SessionRows
    BY <1>3, <1>4, AccountsTypes DEF AInv
  <2>2. session' \in [Sessions -> SessionRows] BY <2>1 DEF ChangeCommit
  <2>3. request' \in [Clients -> Requests] /\ password' \in [Users -> 0 .. MaxPasswords]
    BY <1>1, <1>2, Blank, AccountsTypes, AccountsAssumption DEF AInv
  <2> QED BY <1>1, <2>2, <2>3 DEF AInv, AccountsTypeOK, Requests, SessionRows
<1>8. /\ \A s \in Sessions : session'[s].user = session[s].user
      /\ \A s \in Sessions : session'[s].state # "none" <=> session[s].state # "none"
      /\ \A v \in Users : password[v] >= 1 => password'[v] >= 1
  <2>1. \A s \in others \cap Sessions : session[s].state # "none" BY <1>1 DEF Good
  <2> QED BY <1>2, <1>3, <1>4, <1>5, <2>1
<1>9. Owned' BY <1>5, <1>8 DEF AInv, Owned
<1>10. SeenSignedOut'
  <2> SUFFICES ASSUME NEW s \in Sessions, session'[s].state = "open"
               PROVE  session'[s].upto >= password'[session'[s].user]
    BY DEF SeenSignedOut
  <2>1. s \notin others BY <1>3, <1>4
  <2>2. CASE s = own BY <1>2, <1>3, <1>4, <1>5, <1>8, <2>1, <2>2
  <2>3. CASE s # own
    <3>1. session'[s] = session[s] BY <1>3, <2>1, <2>3
    <3>2. CASE session[s].user = u
      <4>1. session[s].upto > password[u] /\ session[s].upto \in 0 .. MaxPasswords
        BY <1>1, <2>1, <2>3, <3>1, <3>2, AccountsTypes DEF Newer, AInv, SessionRows
      <4> QED BY <1>2, <1>5, <3>1, <3>2, <4>1, AccountsAssumption
    <3>3. CASE session[s].user # u
      <4>1. session[s].user \in Users BY <3>1 DEF AInv, Owned
      <4> QED BY <1>5, <3>1, <3>3, <4>1 DEF AInv, SeenSignedOut
    <3> QED BY <3>2, <3>3
  <2> QED BY <2>2, <2>3
<1>11. OneChange' BY <1>5, Blank DEF AInv, OneChange
<1>12. Requested'
  <2>1. ASSUME NEW d \in Clients
        PROVE  Good(request[d])' /\ (request'[d].pc = "commit" => Newer(request[d])')
    <3>1. CASE d = c BY <1>5, <3>1, Blank DEF Good
    <3>2. CASE d # c
      <4>1. request'[d] = request[d] /\ Good(request[d]) BY <1>5, <3>2 DEF AInv, Requested
      <4>2. Good(request[d])' BY <1>5, <1>6, <1>8, <1>1, <3>2, <4>1 DEF Good
      <4>3. ASSUME request[d].pc = "commit" PROVE Newer(request[d])'
        <5>1. /\ Newer(request[d]) /\ request[d].user # u
              /\ password'[request[d].user] = password[request[d].user]
          BY <1>5, <1>6, <3>2, <4>1, <4>3 DEF AInv, Requested, Good
        <5>2. \A s \in Sessions :
                session'[s].state = "open" /\ session'[s].user = request[d].user =>
                  session'[s] = session[s]
          BY <1>2, <1>3, <1>4, <1>8, <5>1
        <5> QED BY <4>1, <5>1, <5>2 DEF Newer
      <4> QED BY <4>1, <4>2, <4>3
    <3> QED BY <3>1, <3>2
  <2> QED BY <2>1 DEF Requested
<1> QED BY <1>7, <1>9, <1>10, <1>11, <1>12 DEF AInv

LEMMA AccountsStep == AInv /\ AccountsNext => AInv'
BY ReadStep, ChangeReadStep, CommitStep, SessionEndStep, ChangeCommitStep DEF AccountsNext
LEMMA AccountsKept == ASSUME AInv, UNCHANGED accounts PROVE AInv'
BY DEF AInv, accounts, AccountsTypeOK, Owned, Requested, Good, Newer, OneChange, SeenSignedOut
-----------------------------------------------------------------------------
(* The registry and the feed *)

\* The registry: only open sockets, under their user; all of them but those
\* given up.
Registered ==
  /\ \A k \in Sockets : link[k] # "new" => tag[k] \in Users
  /\ \A u \in Users : \A k \in registry[u] : link[k] = "open" /\ tag[k] = u
  /\ \A k \in Sockets \ dropped : link[k] = "open" => k \in registry[tag[k]]

\* The subscriber works through the events in order: what is in hand is newer
\* than what was sent, and what waits is newer than both.
Ordered ==
  /\ \A k \in Sockets : link[k] = "new" => got[k] = <<>>
  /\ \A k \in Sockets : \A i \in DOMAIN got[k] :
       /\ got[k][i] \in DOMAIN event /\ Owner[event[got[k][i]]] = tag[k]
       /\ \A j \in DOMAIN queue : got[k][i] < queue[j]
       /\ sub.pc = "lookup" \/ (sub.pc = "send" /\ k \in sub.pending) => got[k][i] < sub.event
       /\ \A j \in DOMAIN got[k] : i < j => got[k][i] < got[k][j]
  /\ \A i \in DOMAIN queue :
       /\ queue[i] \in DOMAIN event
       /\ sub.pc \in {"lookup", "send"} => sub.event < queue[i]
       /\ \A j \in DOMAIN queue : i < j => queue[i] < queue[j]
  /\ sub.pc \in {"lookup", "send"} => sub.event \in DOMAIN event
  /\ sub.pc = "send" =>
       \A k \in sub.pending : tag[k] = Owner[event[sub.event]] /\ link[k] # "new"

FeedTypes ==
  /\ unpaired \subseteq Devices
  /\ link \in [Sockets -> {"new", "asking", "open", "closed"}]
  /\ tag \in [Sockets -> Users \cup {None}]
  /\ stalled \subseteq Sockets /\ dropped \subseteq Sockets
  /\ page \in [Clients -> Sockets \cup {None}]
  /\ registry \in [Users -> SUBSET Sockets]
  /\ event \in Seq(Devices) /\ Len(event) <= scenario.events /\ queue \in Seq(1 .. MaxEvents)
  /\ sub \in [pc : {"idle", "lookup", "send", "dead"}, event : 0 .. MaxEvents,
              pending : SUBSET Sockets, failed : SUBSET Sockets]
  /\ cache \subseteq Devices
  /\ got \in [Sockets -> Seq(1 .. MaxEvents)]
  /\ faults \in 0 .. scenario.faults

Feed == FeedTypes /\ Registered /\ Ordered
Inv == AInv /\ Feed

LEMMA Bounds ==
  ASSUME AInv
  PROVE  /\ scenario.faults \in Nat /\ scenario.events \in 0 .. MaxEvents
         /\ MaxEvents \in Nat /\ MaxSockets \in Nat /\ Sockets \subseteq Nat
         /\ None \notin Users /\ None \notin Sockets
         /\ \A d \in Devices : Owner[d] \in Users
BY FanoutAssumption, AccountsAssumption DEF AInv, AccountsTypeOK, Sockets

LEMMA WaitingType ==
  ASSUME AInv
  PROVE  /\ Waiting \in [pc : {"idle", "lookup", "send", "dead"}, event : 0 .. MaxEvents,
                         pending : SUBSET Sockets, failed : SUBSET Sockets]
         /\ Waiting.pc = "idle"
BY Bounds DEF Waiting

LEMMA InitInv == Init => Inv
<1> SUFFICES ASSUME Init PROVE Inv OBVIOUS
<1>1. AInv BY AccountsStart DEF Init
<1>2. FeedTypes BY <1>1, Bounds, WaitingType DEF Init, FeedTypes
<1>3. Registered BY DEF Init, Registered
<1>4. Ordered BY <1>1, WaitingType DEF Init, Ordered
<1> QED BY <1>1, <1>2, <1>3, <1>4 DEF Inv, Feed

\* Steps that leave the subscriber and its events alone.
LEMMA SocketStep ==
  ASSUME Inv,
         \/ \E c \in Clients, k \in Sockets : Ask(c, k)
         \/ \E k \in Sockets : Open(k) \/ Stall(k) \/ Resume(k) \/ Close(k)
  PROVE  Inv'
<1>1. ASSUME NEW c \in Clients, NEW k \in Sockets, Ask(c, k) PROVE Inv'
  <2>1. /\ link[k] = "new" /\ link' = [link EXCEPT ![k] = "asking"]
        /\ tag' = [tag EXCEPT ![k] = session[cookie[c]].user]
        /\ page' = [page EXCEPT ![c] = k]
        /\ UNCHANGED <<accounts, unpaired, stalled, registry, feed, faults>>
    BY <1>1 DEF Ask
  <2>2. session[cookie[c]].user \in Users
    <3>1. cookie[c] \in Sessions /\ session[cookie[c]].state = "open"
      BY <1>1 DEF Ask, SignedIn, Inv, AInv, AccountsTypeOK
    <3> QED BY <3>1 DEF Inv, AInv, Owned
  <2>3. AInv' BY <2>1, AccountsKept DEF Inv
  <2>4. \A j \in Sockets : /\ link'[j] = IF j = k THEN "asking" ELSE link[j]
                           /\ tag'[j] = IF j = k THEN session[cookie[c]].user ELSE tag[j]
    BY <2>1 DEF Inv, Feed, FeedTypes
  <2>5. FeedTypes'
    BY <2>1, <2>2 DEF Inv, Feed, FeedTypes, accounts, feed
  <2>6. Registered'
    BY <2>1, <2>2, <2>4 DEF Inv, Feed, FeedTypes, Registered, feed
  <2>7. Ordered'
    <3>1. got[k] = <<>> /\ (sub.pc = "send" => k \notin sub.pending)
      BY <2>1 DEF Inv, Feed, Ordered
    <3>2. \A j \in Sockets : j # k => link'[j] = link[j] /\ tag'[j] = tag[j] BY <2>4
    <3>3. UNCHANGED <<event, queue, sub, got>> BY <2>1 DEF feed
    <3>4. \A j \in Sockets : \A i \in DOMAIN got[j] : j # k BY <3>1
    <3> QED BY <2>4, <3>1, <3>2, <3>3, <3>4 DEF Inv, Feed, FeedTypes, Ordered
  <2> QED BY <2>3, <2>5, <2>6, <2>7 DEF Inv, Feed
<1>2. ASSUME NEW k \in Sockets, Open(k) \/ Stall(k) \/ Resume(k) \/ Close(k) PROVE Inv'
  <2>1. UNCHANGED <<accounts, unpaired, tag, feed>>
    BY <1>2 DEF Open, Stall, Resume, Close
  <2>2. AInv' BY <2>1, AccountsKept DEF Inv
  <2>3. \A j \in Sockets : link'[j] = "new" <=> link[j] = "new"
    BY <1>2 DEF Open, Stall, Resume, Close, Inv, Feed, FeedTypes
  <2>4. FeedTypes' /\ Registered'
    <3>1. CASE Open(k)
      <4>1. tag[k] \in Users BY <3>1 DEF Open, Inv, Feed, Registered
      <4> QED BY <2>1, <3>1, <4>1 DEF Open, Inv, Feed, FeedTypes, Registered, accounts, feed
    <3>2. CASE Stall(k)
      <4>1. faults' \in 0 .. scenario.faults
        BY <3>2, Bounds DEF Stall, Fault, Inv, Feed, FeedTypes
      <4> QED BY <2>1, <3>2, <4>1 DEF Stall, Inv, Feed, FeedTypes, Registered, accounts, feed
    <3>3. CASE Resume(k)
      <4>1. UNCHANGED <<link, page, registry, faults>> /\ stalled' \subseteq Sockets
        BY <3>3 DEF Resume, Inv, Feed, FeedTypes
      <4> QED BY <2>1, <4>1 DEF Inv, Feed, FeedTypes, Registered, accounts, feed
    <3>4. CASE Close(k)
      <4>1. page' \in [Clients -> Sockets \cup {None}] /\ stalled' \subseteq Sockets
            /\ link' = [link EXCEPT ![k] = "closed"] /\ UNCHANGED faults
        BY <3>4 DEF Close, Inv, Feed, FeedTypes
      <4>2. registry' \in [Users -> SUBSET Sockets]
            /\ \A u \in Users : registry'[u] = registry[u] \ {k}
        BY <3>4 DEF Close, Discard, Inv, Feed, FeedTypes
      <4>3. FeedTypes' BY <2>1, <4>1, <4>2 DEF Inv, Feed, FeedTypes, accounts, feed
      <4>4. \A j \in Sockets : link'[j] = IF j = k THEN "closed" ELSE link[j]
        BY <4>1 DEF Inv, Feed, FeedTypes
      <4>5. /\ \A j \in Sockets : link[j] # "new" => tag[j] \in Users
            /\ \A u \in Users : \A j \in registry[u] : link[j] = "open" /\ tag[j] = u
            /\ \A j \in Sockets \ dropped : link[j] = "open" => j \in registry[tag[j]]
            /\ \A u \in Users : registry[u] \subseteq Sockets
        BY DEF Inv, Feed, FeedTypes, Registered
      <4>6. link[k] # "new" /\ UNCHANGED <<tag, dropped>> BY <2>1, <3>4 DEF Close, feed
      <4>7. Registered' BY <4>2, <4>4, <4>5, <4>6 DEF Registered
      <4> QED BY <4>3, <4>7
    <3> QED BY <1>2, <3>1, <3>2, <3>3, <3>4
  <2>5. Ordered' BY <2>1, <2>3, <2>4 DEF Inv, Feed, FeedTypes, Ordered, feed
  <2> QED BY <2>2, <2>4, <2>5 DEF Inv, Feed
<1> QED BY <1>1, <1>2

\* Steps of devices: an event is newer than every other.
LEMMA PostStep ==
  ASSUME Inv, NEW d \in Devices, Publish(d) \/ Unpair(d) \/ PairAgain(d)
  PROVE  Inv'
<1>1. CASE Post(d) /\ UNCHANGED <<accounts, sockets, sub, cache, got, dropped, faults>>
           /\ unpaired' \subseteq Devices
  <2>1. /\ event \in Seq(Devices) /\ Len(event) < scenario.events
        /\ event' = Append(event, d)
        /\ queue' = IF sub.pc = "dead" THEN queue ELSE Append(queue, Len(event) + 1)
        /\ UNCHANGED <<accounts, sockets, sub, cache, got, dropped, faults>>
    BY <1>1 DEF Post, Inv, Feed, FeedTypes
  <2>2. AInv' BY <2>1, AccountsKept DEF Inv
  <2> DEFINE n == Len(event) + 1
  <2>3. n \in 1 .. MaxEvents /\ n <= scenario.events /\ \A i \in DOMAIN event : i < n
    BY <2>1, Bounds DEF Inv
  <2>4. /\ event' \in Seq(Devices) /\ Len(event') = n /\ DOMAIN event \subseteq DOMAIN event'
        /\ n \in DOMAIN event' /\ \A i \in DOMAIN event : event'[i] = event[i]
    BY <2>1
  <2>5. queue \in Seq(1 .. MaxEvents) BY DEF Inv, Feed, FeedTypes
  <2>6. /\ queue' \in Seq(1 .. MaxEvents)
        /\ DOMAIN queue' = DOMAIN queue \/ DOMAIN queue' = DOMAIN queue \cup {Len(queue) + 1}
        /\ \A i \in DOMAIN queue : queue'[i] = queue[i] /\ i < Len(queue) + 1
        /\ Len(queue) + 1 \in DOMAIN queue' => queue'[Len(queue) + 1] = n
    <3> HIDE DEF n
    <3>1. CASE sub.pc = "dead"
      <4>1. Len(queue) + 1 \notin DOMAIN queue BY <2>5
      <4> QED BY <2>1, <2>5, <3>1, <4>1
    <3>2. CASE sub.pc # "dead"
      <4>1. queue' = Append(queue, n) BY <2>1, <3>2 DEF n
      <4> QED BY <2>3, <2>5, <4>1
    <3> QED BY <3>1, <3>2
  <2> HIDE DEF n
  <2>7. FeedTypes'
    BY <1>1, <2>1, <2>3, <2>4, <2>6 DEF Inv, Feed, FeedTypes, accounts, sockets
  <2>8. Registered' BY <2>1 DEF Inv, Feed, Registered, sockets
  <2>9. Ordered'
    <3> USE DEF Ordered
    <3>0. Ordered BY DEF Inv, Feed
    <3>1. UNCHANGED <<link, tag, got, sub>> BY <2>1 DEF sockets
    <3>2. \A j \in DOMAIN queue' : queue'[j] = n \/ (j \in DOMAIN queue /\ queue'[j] = queue[j])
      BY <2>6
    <3>3. \A k \in Sockets : \A i \in DOMAIN got[k] :
            /\ got[k][i] \in DOMAIN event' /\ Owner[event'[got[k][i]]] = tag[k]
            /\ \A j \in DOMAIN queue' : got[k][i] < queue'[j]
      BY <2>3, <2>4, <3>0, <3>2
    <3>4. \A i \in DOMAIN queue' :
            /\ queue'[i] \in DOMAIN event'
            /\ sub.pc \in {"lookup", "send"} => sub.event < queue'[i]
      BY <2>3, <2>4, <3>0, <3>2
    <3>5. \A i, j \in DOMAIN queue' : i < j => queue'[i] < queue'[j]
      <4>1. \A i \in DOMAIN queue : queue[i] < n BY <2>3, <3>0
      <4>2. \A i, j \in DOMAIN queue' : i < j => i \in DOMAIN queue
        BY <2>5, <2>6
      <4> QED BY <2>6, <3>0, <4>1, <4>2
    <3>6. sub.pc \in {"lookup", "send"} =>
            sub.event \in DOMAIN event' /\ event'[sub.event] = event[sub.event]
      BY <2>4, <3>0
    <3> QED BY <3>0, <3>1, <3>3, <3>4, <3>5, <3>6
  <2> QED BY <2>2, <2>7, <2>8, <2>9 DEF Inv, Feed
<1>2. CASE PairAgain(d)
  <2>1. unpaired' \subseteq Devices /\ UNCHANGED <<accounts, sockets, feed, faults>>
    BY <1>2 DEF PairAgain, Inv, Feed, FeedTypes
  <2>2. AInv' BY <2>1, AccountsKept DEF Inv
  <2>3. Feed' BY <2>1 DEF Inv, Feed, FeedTypes, Registered, Ordered, sockets, feed, accounts
  <2> QED BY <2>2, <2>3 DEF Inv
<1>3. Publish(d) \/ Unpair(d) =>
        Post(d) /\ UNCHANGED <<accounts, sockets, sub, cache, got, dropped, faults>>
        /\ unpaired' \subseteq Devices
  BY DEF Publish, Unpair, Inv, Feed, FeedTypes
<1> QED BY <1>1, <1>2, <1>3

SubTypes ==
  [pc : {"idle", "lookup", "send", "dead"}, event : 0 .. MaxEvents,
   pending : SUBSET Sockets, failed : SUBSET Sockets]

\* The sockets an event is about to be sent to are its owner's.
LEMMA SendingGood ==
  ASSUME Inv, NEW e \in DOMAIN event
  PROVE  LET s == Sending(e, Targets(event[e]))
         IN /\ s \in SubTypes /\ s.pc \in {"idle", "send"} /\ s.event = e
            /\ \A k \in s.pending : tag[k] = Owner[event[e]] /\ link[k] # "new"
<1>1. e \in 0 .. MaxEvents /\ event[e] \in Devices /\ Owner[event[e]] \in Users
  <2>1. e \in 1 .. Len(event) /\ event[e] \in Devices /\ Len(event) <= scenario.events
    BY DEF Inv, Feed, FeedTypes
  <2>2. Len(event) \in Nat BY DEF Inv, Feed, FeedTypes
  <2> QED BY <2>1, <2>2, Bounds DEF Inv
<1>2. /\ Targets(event[e]) \in SUBSET Sockets
      /\ \A k \in Targets(event[e]) : tag[k] = Owner[event[e]] /\ link[k] # "new"
  BY <1>1 DEF Targets, Inv, Feed, FeedTypes, Registered
<1> QED BY <1>1, <1>2 DEF Sending, SubTypes

\* Steps of the subscriber that send nothing and take nothing away.
LEMMA TakeStep == ASSUME Inv, Take PROVE Inv'
<1>1. /\ sub.pc = "idle" /\ queue # <<>> /\ queue' = Tail(queue)
      /\ UNCHANGED <<accounts, unpaired, sockets, event, cache, got, dropped, faults>>
  BY DEF Take
<1>2. queue \in Seq(1 .. MaxEvents) BY DEF Inv, Feed, FeedTypes
<1>3. /\ queue' \in Seq(1 .. MaxEvents) /\ 1 \in DOMAIN queue /\ Head(queue) = queue[1]
      /\ \A j \in DOMAIN queue' : j + 1 \in DOMAIN queue /\ queue'[j] = queue[j + 1] /\ 1 < j + 1
  BY <1>1, <1>2
<1> DEFINE e == queue[1]
<1>4. e \in DOMAIN event BY <1>3 DEF Inv, Feed, Ordered
<1>5. AInv' BY <1>1, AccountsKept DEF Inv
<1>6. /\ sub' \in SubTypes
      /\ sub'.pc \in {"lookup", "send"} => sub'.event = e
      /\ sub'.pc = "send" => \A k \in sub'.pending : tag[k] = Owner[event[e]] /\ link[k] # "new"
  <2>1. CASE event[e] \in cache
    <3>1. sub' = Sending(e, Targets(event[e])) BY <1>3, <2>1 DEF Take
    <3> QED BY <1>4, <3>1, SendingGood
  <2>2. CASE event[e] \notin cache
    <3>1. sub' = [Waiting EXCEPT !.pc = "lookup", !.event = e] BY <1>3, <2>2 DEF Take
    <3>2. e \in 0 .. MaxEvents BY <1>2, <1>3, Bounds DEF Inv
    <3> QED BY <3>1, <3>2 DEF Waiting, SubTypes
  <2> QED BY <2>1, <2>2
<1>7. /\ \A j \in DOMAIN queue' : e < queue'[j]
      /\ \A k \in Sockets : \A i \in DOMAIN got[k] :
           got[k][i] < e /\ \A j \in DOMAIN queue' : got[k][i] < queue'[j]
      /\ \A i, j \in DOMAIN queue' : i < j => queue'[i] < queue'[j]
      /\ \A j \in DOMAIN queue' : queue'[j] \in DOMAIN event
  <2>1. \A i, j \in DOMAIN queue : i < j => queue[i] < queue[j] BY DEF Inv, Feed, Ordered
  <2>2. \A i, j \in DOMAIN queue' : i < j => i + 1 < j + 1 BY <1>3
  <2>3. \A k \in Sockets : \A i \in DOMAIN got[k] : \A j \in DOMAIN queue : got[k][i] < queue[j]
    BY DEF Inv, Feed, Ordered
  <2>4. \A j \in DOMAIN queue : queue[j] \in DOMAIN event BY DEF Inv, Feed, Ordered
  <2> QED BY <1>3, <2>1, <2>2, <2>3, <2>4
<1> HIDE DEF e
<1>8. Registered' BY <1>1 DEF Inv, Feed, Registered, sockets
<1>9. FeedTypes' BY <1>1, <1>3, <1>6 DEF Inv, Feed, FeedTypes, SubTypes, accounts, sockets
<1>10. Ordered' BY <1>1, <1>4, <1>6, <1>7 DEF Inv, Feed, Ordered, sockets
<1> QED BY <1>5, <1>8, <1>9, <1>10 DEF Inv, Feed

LEMMA LookupStep == ASSUME Inv, Lookup \/ LookupFails PROVE Inv'
<1>1. /\ sub.pc = "lookup"
      /\ UNCHANGED <<accounts, unpaired, sockets, event, got, dropped>>
      /\ queue' = queue \/ queue' = <<>>
  BY DEF Lookup, LookupFails
<1> DEFINE e == sub.event
<1>2. e \in DOMAIN event /\ event[e] \in Devices
  BY <1>1 DEF Inv, Feed, Ordered, FeedTypes
<1>3. AInv' BY <1>1, AccountsKept DEF Inv
<1>4. /\ sub' \in SubTypes /\ sub'.pc # "lookup"
      /\ sub'.pc = "send" =>
           /\ sub'.event = e
           /\ \A k \in sub'.pending : tag[k] = Owner[event[e]] /\ link[k] # "new"
  <2>1. CASE sub' = Waiting \/ sub' = [Waiting EXCEPT !.pc = "dead"]
    BY <2>1, Bounds DEF Waiting, SubTypes, Inv
  <2>2. CASE sub' = Sending(e, Targets(event[e])) BY <1>2, <2>2, SendingGood
  <2> QED BY <2>1, <2>2 DEF Lookup, LookupFails
<1>5. cache' \subseteq Devices /\ faults' \in 0 .. scenario.faults
  BY <1>2, Bounds DEF Lookup, LookupFails, Fault, Inv, Feed, FeedTypes
<1> HIDE DEF e
<1>6. Registered' BY <1>1 DEF Inv, Feed, Registered, sockets
<1>7. FeedTypes'
  <2>0. queue \in Seq(1 .. MaxEvents) /\ <<>> \in Seq(1 .. MaxEvents)
    BY EmptySeq DEF Inv, Feed, FeedTypes
  <2>1. queue' \in Seq(1 .. MaxEvents) BY <1>1, <2>0
  <2> QED BY <1>1, <1>4, <1>5, <2>1 DEF Inv, Feed, FeedTypes, SubTypes, accounts, sockets
<1>8. Ordered'
  <2>1. CASE queue' = queue
    BY <1>1, <1>2, <1>4, <2>1 DEF e, Inv, Feed, Ordered, sockets
  <2>2. CASE queue' = <<>>
    BY <1>1, <1>2, <1>4, <2>2 DEF e, Inv, Feed, Ordered, sockets
  <2> QED BY <1>1, <2>1, <2>2
<1> QED BY <1>3, <1>6, <1>7, <1>8 DEF Inv, Feed

LEMMA SendStep ==
  ASSUME Inv, NEW k \in Sockets, Send(k) \/ SendFails(k)
  PROVE  Inv'
<1>1. /\ sub.pc = "send" /\ k \in sub.pending
      /\ UNCHANGED <<accounts, unpaired, sockets, event, queue, cache, dropped, faults>>
  BY DEF Send, SendFails, CannotSend
<1> DEFINE e == sub.event
<1>2. e \in 1 .. MaxEvents /\ sub \in SubTypes
  <2>1. e \in DOMAIN event /\ event \in Seq(Devices) /\ Len(event) <= MaxEvents
    BY <1>1, Bounds DEF Inv, Feed, Ordered, FeedTypes
  <2> QED BY <2>1, Bounds DEF Inv, Feed, FeedTypes, SubTypes
<1>3. /\ sub' \in SubTypes /\ sub'.pc = "send" /\ sub'.event = e
      /\ sub'.pending = sub.pending \ {k}
  <2>1. CASE Send(k)
    <3>1. sub' = [sub EXCEPT !.pending = sub.pending \ {k}] BY <2>1 DEF Send
    <3> QED BY <1>1, <1>2, <3>1 DEF SubTypes
  <2>2. CASE SendFails(k)
    <3>1. sub' = [[sub EXCEPT !.pending = sub.pending \ {k}] EXCEPT !.failed = sub.failed \cup {k}]
      BY <2>2 DEF SendFails
    <3> QED BY <1>1, <1>2, <3>1 DEF SubTypes
  <2> QED BY <2>1, <2>2
<1>4. got[k] \in Seq(1 .. MaxEvents) BY DEF Inv, Feed, FeedTypes
<1>5. /\ got' \in [Sockets -> Seq(1 .. MaxEvents)]
      /\ \A j \in Sockets \ {k} : got'[j] = got[j]
      /\ got'[k] = got[k] \/ got'[k] = Append(got[k], e)
  <2>1. got \in [Sockets -> Seq(1 .. MaxEvents)] BY DEF Inv, Feed, FeedTypes
  <2>2. got' = got \/ got' = [got EXCEPT ![k] = Append(got[k], e)] BY DEF Send, SendFails
  <2>3. Append(got[k], e) \in Seq(1 .. MaxEvents) BY <1>2, <1>4, AppendProperties
  <2> HIDE DEF e
  <2> QED BY <2>1, <2>2, <2>3
<1>6. /\ DOMAIN got[k] \subseteq DOMAIN got'[k]
      /\ \A i \in DOMAIN got[k] : got'[k][i] = got[k][i]
      /\ \A i \in DOMAIN got'[k] : i \in DOMAIN got[k] \/ got'[k][i] = e
      /\ \A i, j \in DOMAIN got'[k] : i < j => i \in DOMAIN got[k]
  BY <1>4, <1>5
<1>7. AInv' BY <1>1, AccountsKept DEF Inv
<1>8. Registered' BY <1>1 DEF Inv, Feed, Registered, sockets
<1> HIDE DEF e
<1>9. FeedTypes' BY <1>1, <1>3, <1>5 DEF Inv, Feed, FeedTypes, SubTypes, accounts, sockets
<1>10. Ordered'
  <2>0. Ordered BY DEF Inv, Feed
  <2>1. UNCHANGED <<link, tag, event, queue>> BY <1>1 DEF sockets
  <2>2. e \in DOMAIN event /\ Owner[event[e]] = tag[k] /\ link[k] # "new"
        /\ (\A j \in DOMAIN queue : e < queue[j])
        /\ \A i \in DOMAIN got[k] : got[k][i] < e
    BY <1>1, <2>0 DEF Ordered, e
  <2>3. \A j \in Sockets : link[j] = "new" => got'[j] = <<>>
    BY <1>5, <2>0, <2>2 DEF Ordered
  <2>4. \A i \in DOMAIN got'[k] :
          /\ got'[k][i] \in DOMAIN event /\ Owner[event[got'[k][i]]] = tag[k]
          /\ \A j \in DOMAIN queue : got'[k][i] < queue[j]
    BY <1>6, <2>0, <2>2 DEF Ordered
  <2>5. \A i, j \in DOMAIN got'[k] : i < j => got'[k][i] < got'[k][j]
    BY <1>6, <2>0, <2>2 DEF Ordered
  <2>6. \A j \in Sockets : \A i \in DOMAIN got'[j] :
          /\ got'[j][i] \in DOMAIN event /\ Owner[event[got'[j][i]]] = tag[j]
          /\ \A m \in DOMAIN queue : got'[j][i] < queue[m]
          /\ j \in sub'.pending => got'[j][i] < e
          /\ \A m \in DOMAIN got'[j] : i < m => got'[j][i] < got'[j][m]
    <3> SUFFICES ASSUME NEW j \in Sockets, NEW i \in DOMAIN got'[j]
                 PROVE  /\ got'[j][i] \in DOMAIN event /\ Owner[event[got'[j][i]]] = tag[j]
                        /\ \A m \in DOMAIN queue : got'[j][i] < queue[m]
                        /\ j \in sub'.pending => got'[j][i] < e
                        /\ \A m \in DOMAIN got'[j] : i < m => got'[j][i] < got'[j][m]
      OBVIOUS
    <3>1. CASE j = k BY <1>3, <2>4, <2>5, <3>1
    <3>2. CASE j # k
      <4>1. got'[j] = got[j] /\ (j \in sub'.pending => j \in sub.pending) BY <1>3, <1>5, <3>2
      <4>2. e = sub.event BY DEF e
      <4> QED BY <1>1, <2>0, <4>1, <4>2 DEF Ordered
    <3> QED BY <3>1, <3>2
  <2>7. \A j \in sub'.pending : tag[j] = Owner[event[e]] /\ link[j] # "new"
    BY <1>1, <1>3, <2>0 DEF Ordered, e
  <2>8. \A i, j \in DOMAIN queue : i < j => queue[i] < queue[j] BY <2>0 DEF Ordered
  <2>9. \A i \in DOMAIN queue : queue[i] \in DOMAIN event BY <2>0 DEF Ordered
  <2> QED BY <1>3, <2>1, <2>2, <2>3, <2>6, <2>7, <2>8, <2>9 DEF Ordered
<1> QED BY <1>7, <1>8, <1>9, <1>10 DEF Inv, Feed

LEMMA SentStep == ASSUME Inv, Sent PROVE Inv'
<1>1. /\ sub' = Waiting
      /\ UNCHANGED <<accounts, unpaired, link, tag, stalled, page, event, queue, cache, got, faults>>
      /\ dropped' = dropped \cup {k \in sub.failed : link[k] = "open"}
  BY DEF Sent
<1>2. AInv' BY <1>1, AccountsKept DEF Inv
<1>3. /\ registry' \in [Users -> SUBSET Sockets]
      /\ \A u \in Users : registry'[u] = registry[u] \ sub.failed
  BY DEF Sent, Discard, Inv, Feed, FeedTypes
<1>4. dropped' \subseteq Sockets BY <1>1 DEF Inv, Feed, FeedTypes
<1>5. FeedTypes' BY <1>1, <1>2, <1>3, <1>4, WaitingType DEF Inv, Feed, FeedTypes, accounts
<1>6. Registered' BY <1>1, <1>3 DEF Inv, Feed, Registered
<1>7. Ordered' BY <1>1, WaitingType DEF Inv, Feed, Ordered
<1> QED BY <1>2, <1>5, <1>6, <1>7 DEF Inv, Feed

LEMMA RestartStep == ASSUME Inv, Restart PROVE Inv'
<1>1. /\ request' = [c \in Clients |-> Idle] /\ sub' = Waiting /\ queue' = <<>>
      /\ UNCHANGED <<scenario, password, session, cookie, unpaired, tag, event, got, dropped>>
  BY DEF Restart
<1>2. AInv'
  <2>1. \A c \in Clients : request'[c] = Idle BY <1>1
  <2>2. AccountsTypeOK'
    <3>1. request' \in [Clients -> Requests] BY <1>1, Blank
    <3> QED BY <1>1, <3>1 DEF Inv, AInv, AccountsTypeOK, Requests
  <2>3. Owned' /\ SeenSignedOut' BY <1>1 DEF Inv, AInv, Owned, SeenSignedOut
  <2>4. Requested' /\ OneChange' BY <2>1, Blank DEF Requested, Good, OneChange
  <2> QED BY <2>2, <2>3, <2>4 DEF AInv
<1>3. \A k \in Sockets : link'[k] = IF link[k] = "new" THEN "new" ELSE "closed"
  BY DEF Restart
<1>4. \A u \in Users : registry'[u] = {} BY DEF Restart
<1>5. FeedTypes'
  <2>1. link' \in [Sockets -> {"new", "asking", "open", "closed"}]
        /\ registry' \in [Users -> SUBSET Sockets] /\ stalled' = {} /\ cache' = {}
        /\ page' \in [Clients -> Sockets \cup {None}]
    BY DEF Restart
  <2>2. faults' \in 0 .. scenario.faults
    BY Bounds DEF Restart, Fault, Inv, Feed, FeedTypes
  <2> QED BY <1>1, <2>1, <2>2, WaitingType DEF Inv, Feed, FeedTypes
<1>6. Registered' BY <1>1, <1>3, <1>4 DEF Inv, Feed, Registered
<1>7. Ordered' BY <1>1, <1>3, WaitingType DEF Inv, Feed, Ordered
<1> QED BY <1>2, <1>5, <1>6, <1>7 DEF Inv, Feed

LEMMA NextInv == Inv /\ [Next]_vars => Inv'
<1> SUFFICES ASSUME Inv, [Next]_vars PROVE Inv' OBVIOUS
<1>1. CASE AccountsNext /\ UNCHANGED <<unpaired, sockets, feed, faults>>
  <2>1. AInv' BY <1>1, AccountsStep DEF Inv
  <2>2. scenario' = scenario
    BY <1>1 DEF AccountsNext, SetupCheck, SetupCommit, LoginVerify, LoginCommit, LoadSession,
       LogoutCommit, ChangeVerify, ChangeSelect, ChangeCommit, RequestDies, Expires
  <2>3. Feed' BY <1>1, <2>2 DEF Inv, Feed, FeedTypes, Registered, Ordered, sockets, feed
  <2> QED BY <2>1, <2>3 DEF Inv
<1>2. CASE (\E c \in Clients, k \in Sockets : Ask(c, k))
           \/ \E k \in Sockets : Open(k) \/ Stall(k) \/ Resume(k) \/ Close(k)
  BY <1>2, SocketStep
<1>3. CASE \E k \in Sockets : Send(k) \/ SendFails(k) BY <1>3, SendStep
<1>4. CASE \E d \in Devices : Publish(d) \/ Unpair(d) \/ PairAgain(d) BY <1>4, PostStep
<1>5. CASE Subscriber \/ LookupFails
  BY <1>5, TakeStep, LookupStep, SentStep DEF Subscriber
<1>6. CASE Restart BY <1>6, RestartStep
<1>7. CASE UNCHANGED vars
  <2>1. AInv' BY <1>7, AccountsKept DEF vars, Inv
  <2>2. Feed' BY <1>7 DEF vars, Inv, Feed, FeedTypes, Registered, Ordered, sockets, feed, accounts
  <2> QED BY <2>1, <2>2 DEF Inv
<1> QED BY <1>1, <1>2, <1>3, <1>4, <1>5, <1>6, <1>7 DEF Next

LEMMA Invariant == Spec => []Inv
BY InitInv, NextInv, PTL DEF Spec
-----------------------------------------------------------------------------
(* Theorems *)

\* Every variable keeps its type.
THEOREM TypeCorrect == Spec => []TypeOK
<1>1. Inv => TypeOK BY DEF Inv, AInv, Feed, FeedTypes, TypeOK
<1> QED BY <1>1, Invariant, PTL

\* change_password ends every other session its select can see, and a session one
\* change could not see is ended by the next, however requests overlap.
THEOREM ChangeEndsWhatItSees == Spec => []SeenSignedOut
<1>1. Inv => SeenSignedOut BY DEF Inv, AInv
<1> QED BY <1>1, Invariant, PTL

\* ConnectionManager holds exactly the open sockets, under the user of each,
\* but for those it gave up.
THEOREM RegistryIsExact == Spec => []RegistryExact
<1>1. Inv => RegistryExact BY DEF Inv, Feed, FeedTypes, Registered, RegistryExact
<1> QED BY <1>1, Invariant, PTL

\* A socket gets only events of its own user's devices, in order, none twice.
THEOREM OwnersEventsInOrder == Spec => []OrderedForOwner
<1>1. Inv => OrderedForOwner BY DEF Inv, Feed, Ordered, OrderedForOwner
<1> QED BY <1>1, Invariant, PTL
=============================================================================
