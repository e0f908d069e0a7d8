------------------------------ MODULE Accounts ------------------------------
(***************************************************************************)
(* Users and their login sessions: the first-time setup, login, logout and *)
(* the change of a password, each the reads and the commit of one request, *)
(* interleaved at its awaits with the requests of other browsers.          *)
(*                                                                         *)
(* A password is its version: the owner never goes back to an older one. A *)
(* browser has one request in progress at a time. The password update of a *)
(* change locks the user's row until its commit (PostgreSQL); a login      *)
(* reads that row without the lock.                                        *)
(***************************************************************************)
EXTENDS Naturals

CONSTANTS
  Users,
  Clients,       \* browsers
  MaxSessions,   \* bound: session rows ever created
  None,          \* no user, no session
  MaxPasswords,  \* bound: versions of a password
  Scenarios      \* bounds: how much of each kind happens in one behaviour

ASSUME AccountsAssumption ==
  /\ MaxSessions \in Nat /\ MaxPasswords \in Nat \ {0}
  /\ None \notin Users \cup Clients \cup 1 .. MaxSessions
  /\ \A s \in Scenarios :
       /\ s.users \subseteq Users
       /\ s.sessions \in 0 .. MaxSessions /\ s.passwords \in 1 .. MaxPasswords
       /\ s.ends \in BOOLEAN

VARIABLES
  scenario,  \* fixed: see Scenarios
  password,  \* users.password_hash: its version, 0 without a row
  session,   \* the sessions rows
  cookie,    \* the session cookie of each browser
  request    \* what the handler of each browser's request has read

Sessions == 1 .. MaxSessions    \* in the order they are created

accounts == <<scenario, password, session, cookie, request>>

\* A session's state; verified is the password it was opened under, or kept by
\* the change to. upto (history) is the newest password whose change could not
\* have ended it: the one in force when its row was committed or kept, or the
\* next one when a change had then already chosen which sessions to end.
NoSession == [user |-> None, state |-> "none", verified |-> 0, upto |-> 0]
Idle == [pc |-> "idle", user |-> None, verified |-> 0, session |-> None, others |-> {}]

AccountsTypeOK ==
  /\ scenario \in Scenarios
  /\ password \in [Users -> 0 .. MaxPasswords]
  /\ session \in [Sessions -> [user : Users \cup {None}, verified : 0 .. MaxPasswords,
                               upto : 0 .. MaxPasswords,
                               state : {"none", "open", "revoked", "expired"}]]
  /\ cookie \in [Clients -> Sessions \cup {None}]
  /\ request \in [Clients ->
       [pc : {"idle", "setup", "login", "logout", "verify", "update", "commit"},
        user : Users \cup {None}, verified : 0 .. MaxPasswords,
        session : Sessions \cup {None}, others : SUBSET Sessions]]

AccountsInit ==
  /\ password = [u \in Users |-> 0]
  /\ scenario \in Scenarios
  /\ session = [s \in Sessions |-> NoSession]
  /\ cookie = [c \in Clients |-> None]
  /\ request = [c \in Clients |-> Idle]

Begin(c, r) == request[c].pc = "idle" /\ request' = [request EXCEPT ![c] = r]
Step(c, from, to) == request[c].pc = from /\ request' = [request EXCEPT ![c].pc = to]
End(c) == request' = [request EXCEPT ![c] = Idle]

UserRead(u) == [Idle EXCEPT !.user = u]

\* A change that has chosen the sessions to end and has not yet committed.
Changing(u) == \E c \in Clients : request[c].pc = "commit" /\ request[c].user = u

\* _load_session, _user_from_ws: a row that is neither revoked nor expired.
SignedIn(s) == s # None /\ session[s].state = "open"

\* _establish_session: commits a new row and sets its cookie.
Establish(c, u, version, current) ==
  \E s \in 1 .. scenario.sessions :
    /\ session[s] = NoSession /\ \A t \in 1 .. s - 1 : session[t] # NoSession
    /\ session' = [session EXCEPT ![s] =
         [user |-> u, state |-> "open", verified |-> version,
          upto |-> IF Changing(u) THEN current + 1 ELSE current]]
    /\ cookie' = [cookie EXCEPT ![c] = s]
-----------------------------------------------------------------------------
(* setup, login, logout *)

\* _admin_exists
SetupCheck(c) ==
  \E u \in scenario.users :
    /\ \A v \in Users : password[v] = 0
    /\ Begin(c, [UserRead(u) EXCEPT !.pc = "setup"])
    /\ UNCHANGED <<scenario, password, session, cookie>>

\* The username is unique: a second setup of the same name fails.
SetupCommit(c) ==
  /\ request[c].pc = "setup" /\ End(c)
  /\ LET u == request[c].user IN
     IF password[u] = 0
     THEN password' = [password EXCEPT ![u] = 1] /\ Establish(c, u, 1, 1)
     ELSE UNCHANGED <<password, session, cookie>>
  /\ UNCHANGED scenario

\* The password is verified against the row as it is read.
LoginVerify(c) ==
  \E u \in Users :
    /\ password[u] > 0
    /\ Begin(c, [UserRead(u) EXCEPT !.pc = "login", !.verified = password[u]])
    /\ UNCHANGED <<scenario, password, session, cookie>>

LoginCommit(c) ==
  /\ request[c].pc = "login" /\ End(c)
  /\ Establish(c, request[c].user, request[c].verified, password[request[c].user])
  /\ UNCHANGED <<scenario, password>>

\* get_current_auth: the request goes on with the session it read.
LoadSession(c) ==
  LET s == cookie[c] IN
  /\ SignedIn(s) /\ scenario.ends
  /\ \E to \in {"logout", "verify"} :
       Begin(c, [UserRead(session[s].user) EXCEPT !.pc = to, !.session = s])
  /\ UNCHANGED <<scenario, password, session, cookie>>

LogoutCommit(c) ==
  /\ request[c].pc = "logout" /\ End(c)
  /\ session' = [session EXCEPT ![request[c].session].state = "revoked"]
  /\ cookie' = [cookie EXCEPT ![c] = None]
  /\ UNCHANGED <<scenario, password>>
-----------------------------------------------------------------------------
(* change_password *)

\* The user row is read, and the current password verified or refused.
ChangeVerify(c) ==
  /\ request[c].pc = "verify"
  /\ Step(c, "verify", "update") \/ End(c)
  /\ UNCHANGED <<scenario, password, session, cookie>>

\* Mutant: the select does not wait for the change of another browser.
ChangeUnlocked(c) ==
  LET u == request[c].user IN
  /\ request[c].pc = "update"
  /\ password[u] < scenario.passwords
  /\ request' = [request EXCEPT ![c].pc = "commit", ![c].others =
       {s \in Sessions \ {request[c].session} :
          session[s].user = u /\ session[s].state # "revoked"}]
  /\ UNCHANGED <<scenario, password, session, cookie>>

\* The select of the other sessions flushes the new password first: it waits
\* for the row's lock, then reads what is committed.
ChangeSelect(c) ==
  LET u == request[c].user IN
  /\ request[c].pc = "update" /\ ~Changing(u)
  /\ password[u] < scenario.passwords
  /\ request' = [request EXCEPT ![c].pc = "commit", ![c].others =
       {s \in Sessions \ {request[c].session} :
          session[s].user = u /\ session[s].state # "revoked"}]
  /\ UNCHANGED <<scenario, password, session, cookie>>

ChangeCommit(c) ==
  LET u == request[c].user
      others == request[c].others
  IN /\ request[c].pc = "commit" /\ End(c)
     /\ password' = [password EXCEPT ![u] = @ + 1]
     /\ session' = [s \in Sessions |->
          IF s \in others THEN [session[s] EXCEPT !.state = "revoked"]
          ELSE IF s = request[c].session THEN [session[s] EXCEPT !.verified = password[u] + 1, !.upto = password[u] + 1]
          ELSE session[s]]
     /\ UNCHANGED <<scenario, cookie>>

\* A handler dies before its commit (client gone, database error): the
\* transaction is rolled back.
RequestDies(c) ==
  /\ request[c].pc # "idle" /\ End(c)
  /\ UNCHANGED <<scenario, password, session, cookie>>

Expires(s) ==
  /\ session[s].state = "open" /\ scenario.ends
  /\ session' = [session EXCEPT ![s].state = "expired"]
  /\ UNCHANGED <<scenario, password, cookie, request>>

AccountsNext ==
  \/ \E c \in Clients :
       \/ SetupCheck(c) \/ SetupCommit(c)
       \/ LoginVerify(c) \/ LoginCommit(c)
       \/ LoadSession(c) \/ LogoutCommit(c)
       \/ ChangeVerify(c) \/ ChangeSelect(c) \/ ChangeCommit(c)
       \/ RequestDies(c)
  \/ \E s \in Sessions : Expires(s)
-----------------------------------------------------------------------------
(* Properties *)

\* change_password ("Invalidate all other sessions (force re-login elsewhere);
\* keep the current one"), taken literally: every open session of a user was
\* opened with the password in force, or kept by the change to it. A login that
\* verified the old password and commits after the change has selected breaks it.
OthersSignedOut ==
  \A s \in Sessions :
    session[s].state = "open" => session[s].verified >= password[session[s].user]

\* What change_password does keep, however changes of other browsers, logins
\* and logouts overlap it: it ends every other session that was committed when
\* it selected. A session it could not see is not spared by the change after it.
SeenSignedOut ==
  \A s \in Sessions :
    session[s].state = "open" => session[s].upto >= password[session[s].user]
=============================================================================
