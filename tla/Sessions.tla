------------------------------ MODULE Sessions ------------------------------
(***************************************************************************)
(* Accounts, sessions and tokens: main.py, current_user to                 *)
(* logout_everywhere, and the same handlers of server.ts, as Lesson 8      *)
(* brought them in and the later lessons keep them.  A handler awaits      *)
(* bcrypt and the database between its statements, so other requests and   *)
(* time pass there; a request may also end at any of its awaits.           *)
(*                                                                         *)
(* A password is modelled by the person who knows it, and the password     *)
(* hash of an account by the person who set it.  Time is the database's    *)
(* clock; the clock of the instance that serves a request is off by up to  *)
(* MaxSkew ticks either way.                                               *)
(***************************************************************************)
EXTENDS Integers

CONSTANTS
  People,       \* clients, each with a password of their own
  Emails,       \* addresses, lower case
  Requests,     \* requests that can be in a handler at once
  Ids,          \* session ids; new_session_id never returns one twice
  Nobody,       \* the owner of an address that has no account
  SESSION_TTL,  \* session_ttl_minutes, in ticks
  TOKEN_TTL,    \* token_ttl_minutes, in ticks
  MaxSkew,      \* an instance's clock is at most this far from the database's
  MaxTime       \* bound: the clock stops here

ASSUME SessionsAssumption ==
  /\ Nobody \notin People
  /\ SESSION_TTL \in Nat \ {0}
  /\ TOKEN_TTL \in Nat \ {0}
  /\ MaxSkew \in Nat
  /\ MaxTime \in Nat

VARIABLES
  users,     \* the person whose password each account has
  sessions,  \* committed rows
  tokenEnd,  \* exp of the longest-lived token of each account; tokens are not stored
  now,       \* the database's clock
  req,       \* each request's handler
  issued,    \* session ids handed out by new_session_id
  told,      \* history: registrations answered 201
  ended      \* history: sessions that a logout answered 204 has covered

accountVars == <<users, told>>
sessionVars == <<sessions, issued, ended>>
vars == <<accountVars, sessionVars, tokenEnd, now, req>>

Skews == -MaxSkew .. MaxSkew

Absent == [at |-> "absent"]

\* who asked for the session, and when its end was computed, are history.
Row(e, end, who, since) ==
  [at |-> "row", user |-> e, expires |-> end, who |-> who, since |-> since]

\* Every instance's clock is past the end of a token that was never issued.
NoToken == -MaxSkew - 1

Times == NoToken .. MaxTime + MaxSkew + SESSION_TTL + TOKEN_TTL
Rows == [at : {"row"}, user : Emails, expires : Times, who : People, since : 0 .. MaxTime]

Idle == [at |-> "idle"]

\* Where a request can be, and what its handler then holds.
Handlers ==
  {Idle}
    \cup [at : {"register", "inserted", "authenticated"}, user : Emails, who : People]
    \cup [at : {"session"}, id : Ids, row : Rows]
    \cup [at : {"everywhere"}, user : Emails, before : SUBSET Ids]
    \cup [at : {"deleted"}, rows : SUBSET Ids, before : SUBSET Ids]

TypeOK ==
  /\ users \in [Emails -> People \cup {Nobody}]
  /\ sessions \in [Ids -> Rows \cup {Absent}]
  /\ tokenEnd \in [Emails -> Times]
  /\ now \in 0 .. MaxTime
  /\ req \in [Requests -> Handlers]
  /\ issued \in SUBSET Ids
  /\ told \in SUBSET (People \X Emails)
  /\ ended \in SUBSET Ids

Init ==
  /\ users = [e \in Emails |-> Nobody]
  /\ sessions = [i \in Ids |-> Absent]
  /\ tokenEnd = [e \in Emails |-> NoToken]
  /\ now = 0
  /\ req = [p \in Requests |-> Idle]
  /\ issued = {}
  /\ told = {}
  /\ ended = {}

Goto(p, s) == req' = [req EXCEPT ![p] = s]

-----------------------------------------------------------------------------
(* Who is asking?                                                          *)

\* SESSION_SQL: the row is there and its end is ahead of the database's clock.
Live(i) == sessions[i] # Absent /\ sessions[i].expires > now

\* verify_token, by the clock of some instance: a token still counts at its exp.
TokenLives(e) == \E s \in Skews : tokenEnd[e] >= now + s

\* current_user: the cookie's user when its session is live, else the token's.
\* A request may carry any cookie that a login has set, and any token.
MayActFor(e) ==
  \/ \E i \in Ids : Live(i) /\ sessions[i].user = e
  \/ TokenLives(e)

SessionsOf(e) == {i \in Ids : sessions[i] # Absent /\ sessions[i].user = e}

-----------------------------------------------------------------------------
(* register                                                                *)

\* The password is hashed in a thread before the connection is taken.
Register(p, k, e) ==
  /\ req[p] = Idle
  /\ Goto(p, [at |-> "register", user |-> e, who |-> k])
  /\ UNCHANGED <<accountVars, sessionVars, tokenEnd, now>>

\* The unique index makes an INSERT wait for an uncommitted one of its email.
EmailInFlight(e) == \E q \in Requests : req[q].at = "inserted" /\ req[q].user = e

\* Mutant of InsertUser: the email is looked up, and no index guards it.
InsertUserUnguarded(p) ==
  /\ req[p].at = "register"
  /\ IF users[req[p].user] = Nobody
     THEN Goto(p, [req[p] EXCEPT !.at = "inserted"])
     ELSE Goto(p, Idle)
  /\ UNCHANGED <<accountVars, sessionVars, tokenEnd, now>>

\* UniqueViolation, 409, for an email that has an account.
InsertUser(p) ==
  /\ req[p].at = "register"
  /\ ~EmailInFlight(req[p].user)
  /\ IF users[req[p].user] = Nobody
     THEN Goto(p, [req[p] EXCEPT !.at = "inserted"])
     ELSE Goto(p, Idle)
  /\ UNCHANGED <<accountVars, sessionVars, tokenEnd, now>>

CommitUser(p) ==
  /\ req[p].at = "inserted"
  /\ users' = [users EXCEPT ![req[p].user] = req[p].who]
  /\ told' = told \cup {<<req[p].who, req[p].user>>}
  /\ Goto(p, Idle)
  /\ UNCHANGED <<sessionVars, tokenEnd, now>>

-----------------------------------------------------------------------------
(* login and token                                                         *)

\* _authenticate: the SELECT, and bcrypt in a thread; anybody else gets 401.
Authenticate(p, k, e) ==
  /\ req[p] = Idle
  /\ users[e] = k
  /\ Goto(p, [at |-> "authenticated", user |-> e, who |-> k])
  /\ UNCHANGED <<accountVars, sessionVars, tokenEnd, now>>

\* Mutant of NewSession: the minutes are taken for hours.
NewSessionLonger(p) ==
  /\ req[p].at = "authenticated"
  /\ \E i \in Ids \ issued, s \in Skews :
       /\ issued' = issued \cup {i}
       /\ Goto(p, [at |-> "session", id |-> i,
                   row |-> Row(req[p].user, now + s + 60 * SESSION_TTL, req[p].who, now)])
  /\ UNCHANGED <<accountVars, sessions, ended, tokenEnd, now>>

\* The id and the end of the session, by the clock of the application.
NewSession(p) ==
  /\ req[p].at = "authenticated"
  /\ \E i \in Ids \ issued, s \in Skews :
       /\ issued' = issued \cup {i}
       /\ Goto(p, [at |-> "session", id |-> i,
                   row |-> Row(req[p].user, now + s + SESSION_TTL, req[p].who, now)])
  /\ UNCHANGED <<accountVars, sessions, ended, tokenEnd, now>>

\* Mutant of InsertSession: the INSERT is tried again when its reply is lost.
InsertSessionRetried(p) ==
  /\ req[p].at = "session"
  /\ sessions' = [sessions EXCEPT ![req[p].id] = req[p].row]
  /\ \E s \in {Idle, req[p]} : Goto(p, s)
  /\ UNCHANGED <<accountVars, issued, ended, tokenEnd, now>>

InsertSession(p) ==
  /\ req[p].at = "session"
  /\ sessions' = [sessions EXCEPT ![req[p].id] = req[p].row]
  /\ Goto(p, Idle)
  /\ UNCHANGED <<accountVars, issued, ended, tokenEnd, now>>

Later(a, b) == IF a > b THEN a ELSE b

\* POST /auth/token: no row is written, and none can be deleted.
IssueToken(p) ==
  /\ req[p].at = "authenticated"
  /\ \E s \in Skews :
       tokenEnd' = [tokenEnd EXCEPT ![req[p].user] = Later(@, now + s + TOKEN_TTL)]
  /\ Goto(p, Idle)
  /\ UNCHANGED <<accountVars, sessionVars, now>>

-----------------------------------------------------------------------------
(* logout and logout_everywhere                                            *)

\* One DELETE by id; whether the session still lives is not asked.
Logout(i) ==
  /\ sessions[i] # Absent
  /\ sessions' = [sessions EXCEPT ![i] = Absent]
  /\ ended' = ended \cup {i}
  /\ UNCHANGED <<accountVars, issued, tokenEnd, now, req>>

\* current_user, in a block of its own.
StartEverywhere(p, e) ==
  /\ req[p] = Idle
  /\ MayActFor(e)
  /\ Goto(p, [at |-> "everywhere", user |-> e, before |-> SessionsOf(e)])
  /\ UNCHANGED <<accountVars, sessionVars, tokenEnd, now>>

\* The DELETE sees the rows committed before it began, and no later ones.
DeleteEverywhere(p) ==
  /\ req[p].at = "everywhere"
  /\ Goto(p, [at |-> "deleted", rows |-> SessionsOf(req[p].user), before |-> req[p].before])
  /\ UNCHANGED <<accountVars, sessionVars, tokenEnd, now>>

CommitEverywhere(p) ==
  /\ req[p].at = "deleted"
  /\ sessions' = [i \in Ids |-> IF i \in req[p].rows THEN Absent ELSE sessions[i]]
  /\ ended' = ended \cup req[p].before
  /\ Goto(p, Idle)
  /\ UNCHANGED <<accountVars, issued, tokenEnd, now>>

-----------------------------------------------------------------------------

\* The process or a connection is lost: what is not committed is rolled back.
Crash(p) ==
  /\ req[p] # Idle
  /\ Goto(p, Idle)
  /\ UNCHANGED <<accountVars, sessionVars, tokenEnd, now>>

Tick ==
  /\ now < MaxTime
  /\ now' = now + 1
  /\ UNCHANGED <<accountVars, sessionVars, tokenEnd, req>>

Next ==
  \/ \E p \in Requests :
       \/ \E k \in People, e \in Emails : Register(p, k, e) \/ Authenticate(p, k, e)
       \/ InsertUser(p)
       \/ CommitUser(p)
       \/ NewSession(p)
       \/ InsertSession(p)
       \/ IssueToken(p)
       \/ \E e \in Emails : StartEverywhere(p, e)
       \/ DeleteEverywhere(p)
       \/ CommitEverywhere(p)
       \/ Crash(p)
  \/ \E i \in Ids : Logout(i)
  \/ Tick

Spec == Init /\ [][Next]_vars

-----------------------------------------------------------------------------

\* Lesson_8_code/main.py:130-142: an account belongs to the person whose
\* registration was answered 201, however many register its email at once, and
\* so does every session of it.
AccountsKeepTheirOwner ==
  /\ \A r \in told : users[r[2]] = r[1]
  /\ \A i \in Ids : sessions[i] # Absent => users[sessions[i].user] = sessions[i].who

\* Lesson_8_code/main.py:255, "One DELETE ends the session everywhere, at once":
\* a session that was there when a logout or logout-everywhere began is never
\* accepted again once that request is answered, whatever logins and logouts run
\* beside it.
EndedSessionsStayEnded == \A i \in ended : ~Live(i)

\* Lesson_8_code/main.py:172 and 89: the end is computed by one clock and compared
\* with another.  A session that nobody ended serves its time but for the skew,
\* and never longer than its time and the skew, however long its INSERT waited.
SessionsServeTheirTerm ==
  \A i \in Ids : sessions[i] # Absent =>
    /\ now < sessions[i].since + SESSION_TTL - MaxSkew => Live(i)
    /\ now >= sessions[i].since + SESSION_TTL + MaxSkew => ~Live(i)
=============================================================================
