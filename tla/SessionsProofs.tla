--------------------------- MODULE SessionsProofs ---------------------------
(***************************************************************************)
(* Proofs about Sessions, for any number of people, addresses, requests    *)
(* and session ids, and any times to live and skew of the clocks.          *)
(*                                                                         *)
(* The three properties speak of rows; what makes them hold is in the      *)
(* handlers that are about to write one.  AccountInv says on whose behalf  *)
(* a handler acts, IdInv that the id it is about to insert is no other's   *)
(* and covered by no logout, and TermInv that the end it has computed is   *)
(* off by the skew at most.                                                *)
(***************************************************************************)
EXTENDS Sessions, TLAPS

At(p, l) == req[p].at = l

AccountInv ==
  /\ \A r \in told : users[r[2]] = r[1]
  /\ \A i \in Ids : sessions[i] # Absent => users[sessions[i].user] = sessions[i].who
  /\ \A p \in Requests : At(p, "inserted") => users[req[p].user] = Nobody
  /\ \A p, q \in Requests :
       At(p, "inserted") /\ At(q, "inserted") /\ req[p].user = req[q].user => p = q
  /\ \A p \in Requests : At(p, "authenticated") => users[req[p].user] = req[p].who
  /\ \A p \in Requests : At(p, "session") => users[req[p].row.user] = req[p].row.who

\* No row has yet been, or has been deleted, under an id that is being inserted.
FreshIds ==
  /\ \A i \in Ids : sessions[i] # Absent => i \in issued
  /\ \A p \in Requests : At(p, "session") =>
       req[p].id \in issued /\ sessions[req[p].id] = Absent /\ req[p].id \notin ended
  /\ \A p, q \in Requests :
       At(p, "session") /\ At(q, "session") /\ req[p].id = req[q].id => p = q

\* What a logout_everywhere answers for is there for it to delete, or gone.
CoveredIds ==
  /\ \A i \in ended : i \in issued /\ sessions[i] = Absent
  /\ \A p \in Requests : At(p, "everywhere") \/ At(p, "deleted") =>
       /\ req[p].before \subseteq issued
       /\ \A q \in Requests : At(q, "session") => req[q].id \notin req[p].before
  /\ \A p \in Requests : At(p, "everywhere") =>
       \A i \in req[p].before : sessions[i] # Absent => sessions[i].user = req[p].user
  /\ \A p \in Requests : At(p, "deleted") =>
       \A i \in req[p].before \ req[p].rows : sessions[i] = Absent

InTerm(r) ==
  /\ r.since + SESSION_TTL - MaxSkew <= r.expires
  /\ r.expires <= r.since + SESSION_TTL + MaxSkew

TermInv ==
  /\ \A i \in Ids : sessions[i] # Absent => InTerm(sessions[i])
  /\ \A p \in Requests : At(p, "session") => InTerm(req[p].row)

IInv == TypeOK /\ AccountInv /\ FreshIds /\ CoveredIds /\ TermInv

LEMMA HandlerShape ==
  ASSUME NEW s \in Handlers
  PROVE  /\ s.at \in {"idle", "register", "inserted", "authenticated", "session",
                      "everywhere", "deleted"}
         /\ s.at \in {"register", "inserted", "authenticated"} =>
              /\ s.user \in Emails /\ s.who \in People
              /\ s \in [at : {"register", "inserted", "authenticated"},
                        user : Emails, who : People]
         /\ s.at = "session" => s.id \in Ids /\ s.row \in Rows
         /\ s.at = "everywhere" => s.user \in Emails /\ s.before \in SUBSET Ids
         /\ s.at = "deleted" => s.rows \in SUBSET Ids /\ s.before \in SUBSET Ids
         /\ s.at # "idle" => s # Idle
<1>1. CASE s = Idle
  BY <1>1 DEF Idle
<1>2. CASE s \in [at : {"register", "inserted", "authenticated"}, user : Emails, who : People]
  BY <1>2 DEF Idle
<1>3. CASE s \in [at : {"session"}, id : Ids, row : Rows]
  BY <1>3 DEF Idle
<1>4. CASE s \in [at : {"everywhere"}, user : Emails, before : SUBSET Ids]
  BY <1>4 DEF Idle
<1>5. CASE s \in [at : {"deleted"}, rows : SUBSET Ids, before : SUBSET Ids]
  BY <1>5 DEF Idle
<1> QED BY <1>1, <1>2, <1>3, <1>4, <1>5 DEF Handlers

\* A step of one request leaves the handlers of the others alone.
LEMMA GotoFrame ==
  ASSUME TypeOK, NEW p \in Requests, NEW s, Goto(p, s)
  PROVE  /\ req'[p] = s
         /\ \A q \in Requests : q # p => req'[q] = req[q]
         /\ s \in Handlers => req' \in [Requests -> Handlers]
  BY DEF TypeOK, Goto

LEMMA RowShape ==
  ASSUME NEW r \in Rows
  PROVE  /\ r # Absent /\ r.user \in Emails /\ r.who \in People
         /\ r.expires \in Int /\ r.since \in Int
  BY SessionsAssumption DEF Rows, Absent, Times, NoToken

LEMMA SessionType ==
  ASSUME TypeOK, NEW i \in Ids, sessions[i] # Absent
  PROVE  sessions[i] \in Rows
  BY DEF TypeOK

LEMMA InitIInv == Init => IInv
<1> SUFFICES ASSUME Init PROVE IInv
  OBVIOUS
<1> USE SessionsAssumption DEF Init
<1>1. \A p \in Requests : req[p] = Idle /\ req[p].at = "idle"
  BY DEF Idle
<1>2. TypeOK
  BY DEF TypeOK, Handlers, Times, NoToken
<1>3. AccountInv
  BY <1>1 DEF AccountInv, At
<1>4. FreshIds /\ CoveredIds /\ TermInv
  BY <1>1 DEF FreshIds, CoveredIds, TermInv, At
<1> QED BY <1>2, <1>3, <1>4 DEF IInv

-----------------------------------------------------------------------------

\* The first steps of a request; they hold nothing that an invariant is about,
\* but for the account that a login has found and the rows a logout has seen.
LEMMA StartingStep ==
  ASSUME IInv, NEW p \in Requests,
         \/ \E k \in People, e \in Emails : Register(p, k, e) \/ Authenticate(p, k, e)
         \/ \E e \in Emails : StartEverywhere(p, e)
  PROVE  IInv'
<1>1. UNCHANGED <<users, told, sessions, issued, ended, tokenEnd, now>>
  BY DEF Register, Authenticate, StartEverywhere, accountVars, sessionVars
<1>2. PICK s \in Handlers :
        /\ Goto(p, s)
        /\ s.at \in {"register", "authenticated", "everywhere"}
        /\ s.at = "authenticated" => users[s.user] = s.who
        /\ s.at = "everywhere" => s.before = SessionsOf(s.user)
  <2>1. ASSUME NEW k \in People, NEW e \in Emails, NEW l \in {"register", "authenticated"},
               Goto(p, [at |-> l, user |-> e, who |-> k]),
               l = "authenticated" => users[e] = k
        PROVE  \E s \in Handlers :
                 /\ Goto(p, s) /\ s.at = l
                 /\ s.at = "authenticated" => users[s.user] = s.who
    <3>1. [at |-> l, user |-> e, who |-> k] \in Handlers
      BY DEF Handlers
    <3> QED BY <2>1, <3>1
  <2>2. ASSUME NEW e \in Emails, StartEverywhere(p, e)
        PROVE  \E s \in Handlers :
                 /\ Goto(p, s) /\ s.at = "everywhere" /\ s.before = SessionsOf(s.user)
    <3>1. [at |-> "everywhere", user |-> e, before |-> SessionsOf(e)] \in Handlers
      BY DEF Handlers, SessionsOf
    <3> QED BY <2>2, <3>1 DEF StartEverywhere
  <2>3. ASSUME NEW k \in People, NEW e \in Emails, Register(p, k, e)
        PROVE  \E s \in Handlers : Goto(p, s) /\ s.at = "register"
    BY <2>1, <2>3 DEF Register
  <2>4. ASSUME NEW k \in People, NEW e \in Emails, Authenticate(p, k, e)
        PROVE  \E s \in Handlers :
                 Goto(p, s) /\ s.at = "authenticated" /\ users[s.user] = s.who
    BY <2>1, <2>4 DEF Authenticate
  <2> QED BY <2>2, <2>3, <2>4
<1>3. /\ req'[p] = s
      /\ \A q \in Requests : q # p => req'[q] = req[q]
      /\ req' \in [Requests -> Handlers]
  BY <1>2, GotoFrame DEF IInv
<1>4. TypeOK'
  BY <1>1, <1>3 DEF IInv, TypeOK
<1>5. AccountInv'
  BY <1>1, <1>2, <1>3 DEF IInv, AccountInv, At
<1>6. FreshIds'
  BY <1>1, <1>2, <1>3 DEF IInv, FreshIds, At
<1>7. CoveredIds'
  <2>1. s.at = "everywhere" =>
          /\ s.before \subseteq issued
          /\ \A q \in Requests : At(q, "session") => req[q].id \notin s.before
          /\ \A i \in s.before : sessions[i].user = s.user
    BY <1>2 DEF IInv, FreshIds, SessionsOf
  <2> QED BY <1>1, <1>2, <1>3, <2>1 DEF IInv, CoveredIds, At
<1>8. TermInv'
  BY <1>1, <1>2, <1>3 DEF IInv, TermInv, At
<1> QED BY <1>4, <1>5, <1>6, <1>7, <1>8 DEF IInv

\* A request that ends without a trace.
LEMMA EndingStep ==
  ASSUME IInv, NEW p \in Requests, Goto(p, Idle),
         UNCHANGED <<users, told, sessions, issued, ended, tokenEnd, now>>
  PROVE  IInv'
<1>1. Idle \in Handlers /\ Idle.at = "idle"
  BY DEF Handlers, Idle
<1>2. /\ req'[p] = Idle
      /\ \A q \in Requests : q # p => req'[q] = req[q]
      /\ req' \in [Requests -> Handlers]
  BY <1>1, GotoFrame DEF IInv
<1>3. TypeOK'
  BY <1>2 DEF IInv, TypeOK
<1>4. AccountInv'
  BY <1>1, <1>2 DEF IInv, AccountInv, At
<1>5. FreshIds'
  BY <1>1, <1>2 DEF IInv, FreshIds, At
<1>6. CoveredIds'
  BY <1>1, <1>2 DEF IInv, CoveredIds, At
<1>7. TermInv'
  BY <1>1, <1>2 DEF IInv, TermInv, At
<1> QED BY <1>3, <1>4, <1>5, <1>6, <1>7 DEF IInv

\* The unique index makes the handler that has inserted an email the only one.
LEMMA InsertUserStep ==
  ASSUME IInv, NEW p \in Requests, InsertUser(p)
  PROVE  IInv'
<1>1. UNCHANGED <<users, told, sessions, issued, ended, tokenEnd, now>>
  BY DEF InsertUser, accountVars, sessionVars
<1>2. CASE users[req[p].user] # Nobody
  BY <1>1, <1>2, EndingStep DEF InsertUser
<1>3. CASE users[req[p].user] = Nobody
  <2> DEFINE s == [req[p] EXCEPT !.at = "inserted"]
  <2>1. Goto(p, s) /\ At(p, "register") /\ ~EmailInFlight(req[p].user)
    BY <1>3 DEF InsertUser, At
  <2>2. /\ s \in Handlers /\ s.at = "inserted"
        /\ s.user = req[p].user
    BY <2>1, HandlerShape DEF IInv, TypeOK, At, Handlers
  <2>3. /\ req'[p] = s
        /\ \A q \in Requests : q # p => req'[q] = req[q]
        /\ req' \in [Requests -> Handlers]
    BY <2>1, <2>2, GotoFrame DEF IInv
  <2> HIDE DEF s
  <2>4. TypeOK'
    BY <1>1, <2>3 DEF IInv, TypeOK
  <2>5. \A q \in Requests : At(q, "inserted") => req[q].user # s.user
    BY <2>1, <2>2 DEF EmailInFlight, At
  <2>6. AccountInv'
    BY <1>1, <1>3, <2>2, <2>3, <2>5 DEF IInv, AccountInv, At
  <2>7. FreshIds'
    BY <1>1, <2>2, <2>3 DEF IInv, FreshIds, At
  <2>8. CoveredIds'
    BY <1>1, <2>2, <2>3 DEF IInv, CoveredIds, At
  <2>9. TermInv'
    BY <1>1, <2>2, <2>3 DEF IInv, TermInv, At
  <2> QED BY <2>4, <2>6, <2>7, <2>8, <2>9 DEF IInv
<1> QED BY <1>2, <1>3

\* An account appears where there was none: nobody has yet acted for it.
LEMMA CommitUserStep ==
  ASSUME IInv, NEW p \in Requests, CommitUser(p)
  PROVE  IInv'
<1>1. /\ At(p, "inserted") /\ Goto(p, Idle)
      /\ users' = [users EXCEPT ![req[p].user] = req[p].who]
      /\ told' = told \cup {<<req[p].who, req[p].user>>}
      /\ UNCHANGED <<sessions, issued, ended, tokenEnd, now>>
  BY DEF CommitUser, At, sessionVars
<1>2. req[p].user \in Emails /\ req[p].who \in People
  BY <1>1, HandlerShape DEF IInv, TypeOK, At
<1>3. Idle \in Handlers /\ Idle.at = "idle"
  BY DEF Handlers, Idle
<1>4. /\ req'[p] = Idle
      /\ \A q \in Requests : q # p => req'[q] = req[q]
      /\ req' \in [Requests -> Handlers]
  BY <1>1, <1>3, GotoFrame DEF IInv
<1>5. TypeOK'
  BY <1>1, <1>2, <1>4 DEF IInv, TypeOK
<1>6. /\ users[req[p].user] = Nobody
      /\ users'[req[p].user] = req[p].who
      /\ \A e \in Emails : e # req[p].user => users'[e] = users[e]
      /\ \A e \in Emails : users[e] # Nobody => users'[e] = users[e]
  BY <1>1, <1>2 DEF IInv, TypeOK, AccountInv, At
<1>7. AccountInv'
  <2>1. \A r \in told' : users'[r[2]] = r[1]
    <3> SUFFICES ASSUME NEW r \in told' PROVE users'[r[2]] = r[1]
      OBVIOUS
    <3>1. CASE r = <<req[p].who, req[p].user>>
      BY <1>6, <3>1
    <3>2. CASE r \in told
      <4>1. r[1] \in People /\ r[2] \in Emails /\ users[r[2]] = r[1]
        BY <3>2 DEF IInv, TypeOK, AccountInv
      <4> QED BY <1>6, <4>1, SessionsAssumption
    <3> QED BY <1>1, <3>1, <3>2
  <2>2. \A i \in Ids : sessions[i] # Absent => users'[sessions[i].user] = sessions[i].who
    BY <1>6, SessionType, RowShape, SessionsAssumption DEF IInv, AccountInv
  <2>3. \A q \in Requests : q # p /\ At(q, "inserted") => users'[req[q].user] = Nobody
    BY <1>1, <1>6, HandlerShape DEF IInv, TypeOK, AccountInv, At
  <2>4. \A q \in Requests : At(q, "authenticated") => users'[req[q].user] = req[q].who
    BY <1>6, HandlerShape, SessionsAssumption DEF IInv, TypeOK, AccountInv, At
  <2>5. \A q \in Requests : At(q, "session") => users'[req[q].row.user] = req[q].row.who
    BY <1>6, HandlerShape, RowShape, SessionsAssumption DEF IInv, TypeOK, AccountInv, At
  <2> QED BY <1>1, <1>3, <1>4, <2>1, <2>2, <2>3, <2>4, <2>5 DEF IInv, AccountInv, At
<1>8. FreshIds'
  BY <1>1, <1>3, <1>4 DEF IInv, FreshIds, At
<1>9. CoveredIds'
  BY <1>1, <1>3, <1>4 DEF IInv, CoveredIds, At
<1>10. TermInv'
  BY <1>1, <1>3, <1>4 DEF IInv, TermInv, At
<1> QED BY <1>5, <1>7, <1>8, <1>9, <1>10 DEF IInv

LEMMA NewSessionStep ==
  ASSUME IInv, NEW p \in Requests, NewSession(p)
  PROVE  IInv'
<1> USE SessionsAssumption
<1>1. PICK i \in Ids \ issued, s \in Skews :
        /\ issued' = issued \cup {i}
        /\ Goto(p, [at |-> "session", id |-> i,
                    row |-> Row(req[p].user, now + s + SESSION_TTL, req[p].who, now)])
  BY DEF NewSession
<1>2. At(p, "authenticated") /\ UNCHANGED <<users, told, sessions, ended, tokenEnd, now>>
  BY DEF NewSession, At, accountVars
<1> DEFINE r == Row(req[p].user, now + s + SESSION_TTL, req[p].who, now)
           h == [at |-> "session", id |-> i, row |-> r]
<1>3. req[p].user \in Emails /\ req[p].who \in People
  BY <1>2, HandlerShape DEF IInv, TypeOK, At
<1>4. now \in 0 .. MaxTime /\ s \in -MaxSkew .. MaxSkew
  BY DEF IInv, TypeOK, Skews
<1>5. now + s + SESSION_TTL \in Times
  BY <1>4 DEF Times, NoToken
<1>6. /\ r \in Rows /\ InTerm(r) /\ r.user = req[p].user /\ r.who = req[p].who
  BY <1>3, <1>4, <1>5 DEF Row, Rows, InTerm
<1>7. h \in Handlers /\ h.at = "session" /\ h.id = i /\ h.row = r
  BY <1>6 DEF Handlers
<1>8. /\ req'[p] = h
      /\ \A q \in Requests : q # p => req'[q] = req[q]
      /\ req' \in [Requests -> Handlers]
  BY <1>1, <1>7, GotoFrame DEF IInv
<1> HIDE DEF h, r
<1>9. TypeOK'
  BY <1>1, <1>2, <1>8 DEF IInv, TypeOK
<1>10. AccountInv'
  <2>1. users[r.user] = r.who
    BY <1>2, <1>6 DEF IInv, AccountInv, At
  <2> QED BY <1>2, <1>7, <1>8, <2>1 DEF IInv, AccountInv, At
<1>11. sessions[i] = Absent /\ i \notin ended
  BY DEF IInv, FreshIds, CoveredIds
<1>12. FreshIds'
  BY <1>1, <1>2, <1>7, <1>8, <1>11 DEF IInv, FreshIds, At
<1>13. CoveredIds'
  BY <1>1, <1>2, <1>7, <1>8 DEF IInv, CoveredIds, At
<1>14. TermInv'
  BY <1>2, <1>6, <1>7, <1>8 DEF IInv, TermInv, At
<1> QED BY <1>9, <1>10, <1>12, <1>13, <1>14 DEF IInv

\* The row appears under an id that no logout has covered.
LEMMA InsertSessionStep ==
  ASSUME IInv, NEW p \in Requests, InsertSession(p)
  PROVE  IInv'
<1> DEFINE n == req[p].id
           r == req[p].row
<1>1. /\ At(p, "session") /\ Goto(p, Idle)
      /\ sessions' = [sessions EXCEPT ![n] = r]
      /\ UNCHANGED <<users, told, issued, ended, tokenEnd, now>>
  BY DEF InsertSession, At, accountVars
<1>2. n \in Ids /\ r \in Rows
  BY <1>1, HandlerShape DEF IInv, TypeOK, At
<1>3. Idle \in Handlers /\ Idle.at = "idle"
  BY DEF Handlers, Idle
<1>4. /\ req'[p] = Idle
      /\ \A q \in Requests : q # p => req'[q] = req[q]
      /\ req' \in [Requests -> Handlers]
  BY <1>1, <1>3, GotoFrame DEF IInv
<1>5. sessions'[n] = r /\ \A i \in Ids : i # n => sessions'[i] = sessions[i]
  BY <1>1, <1>2 DEF IInv, TypeOK
<1>6. /\ n \in issued /\ n \notin ended
      /\ \A q \in Requests : q # p /\ At(q, "session") => req[q].id # n
      /\ \A q \in Requests : At(q, "everywhere") \/ At(q, "deleted") => n \notin req[q].before
  BY <1>1 DEF IInv, FreshIds, CoveredIds
<1>7. users[r.user] = r.who /\ InTerm(r)
  BY <1>1 DEF IInv, AccountInv, TermInv
<1> HIDE DEF n, r
<1>8. TypeOK'
  BY <1>1, <1>2, <1>4 DEF IInv, TypeOK
<1>9. AccountInv'
  BY <1>1, <1>3, <1>4, <1>5, <1>7 DEF IInv, AccountInv, At
<1>10. FreshIds'
  <2>1. \A q \in Requests : q # p /\ At(q, "session") => req[q].id \in Ids
    BY HandlerShape DEF IInv, TypeOK, At
  <2> QED BY <1>1, <1>3, <1>4, <1>5, <1>6, <2>1 DEF IInv, FreshIds, At
<1>11. CoveredIds'
  <2>1. ended \subseteq Ids
    BY DEF IInv, TypeOK
  <2>2. \A q \in Requests : At(q, "everywhere") \/ At(q, "deleted") => req[q].before \subseteq Ids
    BY HandlerShape DEF IInv, TypeOK, At
  <2> QED BY <1>1, <1>3, <1>4, <1>5, <1>6, <2>1, <2>2 DEF IInv, CoveredIds, At
<1>12. TermInv'
  BY <1>1, <1>3, <1>4, <1>5, <1>7 DEF IInv, TermInv, At
<1> QED BY <1>8, <1>9, <1>10, <1>11, <1>12 DEF IInv

LEMMA IssueTokenStep ==
  ASSUME IInv, NEW p \in Requests, IssueToken(p)
  PROVE  IInv'
<1> USE SessionsAssumption
<1>1. PICK s \in Skews :
        tokenEnd' = [tokenEnd EXCEPT ![req[p].user] = Later(@, now + s + TOKEN_TTL)]
  BY DEF IssueToken
<1>2. /\ At(p, "authenticated") /\ Goto(p, Idle)
      /\ UNCHANGED <<users, told, sessions, issued, ended, now>>
  BY DEF IssueToken, At, accountVars, sessionVars
<1>3. req[p].user \in Emails
  BY <1>2, HandlerShape DEF IInv, TypeOK, At
<1>4. now + s + TOKEN_TTL \in Times
  BY DEF IInv, TypeOK, Skews, Times, NoToken
<1>5. tokenEnd' \in [Emails -> Times]
  BY <1>1, <1>3, <1>4 DEF IInv, TypeOK, Later
<1>6. Idle \in Handlers /\ Idle.at = "idle"
  BY DEF Handlers, Idle
<1>7. /\ req'[p] = Idle
      /\ \A q \in Requests : q # p => req'[q] = req[q]
      /\ req' \in [Requests -> Handlers]
  BY <1>2, <1>6, GotoFrame DEF IInv
<1>8. TypeOK'
  BY <1>2, <1>5, <1>7 DEF IInv, TypeOK
<1>9. AccountInv'
  BY <1>2, <1>6, <1>7 DEF IInv, AccountInv, At
<1>10. FreshIds' /\ TermInv'
  BY <1>2, <1>6, <1>7 DEF IInv, FreshIds, TermInv, At
<1>11. CoveredIds'
  BY <1>2, <1>6, <1>7 DEF IInv, CoveredIds, At
<1> QED BY <1>8, <1>9, <1>10, <1>11 DEF IInv

-----------------------------------------------------------------------------

LEMMA LogoutStep ==
  ASSUME IInv, NEW i \in Ids, Logout(i)
  PROVE  IInv'
<1>1. /\ sessions[i] # Absent
      /\ sessions' = [sessions EXCEPT ![i] = Absent]
      /\ ended' = ended \cup {i}
      /\ UNCHANGED <<users, told, issued, tokenEnd, now, req>>
  BY DEF Logout, accountVars
<1>2. sessions'[i] = Absent /\ \A j \in Ids : j # i => sessions'[j] = sessions[j]
  BY <1>1 DEF IInv, TypeOK
<1>3. TypeOK'
  BY <1>1 DEF IInv, TypeOK
<1>4. AccountInv' /\ TermInv'
  BY <1>1, <1>2 DEF IInv, AccountInv, TermInv, At
<1>5. FreshIds'
  <2>1. \A q \in Requests : At(q, "session") => req[q].id \in Ids /\ req[q].id # i
    BY <1>1, HandlerShape DEF IInv, TypeOK, FreshIds, At
  <2> QED BY <1>1, <1>2, <2>1 DEF IInv, FreshIds, At
<1>6. CoveredIds'
  <2>1. i \in issued /\ ended \subseteq Ids
    BY <1>1 DEF IInv, FreshIds, TypeOK
  <2>2. \A q \in Requests : At(q, "everywhere") \/ At(q, "deleted") => req[q].before \subseteq Ids
    BY HandlerShape DEF IInv, TypeOK, At
  <2> QED BY <1>1, <1>2, <2>1, <2>2 DEF IInv, CoveredIds, At
<1> QED BY <1>3, <1>4, <1>5, <1>6 DEF IInv

\* Every row that was there when the request began is seen, or gone already.
LEMMA DeleteEverywhereStep ==
  ASSUME IInv, NEW p \in Requests, DeleteEverywhere(p)
  PROVE  IInv'
<1> DEFINE s == [at |-> "deleted", rows |-> SessionsOf(req[p].user), before |-> req[p].before]
<1>1. /\ At(p, "everywhere") /\ Goto(p, s)
      /\ UNCHANGED <<users, told, sessions, issued, ended, tokenEnd, now>>
  BY DEF DeleteEverywhere, At, accountVars, sessionVars
<1>2. req[p].before \in SUBSET Ids
  BY <1>1, HandlerShape DEF IInv, TypeOK, At
<1>3. /\ s \in Handlers /\ s.at = "deleted"
      /\ s.before = req[p].before /\ s.rows = SessionsOf(req[p].user)
  BY <1>2 DEF Handlers, SessionsOf
<1>4. /\ req'[p] = s
      /\ \A q \in Requests : q # p => req'[q] = req[q]
      /\ req' \in [Requests -> Handlers]
  BY <1>1, <1>3, GotoFrame DEF IInv
<1> HIDE DEF s
<1>5. TypeOK'
  BY <1>1, <1>4 DEF IInv, TypeOK
<1>6. AccountInv'
  BY <1>1, <1>3, <1>4 DEF IInv, AccountInv, At
<1>7. FreshIds' /\ TermInv'
  BY <1>1, <1>3, <1>4 DEF IInv, FreshIds, TermInv, At
<1>8. \A i \in s.before \ s.rows : sessions[i] = Absent
  BY <1>1, <1>2, <1>3 DEF IInv, CoveredIds, SessionsOf
<1>9. CoveredIds'
  BY <1>1, <1>3, <1>4, <1>8 DEF IInv, CoveredIds, At
<1> QED BY <1>5, <1>6, <1>7, <1>9 DEF IInv

LEMMA CommitEverywhereStep ==
  ASSUME IInv, NEW p \in Requests, CommitEverywhere(p)
  PROVE  IInv'
<1>1. /\ At(p, "deleted") /\ Goto(p, Idle)
      /\ sessions' = [i \in Ids |-> IF i \in req[p].rows THEN Absent ELSE sessions[i]]
      /\ ended' = ended \cup req[p].before
      /\ UNCHANGED <<users, told, issued, tokenEnd, now>>
  BY DEF CommitEverywhere, At, accountVars
<1>2. req[p].before \in SUBSET Ids
  BY <1>1, HandlerShape DEF IInv, TypeOK, At
<1>3. Idle \in Handlers /\ Idle.at = "idle"
  BY DEF Handlers, Idle
<1>4. /\ req'[p] = Idle
      /\ \A q \in Requests : q # p => req'[q] = req[q]
      /\ req' \in [Requests -> Handlers]
  BY <1>1, <1>3, GotoFrame DEF IInv
<1>5. \A i \in Ids : sessions'[i] \in {Absent, sessions[i]}
  BY <1>1
<1>6. TypeOK'
  BY <1>1, <1>2, <1>4 DEF IInv, TypeOK
<1>7. AccountInv' /\ TermInv'
  BY <1>1, <1>3, <1>4, <1>5 DEF IInv, AccountInv, TermInv, At
<1>8. FreshIds'
  <2>1. \A q \in Requests : At(q, "session") =>
          req[q].id \in Ids /\ req[q].id \notin req[p].before
    BY <1>1, HandlerShape DEF IInv, TypeOK, CoveredIds, At
  <2> QED BY <1>1, <1>3, <1>4, <1>5, <2>1 DEF IInv, FreshIds, At
<1>9. CoveredIds'
  <2>1. \A i \in ended' : i \in Ids /\ i \in issued /\ sessions'[i] = Absent
    <3>1. \A i \in ended : i \in Ids /\ i \in issued /\ sessions'[i] = Absent
      BY <1>5 DEF IInv, TypeOK, CoveredIds
    <3>2. \A i \in req[p].before : i \in Ids /\ i \in issued /\ sessions'[i] = Absent
      BY <1>1, <1>2 DEF IInv, CoveredIds
    <3> QED BY <1>1, <3>1, <3>2
  <2>2. \A q \in Requests : At(q, "everywhere") \/ At(q, "deleted") => req[q].before \subseteq Ids
    BY HandlerShape DEF IInv, TypeOK, At
  <2>3. issued' = issued
    BY <1>1
  <2>4. \A q \in Requests : (At(q, "everywhere") \/ At(q, "deleted"))' =>
          /\ q # p
          /\ req'[q].before \subseteq issued
          /\ \A u \in Requests : At(u, "session")' => req'[u].id \notin req'[q].before
    BY <1>3, <1>4 DEF IInv, CoveredIds, At
  <2>5. \A q \in Requests : At(q, "everywhere")' =>
          \A i \in req'[q].before : sessions'[i] # Absent => sessions'[i].user = req'[q].user
    BY <1>3, <1>4, <1>5, <2>2 DEF IInv, CoveredIds, At
  <2>6. \A q \in Requests : At(q, "deleted")' =>
          \A i \in req'[q].before \ req'[q].rows : sessions'[i] = Absent
    BY <1>3, <1>4, <1>5, <2>2 DEF IInv, CoveredIds, At
  <2> QED BY <2>1, <2>3, <2>4, <2>5, <2>6 DEF CoveredIds
<1> QED BY <1>6, <1>7, <1>8, <1>9 DEF IInv

LEMMA TickStep ==
  ASSUME IInv, Tick \/ UNCHANGED vars
  PROVE  IInv'
<1>1. UNCHANGED <<users, told, sessions, issued, ended, tokenEnd, req>>
  BY DEF Tick, vars, accountVars, sessionVars
<1>2. now' \in 0 .. MaxTime
  BY SessionsAssumption DEF IInv, TypeOK, Tick, vars
<1>3. TypeOK'
  BY <1>1, <1>2 DEF IInv, TypeOK
<1>4. AccountInv' /\ FreshIds' /\ CoveredIds' /\ TermInv'
  BY <1>1 DEF IInv, AccountInv, FreshIds, CoveredIds, TermInv, At
<1> QED BY <1>3, <1>4 DEF IInv

LEMMA StepIInv == IInv /\ [Next]_vars => IInv'
<1> SUFFICES ASSUME IInv, [Next]_vars PROVE IInv'
  OBVIOUS
<1>1. ASSUME NEW p \in Requests, Crash(p) PROVE IInv'
  BY <1>1, EndingStep DEF Crash, accountVars, sessionVars
<1> QED BY <1>1, StartingStep, InsertUserStep, CommitUserStep, NewSessionStep,
       InsertSessionStep, IssueTokenStep, LogoutStep, DeleteEverywhereStep,
       CommitEverywhereStep, TickStep DEF Next

THEOREM Invariance == Spec => []IInv
  BY InitIInv, StepIInv, PTL DEF Spec

-----------------------------------------------------------------------------

\* Accounts, sessions and handlers keep their types.
THEOREM TypeCorrect == Spec => []TypeOK
<1>1. IInv => TypeOK
  BY DEF IInv
<1> QED BY Invariance, <1>1, PTL

\* However many people register one email at once, the account is theirs who was
\* told so, and nobody else ever has a session of it.
THEOREM OwnersKept == Spec => []AccountsKeepTheirOwner
<1>1. IInv => AccountsKeepTheirOwner
  BY DEF IInv, AccountInv, AccountsKeepTheirOwner
<1> QED BY Invariance, <1>1, PTL

\* No order of logins and logouts revives a session that a logout has ended.
THEOREM LogoutIsFinal == Spec => []EndedSessionsStayEnded
<1>1. IInv => EndedSessionsStayEnded
  BY DEF IInv, CoveredIds, EndedSessionsStayEnded, Live
<1> QED BY Invariance, <1>1, PTL

\* A session lives for its time, but for the skew of two clocks, either way.
THEOREM TermsServed == Spec => []SessionsServeTheirTerm
<1>1. IInv => SessionsServeTheirTerm
  <2> SUFFICES ASSUME IInv, NEW i \in Ids, sessions[i] # Absent
               PROVE  /\ now < sessions[i].since + SESSION_TTL - MaxSkew => Live(i)
                      /\ now >= sessions[i].since + SESSION_TTL + MaxSkew => ~Live(i)
    BY DEF SessionsServeTheirTerm
  <2>1. InTerm(sessions[i])
    BY DEF IInv, TermInv
  <2>2. sessions[i].expires \in Int /\ sessions[i].since \in Int /\ now \in Int
    BY SessionType, RowShape DEF IInv, TypeOK
  <2> QED BY <2>1, <2>2, SessionsAssumption DEF InTerm, Live
<1> QED BY Invariance, <1>1, PTL
=============================================================================
