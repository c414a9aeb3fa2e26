---------------------------- MODULE RedisLimiter ----------------------------
(***************************************************************************)
(* The login limiter that every instance of the API shares: one counter    *)
(* per client address in Redis (rate_limit.py, redis_limiter; its twin is  *)
(* rateLimit.ts, redisLimiter).  A request awaits INCR, and awaits EXPIRE  *)
(* only when its INCR created the key.  Other requests, and time, pass     *)
(* between the two commands, and either await may end in an exception or   *)
(* with the process.                                                       *)
(*                                                                         *)
(* Time is the remaining life of each key, counted down by Tick.           *)
(***************************************************************************)
EXTENDS LoginPolicy

CONSTANTS
  Requests,    \* requests that can be in redis_limiter at once, over all instances
  Clients,     \* client addresses
  MaxAborts    \* bound: requests that die inside redis_limiter

ASSUME RedisLimiterAssumption ==
  /\ ATTEMPT_LIMIT \in Nat \ {0}
  /\ WINDOW \in Nat \ {0}
  /\ MaxCount \in Nat
  /\ ATTEMPT_LIMIT < MaxCount
  /\ MaxAborts \in Nat

VARIABLES
  count,    \* Redis: login_attempts:{client}; 0 is a missing key
  ttl,      \* Redis: remaining life of the key; 0 is a key that never expires
  req,      \* each request: where it is in redis_limiter
  aborts,   \* requests that died inside redis_limiter
  age,      \* history: ticks since the key was created, saturating at WINDOW
  granted,  \* history: attempts whose count the key's life has allowed
  recent    \* history: attempts allowed in this tick and the 0, 1, ... WINDOW - 1 before it

keyVars == <<count, ttl>>
historyVars == <<age, granted, recent>>
vars == <<keyVars, req, aborts, historyVars>>

Idle == [at |-> "idle"]

\* A request that holds the reply of its INCR.
Counted(c, n) == [at |-> "counted", client |-> c, n |-> n]

RequestStates == {Idle} \cup [at : {"counted"}, client : Clients, n : 1 .. MaxCount]

TypeOK ==
  /\ count \in [Clients -> 0 .. MaxCount]
  /\ ttl \in [Clients -> 0 .. WINDOW]
  /\ req \in [Requests -> RequestStates]
  /\ aborts \in 0 .. MaxAborts
  /\ age \in [Clients -> 0 .. WINDOW]
  /\ granted \in [Clients -> 0 .. MaxCount]
  /\ recent \in [Clients -> [Ages -> Nat]]

Init ==
  /\ count = [c \in Clients |-> 0]
  /\ ttl = [c \in Clients |-> 0]
  /\ req = [p \in Requests |-> Idle]
  /\ aborts = 0
  /\ age = [c \in Clients |-> 0]
  /\ granted = [c \in Clients |-> 0]
  /\ recent = [c \in Clients |-> [a \in Ages |-> 0]]

\* The counter saturates at MaxCount.
Incremented(n) == IF n < MaxCount THEN n + 1 ELSE n

\* Mutant of Incr: GET and SET, which drops the key's life.
SetCount(p, c) ==
  LET n == Incremented(count[c]) IN
  /\ req[p] = Idle
  /\ count' = [count EXCEPT ![c] = n]
  /\ ttl' = [ttl EXCEPT ![c] = 0]
  /\ req' = [req EXCEPT ![p] = Counted(c, n)]
  /\ granted' = [granted EXCEPT ![c] = IF Allows(n) THEN @ + 1 ELSE @]
  /\ recent' = [recent EXCEPT ![c] = IF Allows(n) THEN OneMore(@) ELSE @]
  /\ UNCHANGED <<aborts, age>>

\* INCR creates a missing key at 1 and leaves the life of an existing one alone.
Incr(p, c) ==
  LET n == Incremented(count[c]) IN
  /\ req[p] = Idle
  /\ count' = [count EXCEPT ![c] = n]
  /\ req' = [req EXCEPT ![p] = Counted(c, n)]
  /\ granted' = [granted EXCEPT ![c] = IF Allows(n) THEN @ + 1 ELSE @]
  /\ recent' = [recent EXCEPT ![c] = IF Allows(n) THEN OneMore(@) ELSE @]
  /\ UNCHANGED <<ttl, aborts, age>>

\* Mutant of Expire: every attempt, not only the first, sets the key's life.
ExpireAlways(p) ==
  /\ req[p].at = "counted"
  /\ ttl' = [ttl EXCEPT ![req[p].client] = WINDOW]
  /\ req' = [req EXCEPT ![p] = Idle]
  /\ UNCHANGED <<count, aborts, historyVars>>

\* Mutant of Expire: the key is given one tick, whatever WINDOW says.
ExpireShort(p) ==
  /\ req[p].at = "counted"
  /\ req[p].n = 1
  /\ ttl' = [ttl EXCEPT ![req[p].client] = 1]
  /\ req' = [req EXCEPT ![p] = Idle]
  /\ UNCHANGED <<count, aborts, historyVars>>

\* The request that created the key gives it its life, then returns.
Expire(p) ==
  /\ req[p].at = "counted"
  /\ req[p].n = 1
  /\ ttl' = [ttl EXCEPT ![req[p].client] = IF count[req[p].client] > 0 THEN WINDOW ELSE 0]
  /\ req' = [req EXCEPT ![p] = Idle]
  /\ UNCHANGED <<count, aborts, historyVars>>

\* Every other request returns its verdict at once.
Return(p) ==
  /\ req[p].at = "counted"
  /\ req[p].n # 1
  /\ req' = [req EXCEPT ![p] = Idle]
  /\ UNCHANGED <<keyVars, aborts, historyVars>>

\* The process dies, or the connection to Redis does, while a request awaits.
Abort(p) ==
  /\ req[p] # Idle
  /\ aborts < MaxAborts
  /\ aborts' = aborts + 1
  /\ req' = [req EXCEPT ![p] = Idle]
  /\ UNCHANGED <<keyVars, historyVars>>

Expires(c) == ttl[c] = 1

\* A tick of Redis's clock: keys at the end of their life are gone.
Tick ==
  /\ count' = [c \in Clients |-> IF Expires(c) THEN 0 ELSE count[c]]
  /\ ttl' = [c \in Clients |-> IF ttl[c] = 0 THEN 0 ELSE ttl[c] - 1]
  /\ age' = [c \in Clients |->
               IF Expires(c) \/ count[c] = 0 THEN 0
               ELSE IF age[c] < WINDOW THEN age[c] + 1 ELSE WINDOW]
  /\ granted' = [c \in Clients |-> IF Expires(c) THEN 0 ELSE granted[c]]
  /\ recent' = [c \in Clients |-> Aged(recent[c])]
  /\ UNCHANGED <<req, aborts>>

Next ==
  \/ \E p \in Requests : \/ \E c \in Clients : Incr(p, c)
                         \/ Expire(p)
                         \/ Return(p)
                         \/ Abort(p)
  \/ Tick

Spec == Init /\ [][Next]_vars

\* Redis's clock runs, and a request that nothing interrupts sends its EXPIRE.
FairSpec == Spec /\ WF_vars(Tick) /\ \A p \in Requests : WF_vars(Expire(p))

-----------------------------------------------------------------------------

Pending(p, c) == req[p].at = "counted" /\ req[p].client = c /\ req[p].n = 1

\* A key without an end of life has a request that is about to give it one,
\* and no two requests believe that they created the same key.
OneOpener ==
  \A c \in Clients, p, q \in Requests :
    Pending(p, c) => /\ ttl[c] = 0
                     /\ count[c] > 0
                     /\ Pending(q, c) => p = q

\* A limiter with fixed windows lets at most two windows' worth of attempts
\* through in any WINDOW ticks: one at the end of a window, one at the start of
\* the next.  It is the key's life that keeps a third window out.
BurstBound == \A c \in Clients : recent[c][WINDOW - 1] <= 2 * ATTEMPT_LIMIT

\* rate_limit.py:44-46, "a slow request from an instance that lost a race never
\* resets a window another instance already started".
WindowNeverRestarts ==
  [][\A c \in Clients : ttl[c] > 0 => ttl'[c] <= ttl[c]]_vars

\* A window whose life was set ends, however often the client tries meanwhile
\* and whatever happens to the requests that count in it: line 49 sets it once.
StartedWindowsEnd == \A c \in Clients : ttl[c] > 0 ~> count[c] = 0

\* rate_limit.py:37, "a fixed window": every counter is dropped in the end, so a
\* refused client is let in again.
WindowsEnd == \A c \in Clients : []<>(count[c] = 0)

\* The shared counter implements the promised window, client by client.
Window(c) == INSTANCE FixedWindow
               WITH open <- count[c] > 0, age <- age[c], granted <- granted[c]

WindowStep(c) ==
  \/ Window(c)!FWNext
  \/ UNCHANGED <<count[c] > 0, age[c], granted[c]>>

ImplementsFixedWindow ==
  /\ \A c \in Clients : Window(c)!FWInit
  /\ [][\A c \in Clients : WindowStep(c)]_vars
=============================================================================
