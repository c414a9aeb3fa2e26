---------------------------- MODULE LocalLimiter ----------------------------
(***************************************************************************)
(* The login limiter that each instance keeps in its own memory            *)
(* (rate_limit.py, local_limiter; rateLimit.ts, localLimiter), behind the  *)
(* proxy that gives each new connection to the next instance               *)
(* (round_robin_proxy.py, roundRobinProxy.ts).                             *)
(*                                                                         *)
(* The proxy copies bytes and adds no header, so every login that comes    *)
(* through it has one address: the proxy's.  The module is that one key of *)
(* each instance's dict.  Its list of times is represented by how many of  *)
(* them are no older than a ticks, for each a below WINDOW; older ones are *)
(* dropped by the next call and are not represented.                       *)
(***************************************************************************)
EXTENDS LoginPolicy

CONSTANTS
  BACKENDS,     \* how many instances there are
  Connections,  \* client connections the proxy can hold at once
  MaxRestarts   \* bound: instances that are started again

ASSUME LocalLimiterAssumption ==
  /\ BACKENDS \in Nat \ {0}
  /\ MaxRestarts \in Nat

Instances == 0 .. BACKENDS - 1

VARIABLES
  up,        \* instances that run
  attempts,  \* each instance's _local_attempts: entries up to each age
  turn,      \* the proxy's _next_backend
  conn,      \* the instance each connection was given; BACKENDS is none
  restarts,  \* instances started again, in all
  started,   \* history: instances started again in the last ticks
  allowed    \* history: attempts allowed in the last ticks

proxyVars == <<turn, conn>>
localVars == <<up, attempts, proxyVars, restarts, started, allowed>>

Unpicked == BACKENDS
None == [a \in Ages |-> 0]

LocalTypeOK ==
  /\ up \subseteq Instances
  /\ attempts \in [Instances -> [Ages -> 0 .. MaxCount]]
  /\ turn \in Instances
  /\ conn \in [Connections -> Instances \cup {Unpicked}]
  /\ restarts \in 0 .. MaxRestarts
  /\ started \in [Ages -> 0 .. MaxRestarts]
  /\ allowed \in [Ages -> Nat]

LocalInit ==
  /\ up = Instances
  /\ attempts = [i \in Instances |-> None]
  /\ turn = 0
  /\ conn = [c \in Connections |-> Unpicked]
  /\ restarts = 0
  /\ started = None
  /\ allowed = None

\* next(_next_backend), once for each connection and whether it is up or not.
Pick(c) ==
  /\ conn[c] = Unpicked
  /\ conn' = [conn EXCEPT ![c] = turn]
  /\ turn' = (turn + 1) % BACKENDS
  /\ UNCHANGED <<up, attempts, restarts, started, allowed>>

\* open_connection raises: the client is closed, and no other backend is tried.
Refuse(c) ==
  /\ conn[c] \in Instances \ up
  /\ conn' = [conn EXCEPT ![c] = Unpicked]
  /\ UNCHANGED <<up, attempts, turn, restarts, started, allowed>>

\* Either side closes.
Hangup(c) ==
  /\ conn[c] \in up
  /\ conn' = [conn EXCEPT ![c] = Unpicked]
  /\ UNCHANGED <<up, attempts, turn, restarts, started, allowed>>

\* Mutant of Kept: the window is a tick short.
KeptShort(i) == attempts[i][WINDOW - 2]

\* The attempts of the last WINDOW ticks that an instance remembers.
Kept(i) == attempts[i][WINDOW - 1]

\* local_limiter, for a login that arrives on an open connection.  There is no
\* await in it.  A refused attempt is remembered like any other.
Attempt(c) ==
  LET i == conn[c]
      n == Kept(i) + 1 IN
  /\ i \in up
  /\ n <= MaxCount
  /\ attempts' = [attempts EXCEPT ![i] = OneMore(@)]
  /\ allowed' = IF Allows(n) THEN OneMore(allowed) ELSE allowed
  /\ UNCHANGED <<up, proxyVars, restarts, started>>

\* An instance stops: its dict is gone, and so are its connections.
Stop(i) ==
  /\ i \in up
  /\ restarts < MaxRestarts
  /\ up' = up \ {i}
  /\ attempts' = [attempts EXCEPT ![i] = None]
  /\ conn' = [c \in Connections |-> IF conn[c] = i THEN Unpicked ELSE conn[c]]
  /\ UNCHANGED <<turn, restarts, started, allowed>>

Restart(i) ==
  /\ i \in Instances \ up
  /\ restarts < MaxRestarts
  /\ restarts' = restarts + 1
  /\ started' = OneMore(started)
  /\ up' = up \cup {i}
  /\ UNCHANGED <<attempts, proxyVars, allowed>>

LocalTick ==
  /\ attempts' = [i \in Instances |-> Aged(attempts[i])]
  /\ started' = Aged(started)
  /\ allowed' = Aged(allowed)
  /\ UNCHANGED <<up, proxyVars, restarts>>

LocalNext ==
  \/ \E c \in Connections : Pick(c) \/ Refuse(c) \/ Hangup(c) \/ Attempt(c)
  \/ \E i \in Instances : Stop(i) \/ Restart(i)
  \/ LocalTick

-----------------------------------------------------------------------------

\* rate_limit.py:3-6, "correct behind one instance and silently wrong behind more
\* than one", made exact: in any WINDOW ticks an address is allowed ATTEMPT_LIMIT
\* attempts for each instance and for each restart, however the proxy spreads its
\* connections and whatever fails, and never more.
SpreadBound ==
  allowed[WINDOW - 1] <= ATTEMPT_LIMIT * (BACKENDS + started[WINDOW - 1])
=============================================================================
