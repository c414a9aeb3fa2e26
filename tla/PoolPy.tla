------------------------------- MODULE PoolPy -------------------------------
(***************************************************************************)
(* The connection pool that every handler of one Python instance shares    *)
(* (main.py lifespan, every `async with app.state.pool.connection()', and  *)
(* pool_timeout_handler).  A request checks a connection out once or       *)
(* twice: current_user or _authenticate first, and the handler's own       *)
(* transaction after the first connection went back.                       *)
(*                                                                         *)
(* The pool is psycopg_pool (external): waiters queue first come, first    *)
(* served; a connection that comes back goes to the first of them; a       *)
(* waiter whose timeout ends leaves the queue with PoolTimeout.            *)
(***************************************************************************)
EXTENDS Pool, SequencesExt

CONSTANT
  MaxCheckouts   \* the most connections a handler uses, one after the other

ASSUME PoolPyAssumption == MaxCheckouts \in Nat \ {0}

VARIABLES
  free,     \* connections nobody has
  queue,    \* who waits for a connection, longest first
  at,       \* each request: where it is
  left,     \* each request: the checkouts it still has to make
  status,   \* each request: the answer it gets
  wrote     \* each request: whether its own transaction has committed
            \* (the attempt a login spends earlier is LoginLimit's)

poolVars == <<free, queue>>
reqVars == <<at, left, status, wrote>>
pyVars == <<poolVars, reqVars>>

PyStages == {"idle", "ready", "waiting", "holding", "answered"}
Statuses == {"none", "ok", "error", "503"}

PyTypeOK ==
  /\ free \in 0 .. Size
  /\ queue \in Seq(Requests)
  /\ at \in [Requests -> PyStages]
  /\ left \in [Requests -> 0 .. MaxCheckouts]
  /\ status \in [Requests -> Statuses]
  /\ wrote \in [Requests -> BOOLEAN]

PyInit ==
  /\ free = Size
  /\ queue = <<>>
  /\ at = [p \in Requests |-> "idle"]
  /\ left = [p \in Requests |-> 0]
  /\ status = [p \in Requests |-> "none"]
  /\ wrote = [p \in Requests |-> FALSE]

-----------------------------------------------------------------------------
(* The pool *)

\* A connection comes back: to the first waiter, or to the idle ones.
PyGiveBack(atOthers) ==
  IF queue = <<>>
  THEN free' = free + 1 /\ at' = atOthers /\ UNCHANGED queue
  ELSE /\ at' = [atOthers EXCEPT ![Head(queue)] = "holding"]
       /\ queue' = Tail(queue)
       /\ UNCHANGED free

-----------------------------------------------------------------------------
(* The requests *)

PyArrive(p) ==
  /\ at[p] = "idle"
  /\ at' = [at EXCEPT ![p] = "ready"]
  /\ \E n \in 1 .. MaxCheckouts : left' = [left EXCEPT ![p] = n]
  /\ status' = [status EXCEPT ![p] = "none"]
  /\ wrote' = [wrote EXCEPT ![p] = FALSE]
  /\ UNCHANGED poolVars

\* pool.connection() with a connection to spare.
Checkout(p) ==
  /\ at[p] = "ready"
  /\ free > 0
  /\ free' = free - 1
  /\ at' = [at EXCEPT ![p] = "holding"]
  /\ UNCHANGED <<queue, left, status, wrote>>

\* pool.connection() without one.
PyWait(p) ==
  /\ at[p] = "ready"
  /\ free = 0
  /\ queue' = Append(queue, p)
  /\ at' = [at EXCEPT ![p] = "waiting"]
  /\ UNCHANGED <<free, left, status, wrote>>

\* Mutant of Commit: what an earlier block wrote is committed with it.
CommitEachBlock(p) ==
  LET last == left[p] = 1 IN
  /\ at[p] = "holding"
  /\ left' = [left EXCEPT ![p] = @ - 1]
  /\ wrote' = [wrote EXCEPT ![p] = TRUE]
  /\ status' = [status EXCEPT ![p] = IF last THEN "ok" ELSE @]
  /\ PyGiveBack([at EXCEPT ![p] = IF last THEN "answered" ELSE "ready"])

\* Mutant of Commit: the blocks are nested, all connections go back at the end.
CommitNested(p) ==
  LET last == left[p] = 1 IN
  /\ at[p] = "holding"
  /\ left' = [left EXCEPT ![p] = @ - 1]
  /\ wrote' = [wrote EXCEPT ![p] = last]
  /\ status' = [status EXCEPT ![p] = IF last THEN "ok" ELSE @]
  /\ IF last THEN PyGiveBack([at EXCEPT ![p] = "answered"])
     ELSE at' = [at EXCEPT ![p] = "ready"] /\ UNCHANGED poolVars

\* The block ends: commit, give back.  The last block is the handler's own.
Commit(p) ==
  LET last == left[p] = 1 IN
  /\ at[p] = "holding"
  /\ left' = [left EXCEPT ![p] = @ - 1]
  /\ wrote' = [wrote EXCEPT ![p] = last]
  /\ status' = [status EXCEPT ![p] = IF last THEN "ok" ELSE @]
  /\ PyGiveBack([at EXCEPT ![p] = IF last THEN "answered" ELSE "ready"])

\* Mutant of PyFail: an exception leaves the block without giving back.
FailLeaks(p) ==
  /\ at[p] = "holding"
  /\ status' = [status EXCEPT ![p] = "error"]
  /\ at' = [at EXCEPT ![p] = "answered"]
  /\ UNCHANGED <<poolVars, left, wrote>>

\* Mutant of PyFail: the handler gives back what the `async with' gives back too.
FailGivesTwice(p) ==
  /\ at[p] = "holding"
  /\ status' = [status EXCEPT ![p] = "error"]
  /\ free' = free + 2
  /\ at' = [at EXCEPT ![p] = "answered"]
  /\ UNCHANGED <<queue, left, wrote>>

\* The block raises (HTTPException or a database error): rollback, give back.
\* A connection lost in its last COMMIT may have committed all the same.
PyFail(p) ==
  /\ at[p] = "holding"
  /\ status' = [status EXCEPT ![p] = "error"]
  /\ wrote' \in {wrote, [wrote EXCEPT ![p] = left[p] = 1]}
  /\ PyGiveBack([at EXCEPT ![p] = "answered"])
  /\ UNCHANGED left

\* PoolTimeout: pool_timeout_handler answers 503.
PyTimeout(p) ==
  /\ at[p] = "waiting"
  /\ \E i \in DOMAIN queue : queue[i] = p /\ queue' = RemoveAt(queue, i)
  /\ at' = [at EXCEPT ![p] = "answered"]
  /\ status' = [status EXCEPT ![p] = "503"]
  /\ UNCHANGED <<free, left, wrote>>

Leave(p) ==
  /\ at[p] = "answered"
  /\ at' = [at EXCEPT ![p] = "idle"]
  /\ UNCHANGED <<poolVars, left, status, wrote>>

PyNext == \E p \in Requests :
  \/ PyArrive(p) \/ Checkout(p) \/ PyWait(p)
  \/ Commit(p) \/ PyFail(p) \/ PyTimeout(p) \/ Leave(p)

PySpec == PyInit /\ [][PyNext]_pyVars

\* Handlers run on, and a block that holds a connection ends, one way or the
\* other.  Nothing is asked of Timeout: no one needs it to be served.
PyFairness ==
  \A p \in Requests : WF_pyVars(Checkout(p) \/ PyWait(p)) /\ WF_pyVars(Commit(p) \/ PyFail(p))

-----------------------------------------------------------------------------

Holders == {p \in Requests : at[p] = "holding"}

\* Every connection is idle or with one request: none leaks on an exception, a
\* timeout, or a hand-over that races a timeout.
PyConserved == free + Cardinality(Holders) = Size

\* main.py:85-93, "try again shortly": a request told 503 has committed nothing to
\* PostgreSQL, whichever of its checkouts timed out, so its work there is not done
\* twice by trying again; and one told that it was done has been done.  What a
\* request does outside PostgreSQL before its first checkout is not undone: a login
\* has spent an attempt of its client's limit (main.py:255-261), and a retry spends
\* another.
RefusedCommittedNothing ==
  \A p \in Requests :
    at[p] = "answered" => /\ status[p] = "503" => ~wrote[p]
                          /\ status[p] = "ok" => wrote[p]

\* No request holds one connection while it waits for another, so even without
\* the timeout every request that asks for a connection is answered.
EveryRequestAnswered == \A p \in Requests : at[p] = "ready" ~> at[p] = "answered"
=============================================================================
