---------------------------- MODULE VisitCounter ----------------------------
(***************************************************************************)
(* Four ways to count a visit (lost_update.py, and its twin lost_update.js; *)
(* orm_increment.py and orm_demo.js write the first ones with an ORM).     *)
(* Each of the worker threads adds 1 to bookmarks.visit_count BUMPS times, *)
(* one transaction for each, all with one strategy:                        *)
(*                                                                         *)
(*   read_modify_write  SELECT, add in the program, UPDATE SET = value     *)
(*   select_for_update  the same, and the SELECT takes the row lock        *)
(*   one_statement      UPDATE SET visit_count = visit_count + 1           *)
(*   repeatable_read    the first at REPEATABLE READ, retried when refused *)
(*                                                                         *)
(* A statement that needs the row lock is enabled once the lock is free:   *)
(* PostgreSQL then gives it the newest committed row, except at REPEATABLE *)
(* READ, where a row that changed since the snapshot refuses the UPDATE.   *)
(***************************************************************************)
EXTENDS Naturals, FiniteSets

CONSTANTS
  Threads,     \* the WORKERS
  BUMPS,       \* increments of each worker
  Free,        \* the row lock when no transaction holds it
  MaxCrashes   \* bound: workers that lose their connection

ASSUME VisitCounterAssumption ==
  /\ IsFiniteSet(Threads)
  /\ BUMPS \in Nat
  /\ Free \notin Threads
  /\ MaxCrashes \in Nat

Strategies ==
  {"read_modify_write", "select_for_update", "one_statement", "repeatable_read"}

VARIABLES
  strategy,  \* the one that run() gave to every worker
  count,     \* committed visit_count of the bookmark
  lock,      \* the transaction that holds the row lock
  tx,        \* each worker's transaction
  left,      \* increments each worker has still to make
  retries,   \* the script's counter of serialization failures
  crashes,   \* workers that lost their connection
  commits    \* history: transactions committed

databaseVars == <<count, lock, commits>>
vars == <<strategy, databaseVars, tx, left, retries, crashes>>

Idle == [at |-> "idle"]

\* A transaction that holds the count it read; stale once another commits.
HasRead(n) == [at |-> "read", value |-> n, stale |-> FALSE]

\* A transaction whose UPDATE is done; it holds the row lock.
HasWritten(n) == [at |-> "wrote", value |-> n]

TxStates ==
  {Idle}
    \cup [at : {"read"}, value : Nat, stale : BOOLEAN]
    \cup [at : {"wrote"}, value : Nat]

TypeOK ==
  /\ strategy \in Strategies
  /\ count \in Nat
  /\ lock \in Threads \cup {Free}
  /\ tx \in [Threads -> TxStates]
  /\ left \in [Threads -> 0 .. BUMPS]
  /\ retries \in Nat
  /\ crashes \in 0 .. MaxCrashes
  /\ commits \in Nat

Init ==
  /\ strategy \in Strategies
  /\ count = 0
  /\ lock = Free
  /\ tx = [t \in Threads |-> Idle]
  /\ left = [t \in Threads |-> BUMPS]
  /\ retries = 0
  /\ crashes = 0
  /\ commits = 0

Starts(t) == tx[t] = Idle /\ left[t] > 0

\* A plain SELECT reads the committed row and takes no lock.  At REPEATABLE READ
\* it is the statement that takes the transaction's snapshot.
SelectCount(t) ==
  /\ strategy \in {"read_modify_write", "repeatable_read"}
  /\ Starts(t)
  /\ tx' = [tx EXCEPT ![t] = HasRead(count)]
  /\ UNCHANGED <<strategy, databaseVars, left, retries, crashes>>

\* Mutant of SelectForUpdate: the FOR UPDATE is forgotten.
SelectUnlocked(t) ==
  /\ strategy = "select_for_update"
  /\ Starts(t)
  /\ tx' = [tx EXCEPT ![t] = HasRead(count)]
  /\ UNCHANGED <<strategy, databaseVars, left, retries, crashes>>

\* SELECT ... FOR UPDATE waits for the row and reads it when it has it.
SelectForUpdate(t) ==
  /\ strategy = "select_for_update"
  /\ Starts(t)
  /\ lock = Free
  /\ lock' = t
  /\ tx' = [tx EXCEPT ![t] = HasRead(count)]
  /\ UNCHANGED <<strategy, count, commits, left, retries, crashes>>

\* UPDATE ... SET visit_count = the value read, plus one.
WriteBack(t) ==
  /\ tx[t].at = "read"
  /\ lock \in {Free, t}
  /\ strategy = "repeatable_read" => ~tx[t].stale
  /\ lock' = t
  /\ tx' = [tx EXCEPT ![t] = HasWritten(tx[t].value + 1)]
  /\ UNCHANGED <<strategy, count, commits, left, retries, crashes>>

\* UPDATE ... SET visit_count = visit_count + 1, in the database.
UpdateInPlace(t) ==
  /\ strategy = "one_statement"
  /\ Starts(t)
  /\ lock = Free
  /\ lock' = t
  /\ tx' = [tx EXCEPT ![t] = HasWritten(count + 1)]
  /\ UNCHANGED <<strategy, count, commits, left, retries, crashes>>

\* Mutant of Refused: the retry goes on in the transaction it was refused in.
RefusedKeepsSnapshot(t) ==
  /\ strategy = "repeatable_read"
  /\ tx[t].at = "read"
  /\ tx[t].stale
  /\ retries' = retries + 1
  /\ UNCHANGED <<strategy, databaseVars, tx, left, crashes>>

\* SerializationFailure: the row changed after the snapshot.  The transaction is
\* rolled back and the loop begins another one, with a snapshot of its own.
Refused(t) ==
  /\ strategy = "repeatable_read"
  /\ tx[t].at = "read"
  /\ tx[t].stale
  /\ tx' = [tx EXCEPT ![t] = Idle]
  /\ retries' = retries + 1
  /\ UNCHANGED <<strategy, databaseVars, left, crashes>>

\* What a commit does to the transactions that have read the row.
Outdated(s) == IF s.at = "read" THEN [s EXCEPT !.stale = TRUE] ELSE s

\* Mutant of Commit: the loop counts two increments for one commit.
CommitCountsTwo(t) ==
  /\ tx[t].at = "wrote"
  /\ count' = tx[t].value
  /\ lock' = Free
  /\ commits' = commits + 1
  /\ tx' = [u \in Threads |-> IF u = t THEN Idle ELSE Outdated(tx[u])]
  /\ left' = [left EXCEPT ![t] = @ - 2]
  /\ UNCHANGED <<strategy, retries, crashes>>

Commit(t) ==
  /\ tx[t].at = "wrote"
  /\ count' = tx[t].value
  /\ lock' = Free
  /\ commits' = commits + 1
  /\ tx' = [u \in Threads |-> IF u = t THEN Idle ELSE Outdated(tx[u])]
  /\ left' = [left EXCEPT ![t] = @ - 1]
  /\ UNCHANGED <<strategy, retries, crashes>>

\* Mutant of Crash: the database keeps the lock of a session that is gone.
CrashKeepsLock(t) ==
  /\ crashes < MaxCrashes
  /\ left[t] > 0
  /\ crashes' = crashes + 1
  /\ tx' = [tx EXCEPT ![t] = Idle]
  /\ left' = [left EXCEPT ![t] = 0]
  /\ UNCHANGED <<strategy, databaseVars, retries>>

\* The connection is lost: PostgreSQL rolls back, and the worker ends with the
\* exception, which is not a SerializationFailure.
Crash(t) ==
  /\ crashes < MaxCrashes
  /\ left[t] > 0
  /\ crashes' = crashes + 1
  /\ lock' = IF lock = t THEN Free ELSE lock
  /\ tx' = [tx EXCEPT ![t] = Idle]
  /\ left' = [left EXCEPT ![t] = 0]
  /\ UNCHANGED <<strategy, count, commits, retries>>

Work(t) ==
  \/ SelectCount(t)
  \/ SelectForUpdate(t)
  \/ WriteBack(t)
  \/ UpdateInPlace(t)
  \/ Refused(t)
  \/ Commit(t)

Next == \E t \in Threads : Work(t) \/ Crash(t)

Spec == Init /\ [][Next]_vars

\* Every worker is a thread the operating system runs, and PostgreSQL hands on
\* a row lock that is free.
FairSpec == Spec /\ \A t \in Threads : WF_vars(Work(t))

-----------------------------------------------------------------------------

\* lost_update.py:7-9: the correct answer is one for each increment, and only the
\* first strategy gets it wrong.  The other three implement a counter.
C == INSTANCE Counter WITH total <- count, owed <- left

LosesNothing == strategy # "read_modify_write"

ImplementsCounter ==
  /\ C!CInit
  /\ [][LosesNothing => C!CNext \/ UNCHANGED C!counterVars]_vars

\* lost_update.py:65-80: the retry loop at REPEATABLE READ has no limit of its
\* own.  It needs none: a commit refuses each of the other threads once at
\* most, so a failure is always some other thread's progress.
RetriesAreEarned == retries <= (Cardinality(Threads) - 1) * commits

\* lost_update.py:103-104: run() joins every thread without a timeout, so no
\* worker may wait for the row lock, or retry, for ever.
EveryWorkerEnds == <>(\A t \in Threads : left[t] = 0)
=============================================================================
