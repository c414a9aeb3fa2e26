------------------------------ MODULE Migrate ------------------------------
(***************************************************************************)
(* The release step: migrate.py and its twin migrate.ts, run by any number *)
(* of deploys at once against one database, each with its own migrations   *)
(* directory 0001 .. files[r].                                             *)
(*                                                                         *)
(* PostgreSQL (external) is what the two programs see of it: a statement   *)
(* waits for another transaction that is creating the same object or       *)
(* inserting the same key, and fails if that transaction commits.          *)
(* Committed state is `table', `schema' and `applied'; what a runner's     *)
(* open transaction has done so far is creating, ddl[r] and rows[r].       *)
(*                                                                         *)
(* migrate.ts commits each migration.  migrate.py's SELECT opens a         *)
(* transaction, so its `with conn.transaction()' is a savepoint inside it  *)
(* and everything commits when `with psycopg.connect' ends.                *)
(***************************************************************************)
EXTENDS Integers

CONSTANTS
  PyRunners,   \* deploys that run migrate.py
  TsRunners,   \* deploys that run migrate.ts
  Last,        \* the number of the newest migration
  Faulty       \* migrations whose SQL may fail on the data or the locks it meets

Runners == PyRunners \cup TsRunners
Versions == 1 .. Last

ASSUME MigrateAssumption ==
  /\ PyRunners \cap TsRunners = {}
  /\ Last \in Nat
  /\ Faulty \subseteq Versions

VARIABLES
  table,      \* has schema_migrations been created?
  applied,    \* versions recorded in schema_migrations
  schema,     \* how often each migration's statements have taken effect
  pc,         \* each runner: where it is
  files,      \* each runner: the newest migration in its directory
  known,      \* each runner: `applied' as its SELECT returned it
  next,       \* each runner: the migration its loop is at
  creating,   \* runners whose open transaction creates schema_migrations
  ddl,        \* each runner: migrations its open transaction has executed
  rows,       \* each runner: versions its open transaction has inserted
  reported    \* each runner: versions it has reported as applied

dbVars == <<table, applied, schema>>
loopVars == <<files, known, next>>
txVars == <<creating, ddl, rows>>
vars == <<dbVars, pc, loopVars, txVars, reported>>

Stages == {"off", "create", "createWaits", "created", "read",
           "loop", "executed", "recorded", "done", "failed", "lost"}

Over == {"done", "failed", "lost"}

TypeOK ==
  /\ table \in BOOLEAN
  /\ applied \subseteq Versions
  /\ schema \in [Versions -> Nat]
  /\ pc \in [Runners -> Stages]
  /\ files \in [Runners -> Versions \cup {0}]
  /\ known \in [Runners -> SUBSET Versions]
  /\ next \in [Runners -> 1 .. Last + 1]
  /\ creating \subseteq Runners
  /\ ddl \in [Runners -> SUBSET Versions]
  /\ rows \in [Runners -> SUBSET Versions]
  /\ reported \in [Runners -> SUBSET Versions]

Init ==
  /\ table = FALSE
  /\ applied = {}
  /\ schema = [v \in Versions |-> 0]
  /\ pc = [r \in Runners |-> "off"]
  /\ files = [r \in Runners |-> 0]
  /\ known = [r \in Runners |-> {}]
  /\ next = [r \in Runners |-> 1]
  /\ creating = {}
  /\ ddl = [r \in Runners |-> {}]
  /\ rows = [r \in Runners |-> {}]
  /\ reported = [r \in Runners |-> {}]

-----------------------------------------------------------------------------
(* Transactions *)

Goto(r, stage) == pc' = [pc EXCEPT ![r] = stage]

\* The open transaction of r takes effect: its statements and its rows together.
CommitOf(r) ==
  /\ schema' = [v \in Versions |-> IF v \in ddl[r] THEN schema[v] + 1 ELSE schema[v]]
  /\ applied' = applied \cup rows[r]
  /\ ddl' = [ddl EXCEPT ![r] = {}]
  /\ rows' = [rows EXCEPT ![r] = {}]

\* Mutant of Abandon: the failed program leaves its connection open.
AbandonIdle(r, stage) ==
  /\ Goto(r, stage)
  /\ UNCHANGED <<dbVars, loopVars, txVars, reported>>

\* The connection ends without COMMIT: nothing of the open transaction remains.
\* An exception ends the program ("failed"), or it is lost with its connection.
Abandon(r, stage) ==
  /\ Goto(r, stage)
  /\ creating' = creating \ {r}
  /\ ddl' = [ddl EXCEPT ![r] = {}]
  /\ rows' = [rows EXCEPT ![r] = {}]
  /\ UNCHANGED <<dbVars, loopVars, reported>>

\* No other open transaction has executed v: its locks would make r wait.
Unlocked(r, v) == \A s \in Runners \ {r} : v \notin ddl[s] \cup rows[s]

-----------------------------------------------------------------------------
(* The program *)

\* A deploy starts the program, for the first time or again.
Start(r) ==
  /\ pc[r] \in Over \cup {"off"}
  /\ Goto(r, "create")
  /\ \E f \in Versions : files' = [files EXCEPT ![r] = f]
  /\ known' = [known EXCEPT ![r] = {}]
  /\ next' = [next EXCEPT ![r] = 1]
  /\ reported' = [reported EXCEPT ![r] = {}]
  /\ UNCHANGED <<dbVars, txVars>>

\* CREATE TABLE IF NOT EXISTS looks for a committed table only.
CreateTable(r) ==
  /\ pc[r] = "create"
  /\ \/ table /\ Goto(r, "created") /\ UNCHANGED creating
     \/ ~table /\ creating = {} /\ Goto(r, "created") /\ creating' = {r}
     \/ ~table /\ creating # {} /\ Goto(r, "createWaits") /\ UNCHANGED creating
  /\ UNCHANGED <<dbVars, loopVars, ddl, rows, reported>>

\* It has waited for the transaction that created the same name.
CreateResumes(r) ==
  /\ pc[r] = "createWaits"
  /\ creating = {}
  /\ ~table
  /\ creating' = {r}
  /\ Goto(r, "created")
  /\ UNCHANGED <<dbVars, loopVars, ddl, rows, reported>>

CreateFails(r) ==
  /\ pc[r] = "createWaits"
  /\ creating = {}
  /\ table
  /\ Abandon(r, "failed")

CommitCreate(r) ==
  /\ pc[r] = "created"
  /\ table' = (table \/ r \in creating)
  /\ creating' = creating \ {r}
  /\ Goto(r, "read")
  /\ UNCHANGED <<applied, schema, loopVars, ddl, rows, reported>>

ReadApplied(r) ==
  /\ pc[r] = "read"
  /\ known' = [known EXCEPT ![r] = applied]
  /\ Goto(r, "loop")
  /\ UNCHANGED <<dbVars, files, next, txVars, reported>>

AtMigration(r) == pc[r] = "loop" /\ next[r] <= files[r]

\* Mutant of Skip: a skipped file takes its successor with it.
SkipTwice(r) ==
  /\ AtMigration(r)
  /\ next[r] \in known[r]
  /\ next' = [next EXCEPT ![r] = @ + 2]
  /\ UNCHANGED <<dbVars, pc, files, known, txVars, reported>>

Skip(r) ==
  /\ AtMigration(r)
  /\ next[r] \in known[r]
  /\ next' = [next EXCEPT ![r] = @ + 1]
  /\ UNCHANGED <<dbVars, pc, files, known, txVars, reported>>

\* The objects the file creates are there already.
Exists(v) == schema[v] > 0

\* Mutant of Execute: each statement of the file commits by itself.
ExecuteAutocommit(r) ==
  /\ AtMigration(r)
  /\ next[r] \notin known[r]
  /\ Unlocked(r, next[r])
  /\ ~Exists(next[r])
  /\ schema' = [schema EXCEPT ![next[r]] = @ + 1]
  /\ Goto(r, "executed")
  /\ UNCHANGED <<table, applied, loopVars, txVars, reported>>

\* The file's statements: they wait for another runner that is at the same file.
Execute(r) ==
  /\ AtMigration(r)
  /\ next[r] \notin known[r]
  /\ Unlocked(r, next[r])
  /\ ~Exists(next[r])
  /\ ddl' = [ddl EXCEPT ![r] = @ \cup {next[r]}]
  /\ Goto(r, "executed")
  /\ UNCHANGED <<dbVars, loopVars, creating, rows, reported>>

\* Mutant of ExecuteFails: the loop goes on to the next file.
FailureIgnored(r) ==
  /\ AtMigration(r)
  /\ next[r] \notin known[r]
  /\ Unlocked(r, next[r])
  /\ Exists(next[r]) \/ next[r] \in Faulty
  /\ next' = [next EXCEPT ![r] = @ + 1]
  /\ UNCHANGED <<dbVars, pc, files, known, txVars, reported>>

ExecuteFails(r) ==
  /\ AtMigration(r)
  /\ next[r] \notin known[r]
  /\ Unlocked(r, next[r])
  /\ Exists(next[r]) \/ next[r] \in Faulty
  /\ Abandon(r, "failed")

\* INSERT INTO schema_migrations: version is its primary key.  The key is never
\* taken: the file's statements would have failed first (RecordMatchesSchema).
Record(r) ==
  /\ pc[r] = "executed"
  /\ Unlocked(r, next[r])
  /\ next[r] \notin applied
  /\ rows' = [rows EXCEPT ![r] = @ \cup {next[r]}]
  /\ Goto(r, "recorded")
  /\ UNCHANGED <<dbVars, loopVars, creating, ddl, reported>>

\* migrate.py: the savepoint is released, and the version printed.
ReleaseSavepoint(r) ==
  /\ r \in PyRunners
  /\ pc[r] = "recorded"
  /\ reported' = [reported EXCEPT ![r] = @ \cup {next[r]}]
  /\ next' = [next EXCEPT ![r] = @ + 1]
  /\ Goto(r, "loop")
  /\ UNCHANGED <<dbVars, files, known, txVars>>

\* Mutant of CommitMigration: the version is printed, the COMMIT forgotten.
ReportWithoutCommit(r) ==
  /\ r \in TsRunners
  /\ pc[r] = "recorded"
  /\ reported' = [reported EXCEPT ![r] = @ \cup {next[r]}]
  /\ next' = [next EXCEPT ![r] = @ + 1]
  /\ Goto(r, "loop")
  /\ UNCHANGED <<dbVars, files, known, txVars>>

\* migrate.ts: COMMIT, and the version printed.
CommitMigration(r) ==
  /\ r \in TsRunners
  /\ pc[r] = "recorded"
  /\ CommitOf(r)
  /\ reported' = [reported EXCEPT ![r] = @ \cup {next[r]}]
  /\ next' = [next EXCEPT ![r] = @ + 1]
  /\ Goto(r, "loop")
  /\ UNCHANGED <<table, files, known, creating>>

\* Mutant of Finish: the connection is closed, not left through its `with'.
FinishWithoutCommit(r) ==
  /\ pc[r] = "loop"
  /\ next[r] > files[r]
  /\ ddl' = [ddl EXCEPT ![r] = {}]
  /\ rows' = [rows EXCEPT ![r] = {}]
  /\ Goto(r, "done")
  /\ UNCHANGED <<dbVars, loopVars, creating, reported>>

\* The loop is over: migrate.py's connection commits, and the program exits 0.
Finish(r) ==
  /\ pc[r] = "loop"
  /\ next[r] > files[r]
  /\ CommitOf(r)
  /\ Goto(r, "done")
  /\ UNCHANGED <<table, loopVars, creating, reported>>

\* The process or its connection is lost at any point.
Crash(r) ==
  /\ pc[r] \notin Over \cup {"off"}
  /\ Abandon(r, "lost")

Step(r) ==
  \/ CreateTable(r) \/ CreateResumes(r) \/ CreateFails(r) \/ CommitCreate(r)
  \/ ReadApplied(r) \/ Skip(r)
  \/ Execute(r) \/ ExecuteFails(r) \/ Record(r)
  \/ ReleaseSavepoint(r) \/ CommitMigration(r) \/ Finish(r)

Next == \E r \in Runners : Start(r) \/ Step(r) \/ Crash(r)

Spec == Init /\ [][Next]_vars

\* A program that runs takes its next step, and PostgreSQL's queue of waiters
\* hands a released lock to the longest waiter, so a wait that can end again and
\* again ends.  Nobody has to deploy, or to crash.
FairSpec == Spec /\ \A r \in Runners : SF_vars(Step(r))

-----------------------------------------------------------------------------

\* Each migration's row and its statements are committed together and once.
RecordMatchesSchema ==
  \A v \in Versions : schema[v] = IF v \in applied THEN 1 ELSE 0

\* The recorded versions are a prefix of the sorted directory.
AppliedInOrder == \A v \in applied : 1 .. v \subseteq applied

\* Two runners never both have migrations in flight: whoever executes the first
\* missing one holds its locks until it commits, and the others wait or fail.
OneMigrator ==
  \A r, s \in Runners : ddl[r] # {} /\ ddl[s] # {} => r = s

\* migrate.py:4-7, the platform starts the new API after the release step: a
\* program that exits 0 leaves every migration of its directory in effect.
ExitMeansMigrated ==
  \A r \in Runners : pc[r] = "done" => 1 .. files[r] \subseteq applied

\* migrate.ts:7-8, "one transaction each": a version it reports stays applied.
TsReportsAreDurable == \A r \in TsRunners : reported[r] \subseteq applied

\* migrate.py:9-10, "applies the rest in one transaction each": when a migration
\* fails, those reported as applied before it are applied.  A program that is lost
\* says nothing of this: what it has not committed nobody promised.
OneTransactionEach ==
  \A r \in PyRunners : pc[r] = "failed" => reported[r] \subseteq applied

\* Whatever the mix of runners, no one waits for ever: a started program ends.
EveryRunEnds ==
  \A r \in Runners : pc[r] = "create" ~> pc[r] \in Over

Log == INSTANCE MigrationLog WITH inEffect <- applied

\* Together the runners only ever extend the prefix of migrations in effect.
ImplementsLog == Log!LogSpec
=============================================================================
