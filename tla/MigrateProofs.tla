--------------------------- MODULE MigrateProofs ---------------------------
(***************************************************************************)
(* The release step, for any number of runners of either kind and any      *)
(* number of migrations: the recorded versions are an ordered prefix whose *)
(* statements ran once, one runner at a time has migrations in flight, an  *)
(* exit code of 0 means a migrated schema, and MigrationLog is kept.       *)
(***************************************************************************)
EXTENDS Migrate, TLAPS

-----------------------------------------------------------------------------
(* The inductive invariant *)

Running(r) == pc[r] \in {"loop", "executed", "recorded"}

\* What an open transaction has executed and what it has inserted.
TxShape(r) ==
  /\ ~Running(r) => ddl[r] = {}
  /\ pc[r] = "executed" => ddl[r] = rows[r] \cup {next[r]}
  /\ pc[r] # "executed" => rows[r] = ddl[r]

\* Nothing in flight is committed, and nothing in flight leaves a gap below it.
TxExtends(r) ==
  \A v \in ddl[r] : v \notin applied /\ 1 .. v - 1 \subseteq applied \cup ddl[r]

\* The loop has dealt with every migration below the one it is at.
LoopCovers(r) ==
  Running(r) =>
    /\ 1 .. next[r] - 1 \subseteq applied \cup ddl[r]
    /\ ddl[r] \subseteq 1 .. (IF pc[r] = "loop" THEN next[r] - 1 ELSE next[r])
    /\ next[r] <= files[r] + 1
    /\ pc[r] # "loop" => next[r] \in ddl[r] /\ next[r] <= files[r]

KnownIsApplied(r) == known[r] \subseteq applied

StartsAtFirst(r) == pc[r] \in {"create", "createWaits", "created", "read"} => next[r] = 1

RunnerInv(r) ==
  TxShape(r) /\ TxExtends(r) /\ LoopCovers(r) /\ KnownIsApplied(r) /\ StartsAtFirst(r)

SafetyInv ==
  /\ RecordMatchesSchema
  /\ AppliedInOrder
  /\ OneMigrator
  /\ ExitMeansMigrated
  /\ TsReportsAreDurable

IInv == TypeOK /\ SafetyInv /\ \A r \in Runners : RunnerInv(r)

-----------------------------------------------------------------------------

LEMMA InitIInv == Init => IInv
<1> SUFFICES ASSUME Init PROVE IInv
  OBVIOUS
<1> USE MigrateAssumption DEF Init, Versions
<1>1. TypeOK
  <2>1. 1 \in 1 .. Last + 1
    OBVIOUS
  <2>2. schema \in [Versions -> Nat]
    OBVIOUS
  <2> QED BY <2>1, <2>2 DEF TypeOK, Stages
<1>2. SafetyInv
  BY DEF SafetyInv, RecordMatchesSchema, AppliedInOrder, OneMigrator, ExitMeansMigrated,
         TsReportsAreDurable, Runners
<1>3. \A r \in Runners : RunnerInv(r)
  BY DEF RunnerInv, TxShape, TxExtends, LoopCovers, KnownIsApplied, StartsAtFirst, Running
<1> QED BY <1>1, <1>2, <1>3 DEF IInv

LEMMA RunnerTypes ==
  ASSUME TypeOK, NEW r \in Runners
  PROVE  /\ Last \in Nat
         /\ next[r] \in Nat /\ next[r] >= 1 /\ next[r] <= Last + 1
         /\ files[r] \in Nat /\ files[r] <= Last
         /\ \A v \in ddl[r] \cup rows[r] \cup known[r] \cup reported[r] :
              v \in Versions /\ v \in Nat /\ v >= 1 /\ v <= Last
<1>1. /\ next[r] \in 1 .. Last + 1
      /\ files[r] \in (1 .. Last) \cup {0}
      /\ ddl[r] \cup rows[r] \cup known[r] \cup reported[r] \subseteq 1 .. Last
  BY DEF TypeOK, Versions
<1> QED BY <1>1, MigrateAssumption DEF Versions

\* Committed state, transactions and the loop of the other runners do not change
\* in a step that moves only r's program counter.
Quiet(r) ==
  /\ UNCHANGED <<applied, schema, ddl, rows, files, known, next, reported>>
  /\ \A s \in Runners \ {r} : pc'[s] = pc[s]
  /\ pc[r] \in {"create", "createWaits", "created"}
  /\ pc'[r] \in {"created", "createWaits", "read"}

LEMMA QuietStep ==
  ASSUME IInv, NEW r \in Runners, Quiet(r)
  PROVE  SafetyInv' /\ \A s \in Runners : RunnerInv(s)'
<1> USE DEF IInv, Quiet
<1>1. SafetyInv'
  BY DEF SafetyInv, RecordMatchesSchema, AppliedInOrder, OneMigrator, ExitMeansMigrated,
         TsReportsAreDurable
<1>2. ASSUME NEW s \in Runners PROVE RunnerInv(s)'
  <2>1. CASE s = r
    BY <2>1 DEF RunnerInv, TxShape, TxExtends, LoopCovers, KnownIsApplied, StartsAtFirst, Running
  <2>2. CASE s # r
    BY <2>2 DEF RunnerInv, TxShape, TxExtends, LoopCovers, KnownIsApplied, StartsAtFirst, Running
  <2> QED BY <2>1, <2>2
<1> QED BY <1>1, <1>2

\* An abandoned transaction leaves committed state and the other runners alone.
LEMMA AbandonStep ==
  ASSUME IInv, NEW r \in Runners, NEW stage \in {"failed", "lost"}, Abandon(r, stage)
  PROVE  SafetyInv' /\ \A s \in Runners : RunnerInv(s)'
<1> USE DEF IInv, Abandon, Goto, dbVars, loopVars
<1>1. SafetyInv'
  <2>1. OneMigrator'
    BY DEF SafetyInv, OneMigrator, TypeOK
  <2> QED
    BY <2>1 DEF SafetyInv, RecordMatchesSchema, AppliedInOrder, ExitMeansMigrated,
         TsReportsAreDurable, TypeOK
<1>2. ASSUME NEW s \in Runners PROVE RunnerInv(s)'
  <2>1. CASE s = r
    <3>1. /\ pc'[r] = stage /\ ddl'[r] = {} /\ rows'[r] = {}
          /\ known' = known /\ applied' = applied
      BY DEF TypeOK
    <3>2. KnownIsApplied(r)'
      BY <3>1 DEF RunnerInv, KnownIsApplied
    <3> QED BY <2>1, <3>1, <3>2 DEF RunnerInv, TxShape, TxExtends, LoopCovers, StartsAtFirst,
                                    Running
  <2>2. CASE s # r
    <3>1. /\ pc'[s] = pc[s] /\ ddl'[s] = ddl[s] /\ rows'[s] = rows[s]
          /\ known' = known /\ applied' = applied /\ next' = next /\ files' = files
      BY <2>2 DEF TypeOK
    <3> QED BY <3>1 DEF RunnerInv, TxShape, TxExtends, LoopCovers, KnownIsApplied, StartsAtFirst,
                        Running
  <2> QED BY <2>1, <2>2
<1> QED BY <1>1, <1>2

LEMMA StartStep ==
  ASSUME IInv, NEW r \in Runners, Start(r)
  PROVE  SafetyInv' /\ \A s \in Runners : RunnerInv(s)'
<1> USE DEF IInv, Start, Goto, Over, dbVars, txVars
<1>1. SafetyInv'
  BY DEF SafetyInv, RecordMatchesSchema, AppliedInOrder, OneMigrator, ExitMeansMigrated,
         TsReportsAreDurable, TypeOK
<1>2. ASSUME NEW s \in Runners PROVE RunnerInv(s)'
  <2>1. CASE s = r
    BY <2>1 DEF RunnerInv, TxShape, TxExtends, LoopCovers, KnownIsApplied, StartsAtFirst, Running, TypeOK
  <2>2. CASE s # r
    BY <2>2 DEF RunnerInv, TxShape, TxExtends, LoopCovers, KnownIsApplied, StartsAtFirst, Running, TypeOK
  <2> QED BY <2>1, <2>2
<1> QED BY <1>1, <1>2

LEMMA ReadStep ==
  ASSUME IInv, NEW r \in Runners, ReadApplied(r)
  PROVE  SafetyInv' /\ \A s \in Runners : RunnerInv(s)'
<1> USE DEF IInv, ReadApplied, Goto, dbVars, txVars
<1>1. SafetyInv'
  BY DEF SafetyInv, RecordMatchesSchema, AppliedInOrder, OneMigrator, ExitMeansMigrated,
         TsReportsAreDurable, TypeOK
<1>2. ASSUME NEW s \in Runners PROVE RunnerInv(s)'
  <2>1. CASE s = r
    <3>1. /\ pc'[r] = "loop" /\ next'[r] = 1 /\ known'[r] = applied'
          /\ ddl'[r] = {} /\ rows'[r] = {} /\ files'[r] = files[r] /\ files[r] \in Nat
      BY RunnerTypes DEF TypeOK, RunnerInv, StartsAtFirst, TxShape, Running
    <3> QED BY <2>1, <3>1 DEF RunnerInv, TxShape, TxExtends, LoopCovers, KnownIsApplied,
               StartsAtFirst, Running
  <2>2. CASE s # r
    BY <2>2 DEF RunnerInv, TxShape, TxExtends, LoopCovers, KnownIsApplied, StartsAtFirst,
       Running, TypeOK
  <2> QED BY <2>1, <2>2
<1> QED BY <1>1, <1>2

LEMMA SkipStep ==
  ASSUME IInv, NEW r \in Runners, Skip(r)
  PROVE  SafetyInv' /\ \A s \in Runners : RunnerInv(s)'
<1> USE DEF IInv, Skip, AtMigration, Goto, dbVars, txVars
<1>1. SafetyInv'
  BY DEF SafetyInv, RecordMatchesSchema, AppliedInOrder, OneMigrator, ExitMeansMigrated,
         TsReportsAreDurable, TypeOK
<1>2. ASSUME NEW s \in Runners PROVE RunnerInv(s)'
  <2>1. CASE s = r
    <3>1. /\ pc'[r] = "loop" /\ pc[r] = "loop" /\ next'[r] = next[r] + 1
          /\ next[r] \in applied /\ next[r] <= files[r]
          /\ next[r] \in Nat /\ files[r] \in Nat
          /\ UNCHANGED <<applied, ddl, rows, known, files>>
      BY RunnerTypes DEF TypeOK, RunnerInv, KnownIsApplied
    <3>2. LoopCovers(r)'
      <4>1. /\ 1 .. next[r] - 1 \subseteq applied \cup ddl[r]
            /\ ddl[r] \subseteq 1 .. next[r] - 1
        BY <3>1 DEF RunnerInv, LoopCovers, Running
      <4> QED BY <3>1, <4>1 DEF LoopCovers, Running
    <3> QED BY <2>1, <3>1, <3>2 DEF RunnerInv, TxShape, TxExtends, KnownIsApplied,
               StartsAtFirst, Running
  <2>2. CASE s # r
    BY <2>2 DEF RunnerInv, TxShape, TxExtends, LoopCovers, KnownIsApplied, StartsAtFirst, Running, TypeOK
  <2> QED BY <2>1, <2>2
<1> QED BY <1>1, <1>2

\* The locks are enough: with another runner's migrations in flight, the lowest
\* missing version is among them, so r would wait and not execute.
LEMMA ExecuteAlone ==
  ASSUME IInv, NEW r \in Runners, Execute(r), NEW s \in Runners, s # r
  PROVE  ddl[s] = {}
<1> DEFINE v == next[r]
<1> SUFFICES ASSUME NEW w \in ddl[s] PROVE FALSE
  OBVIOUS
<1>1. v \in Nat /\ w \in Nat /\ v \in Versions /\ w \in Versions
  <2>1. files[r] <= Last /\ next[r] <= files[r] /\ next[r] \in Nat /\ next[r] >= 1
        /\ files[r] \in Nat /\ Last \in Nat
    BY RunnerTypes DEF IInv, Execute, AtMigration
  <2>2. w \in Nat /\ w \in Versions
    BY RunnerTypes DEF IInv
  <2> QED BY <2>1, <2>2 DEF Versions
<1>2. v \notin applied /\ v \notin ddl[s]
  BY <1>1 DEF IInv, SafetyInv, RecordMatchesSchema, Execute, Exists, Unlocked
<1>3. CASE v < w
  <2>1. 1 .. w - 1 \subseteq applied \cup ddl[s]
    BY DEF IInv, RunnerInv, TxExtends
  <2> QED BY <1>1, <1>2, <1>3, <2>1 DEF Versions
<1>4. CASE w < v
  <2>1. 1 .. v - 1 \subseteq applied \cup ddl[r]
    BY DEF IInv, RunnerInv, LoopCovers, Running, Execute, AtMigration
  <2>2. w \notin applied
    BY DEF IInv, RunnerInv, TxExtends
  <2>3. w \in ddl[r]
    BY <1>1, <1>4, <2>1, <2>2 DEF Versions
  <2> QED BY <2>3 DEF IInv, SafetyInv, OneMigrator
<1>5. CASE v = w
  BY <1>2, <1>5
<1> QED BY <1>1, <1>3, <1>4, <1>5

LEMMA ExecuteStep ==
  ASSUME IInv, NEW r \in Runners, Execute(r)
  PROVE  SafetyInv' /\ \A s \in Runners : RunnerInv(s)'
<1>1. \A s \in Runners : s # r => ddl[s] = {}
  BY ExecuteAlone
<1>2. /\ ddl' = [ddl EXCEPT ![r] = ddl[r] \cup {next[r]}]
      /\ pc' = [pc EXCEPT ![r] = "executed"]
      /\ pc[r] = "loop" /\ next[r] <= files[r]
      /\ UNCHANGED <<table, applied, schema, files, known, next, rows, reported>>
  BY DEF Execute, AtMigration, Goto, dbVars, loopVars, IInv, TypeOK
<1>3. next[r] \notin applied /\ next[r] \in Versions /\ next[r] \in Nat
  <2>1. next[r] \in Versions /\ next[r] \in Nat
    BY <1>2, RunnerTypes DEF IInv, Versions
  <2> QED BY <2>1 DEF IInv, SafetyInv, RecordMatchesSchema, Execute, Exists
<1>4. SafetyInv'
  <2>1. OneMigrator'
    BY <1>1, <1>2 DEF IInv, TypeOK, OneMigrator
  <2> QED
    BY <1>2, <2>1 DEF IInv, TypeOK, SafetyInv, RecordMatchesSchema, AppliedInOrder,
       ExitMeansMigrated, TsReportsAreDurable
<1>5. ASSUME NEW s \in Runners PROVE RunnerInv(s)'
  <2>1. CASE s = r
    <3>1. ddl'[r] = ddl[r] \cup {next[r]} /\ pc'[r] = "executed"
      BY <1>2 DEF IInv, TypeOK
    <3>2. 1 .. next[r] - 1 \subseteq applied \cup ddl[r] /\ rows[r] = ddl[r]
      BY <1>2 DEF IInv, RunnerInv, LoopCovers, Running, TxShape
    <3>3. ddl[r] \subseteq 1 .. next[r] - 1
      BY <1>2 DEF IInv, RunnerInv, LoopCovers, Running
    <3>4. TxShape(r)' /\ KnownIsApplied(r)' /\ StartsAtFirst(r)'
      BY <1>2, <3>1, <3>2 DEF IInv, RunnerInv, TxShape, KnownIsApplied, StartsAtFirst, Running
    <3>5. TxExtends(r)'
      BY <1>2, <1>3, <3>1, <3>2 DEF IInv, RunnerInv, TxExtends
    <3>6. LoopCovers(r)'
      <4>1. files[r] \in Nat
        BY RunnerTypes DEF IInv
      <4> QED BY <1>2, <1>3, <3>1, <3>2, <3>3, <4>1 DEF LoopCovers, Running, Versions
    <3> QED BY <2>1, <3>4, <3>5, <3>6 DEF RunnerInv
  <2>2. CASE s # r
    BY <1>2, <2>2 DEF IInv, TypeOK, RunnerInv, TxShape, TxExtends, LoopCovers, KnownIsApplied, StartsAtFirst, Running
  <2> QED BY <2>1, <2>2
<1> QED BY <1>4, <1>5
LEMMA RecordStep ==
  ASSUME IInv, NEW r \in Runners, Record(r)
  PROVE  SafetyInv' /\ \A s \in Runners : RunnerInv(s)'
<1> USE DEF IInv, Record, Goto, dbVars, loopVars
<1>1. SafetyInv'
  BY DEF SafetyInv, RecordMatchesSchema, AppliedInOrder, OneMigrator, ExitMeansMigrated,
         TsReportsAreDurable, TypeOK
<1>2. ASSUME NEW s \in Runners PROVE RunnerInv(s)'
  <2>1. CASE s = r
    BY <2>1 DEF RunnerInv, TxShape, TxExtends, LoopCovers, KnownIsApplied, StartsAtFirst,
       Running, TypeOK
  <2>2. CASE s # r
    BY <2>2 DEF RunnerInv, TxShape, TxExtends, LoopCovers, KnownIsApplied, StartsAtFirst,
       Running, TypeOK
  <2> QED BY <2>1, <2>2
<1> QED BY <1>1, <1>2

LEMMA ReleaseStep ==
  ASSUME IInv, NEW r \in Runners, ReleaseSavepoint(r)
  PROVE  SafetyInv' /\ \A s \in Runners : RunnerInv(s)'
<1> USE DEF IInv, ReleaseSavepoint, Goto, dbVars, txVars
<1>1. SafetyInv'
  <2>1. r \notin TsRunners
    BY MigrateAssumption
  <2> QED
    BY <2>1 DEF SafetyInv, RecordMatchesSchema, AppliedInOrder, OneMigrator,
       ExitMeansMigrated, TsReportsAreDurable, TypeOK, Runners
<1>2. ASSUME NEW s \in Runners PROVE RunnerInv(s)'
  <2>1. CASE s = r
    <3>1. /\ pc'[r] = "loop" /\ pc[r] = "recorded" /\ next'[r] = next[r] + 1
          /\ next[r] \in Nat /\ files[r] \in Nat
          /\ UNCHANGED <<applied, ddl, rows, known, files>>
      BY RunnerTypes DEF TypeOK
    <3>2. LoopCovers(r)'
      <4>1. /\ 1 .. next[r] - 1 \subseteq applied \cup ddl[r] /\ next[r] \in ddl[r]
            /\ ddl[r] \subseteq 1 .. next[r]
            /\ next[r] <= files[r]
        BY <3>1 DEF RunnerInv, LoopCovers, Running
      <4> QED BY <3>1, <4>1 DEF LoopCovers, Running
    <3> QED BY <2>1, <3>1, <3>2 DEF RunnerInv, TxShape, TxExtends, KnownIsApplied,
               StartsAtFirst, Running
  <2>2. CASE s # r
    BY <2>2 DEF RunnerInv, TxShape, TxExtends, LoopCovers, KnownIsApplied, StartsAtFirst,
       Running, TypeOK
  <2> QED BY <2>1, <2>2
<1> QED BY <1>1, <1>2

\* What a commit of r's transaction does to committed state: nothing when the
\* transaction is empty, and otherwise it extends the prefix to top.
LEMMA CommitExtends ==
  ASSUME IInv, NEW r \in Runners, rows[r] = ddl[r], NEW top \in Nat, CommitOf(r),
         1 .. top \subseteq applied \cup ddl[r], ddl[r] \subseteq 1 .. top
  PROVE  /\ applied' = applied \cup ddl[r]
         /\ RecordMatchesSchema'
         /\ AppliedInOrder'
         /\ OneMigrator'
         /\ 1 .. top \subseteq applied'
         /\ \/ ddl[r] = {} /\ applied' = applied
            \/ top \notin applied /\ top \in Versions /\ applied' = 1 .. top
         /\ \A s \in Runners : s # r => \/ applied' = applied
                                        \/ ddl[s] = {}
<1> USE DEF IInv
<1>1. /\ applied' = applied \cup ddl[r]
      /\ schema' = [v \in Versions |-> IF v \in ddl[r] THEN schema[v] + 1 ELSE schema[v]]
      /\ ddl' = [ddl EXCEPT ![r] = {}]
  BY DEF CommitOf
<1>2. \A v \in ddl[r] : v \notin applied /\ 1 .. v - 1 \subseteq applied \cup ddl[r]
  BY DEF RunnerInv, TxExtends
<1>3. RecordMatchesSchema'
  BY <1>1, <1>2 DEF SafetyInv, RecordMatchesSchema, TypeOK
<1>4. \A v \in applied \cup ddl[r] : v \in Nat /\ v >= 1 /\ v \in Versions
  BY RunnerTypes DEF TypeOK, Versions
<1>5. \A v \in applied : 1 .. v \subseteq applied
  BY DEF SafetyInv, AppliedInOrder
<1>6. AppliedInOrder'
  <2> SUFFICES ASSUME NEW v \in applied \cup ddl[r] PROVE 1 .. v \subseteq applied \cup ddl[r]
    BY <1>1 DEF AppliedInOrder
  <2>1. CASE v \in applied
    BY <1>5, <2>1
  <2>2. CASE v \in ddl[r]
    BY <1>2, <1>4, <2>2
  <2> QED BY <2>1, <2>2
<1>7. OneMigrator'
  BY <1>1 DEF SafetyInv, OneMigrator, TypeOK
<1>8. CASE ddl[r] = {}
  BY <1>1, <1>3, <1>6, <1>7, <1>8
<1>9. CASE ddl[r] # {}
  <2> PICK w \in ddl[r] : TRUE
    BY <1>9
  <2>1. w \in 1 .. top /\ w \notin applied /\ w \in Nat /\ w >= 1
    BY <1>2, <1>4
  <2>2. \A v \in applied : v < w
    BY <1>4, <1>5, <2>1
  <2>3. top \notin applied
    BY <2>1, <2>2
  <2>4. top \in Versions
    BY <1>4, <2>1, <2>3
  <2>5. applied' = 1 .. top
    BY <1>1, <1>4, <2>1, <2>2
  <2>6. \A s \in Runners : s # r => ddl[s] = {}
    BY <1>9 DEF SafetyInv, OneMigrator
  <2> QED BY <1>1, <1>3, <1>6, <1>7, <2>3, <2>4, <2>5, <2>6
<1> QED BY <1>8, <1>9

\* The other runners' invariants survive a commit.
LEMMA CommitOthers ==
  ASSUME IInv, NEW r \in Runners, NEW s \in Runners, s # r, CommitOf(r),
         pc'[s] = pc[s], next'[s] = next[s], files'[s] = files[s], known'[s] = known[s],
         applied' = applied \/ ddl[s] = {}
  PROVE  RunnerInv(s)'
<1>1. /\ ddl'[s] = ddl[s] /\ rows'[s] = rows[s] /\ applied \subseteq applied'
  BY DEF CommitOf, IInv, TypeOK
<1> QED
  BY <1>1 DEF IInv, RunnerInv, TxShape, TxExtends, LoopCovers, KnownIsApplied, StartsAtFirst,
     Running

LEMMA CommitMigrationStep ==
  ASSUME IInv, NEW r \in Runners, CommitMigration(r)
  PROVE  /\ SafetyInv' /\ \A s \in Runners : RunnerInv(s)'
         /\ [Log!Extend]_applied
<1> USE DEF IInv
<1> DEFINE top == next[r]
<1>1. /\ pc[r] = "recorded" /\ CommitOf(r)
      /\ pc' = [pc EXCEPT ![r] = "loop"]
      /\ next' = [next EXCEPT ![r] = next[r] + 1]
      /\ reported' = [reported EXCEPT ![r] = reported[r] \cup {next[r]}]
      /\ UNCHANGED <<files, known>>
  BY DEF CommitMigration, Goto, TypeOK
<1>2. /\ rows[r] = ddl[r] /\ top \in Nat /\ files[r] \in Nat
      /\ 1 .. top - 1 \subseteq applied \cup ddl[r] /\ top \in ddl[r]
      /\ ddl[r] \subseteq 1 .. top /\ top <= files[r]
  BY <1>1, RunnerTypes DEF RunnerInv, TxShape, LoopCovers, Running
<1>3. 1 .. top \subseteq applied \cup ddl[r]
  BY <1>2
<1> HIDE DEF top
<1>4. /\ applied' = applied \cup ddl[r]
      /\ RecordMatchesSchema' /\ AppliedInOrder' /\ OneMigrator'
      /\ 1 .. top \subseteq applied'
      /\ \/ ddl[r] = {} /\ applied' = applied
         \/ top \notin applied /\ top \in Versions /\ applied' = 1 .. top
      /\ \A s \in Runners : s # r => applied' = applied \/ ddl[s] = {}
  BY <1>1, <1>2, <1>3, CommitExtends
<1>5. SafetyInv'
  <2>1. ExitMeansMigrated'
    BY <1>1, <1>4 DEF SafetyInv, ExitMeansMigrated, TypeOK
  <2>2. TsReportsAreDurable'
    BY <1>1, <1>2, <1>4 DEF SafetyInv, TsReportsAreDurable, TypeOK, top
  <2> QED BY <1>4, <2>1, <2>2 DEF SafetyInv
<1>6. ASSUME NEW s \in Runners PROVE RunnerInv(s)'
  <2>1. CASE s = r
    <3>1. /\ pc'[r] = "loop" /\ next'[r] = top + 1 /\ ddl'[r] = {} /\ rows'[r] = {}
          /\ files'[r] = files[r] /\ known'[r] = known[r]
      BY <1>1 DEF CommitOf, TypeOK, top
    <3>2. KnownIsApplied(r)'
      BY <1>4, <3>1 DEF RunnerInv, KnownIsApplied
    <3> QED
      BY <1>2, <1>4, <2>1, <3>1, <3>2 DEF RunnerInv, TxShape, TxExtends, LoopCovers,
         StartsAtFirst, Running
  <2>2. CASE s # r
    <3>1. pc'[s] = pc[s] /\ next'[s] = next[s] /\ files'[s] = files[s] /\ known'[s] = known[s]
      BY <1>1, <2>2 DEF TypeOK
    <3> QED BY <1>1, <1>4, <2>2, <3>1, CommitOthers
  <2> QED BY <2>1, <2>2
<1>7. [Log!Extend]_applied
  BY <1>4 DEF Log!Extend, Versions
<1> QED BY <1>5, <1>6, <1>7

LEMMA FinishStep ==
  ASSUME IInv, NEW r \in Runners, Finish(r)
  PROVE  /\ SafetyInv' /\ \A s \in Runners : RunnerInv(s)'
         /\ [Log!Extend]_applied
<1> USE DEF IInv
<1> DEFINE top == next[r] - 1
<1>1. /\ pc[r] = "loop" /\ CommitOf(r) /\ next[r] > files[r]
      /\ pc' = [pc EXCEPT ![r] = "done"]
      /\ UNCHANGED <<next, files, known, reported>>
  BY DEF Finish, Goto, TypeOK, loopVars
<1>2. /\ rows[r] = ddl[r] /\ top \in Nat /\ files[r] \in Nat /\ files[r] <= top
      /\ 1 .. top \subseteq applied \cup ddl[r]
      /\ ddl[r] \subseteq 1 .. top
  BY <1>1, RunnerTypes DEF RunnerInv, TxShape, LoopCovers, Running
<1> HIDE DEF top
<1>4. /\ applied' = applied \cup ddl[r]
      /\ RecordMatchesSchema' /\ AppliedInOrder' /\ OneMigrator'
      /\ 1 .. top \subseteq applied'
      /\ \/ ddl[r] = {} /\ applied' = applied
         \/ top \notin applied /\ top \in Versions /\ applied' = 1 .. top
      /\ \A s \in Runners : s # r => applied' = applied \/ ddl[s] = {}
  BY <1>1, <1>2, CommitExtends
<1>5. SafetyInv'
  <2>1. 1 .. files[r] \subseteq applied'
    BY <1>2, <1>4
  <2>2. ExitMeansMigrated'
    BY <1>1, <1>4, <2>1 DEF SafetyInv, ExitMeansMigrated, TypeOK
  <2>3. TsReportsAreDurable'
    BY <1>1, <1>4 DEF SafetyInv, TsReportsAreDurable
  <2> QED BY <1>4, <2>2, <2>3 DEF SafetyInv
<1>6. ASSUME NEW s \in Runners PROVE RunnerInv(s)'
  <2>1. CASE s = r
    <3>1. /\ pc'[r] = "done" /\ ddl'[r] = {} /\ rows'[r] = {} /\ known'[r] = known[r]
      BY <1>1 DEF CommitOf, TypeOK
    <3>2. KnownIsApplied(r)'
      BY <1>4, <3>1 DEF RunnerInv, KnownIsApplied
    <3> QED
      BY <2>1, <3>1, <3>2 DEF RunnerInv, TxShape, TxExtends, LoopCovers, StartsAtFirst, Running
  <2>2. CASE s # r
    <3>1. pc'[s] = pc[s] /\ next'[s] = next[s] /\ files'[s] = files[s] /\ known'[s] = known[s]
      BY <1>1, <2>2 DEF TypeOK
    <3> QED BY <1>1, <1>4, <2>2, <3>1, CommitOthers
  <2> QED BY <2>1, <2>2
<1>7. [Log!Extend]_applied
  BY <1>4 DEF Log!Extend, Versions
<1> QED BY <1>5, <1>6, <1>7

-----------------------------------------------------------------------------

LEMMA TypeStep == ASSUME IInv, [Next]_vars PROVE TypeOK'
<1> USE MigrateAssumption DEF IInv, TypeOK, Stages, Goto
<1>1. ASSUME NEW r \in Runners, Start(r) PROVE TypeOK'
  <2>1. 1 \in 1 .. Last + 1
    OBVIOUS
  <2> QED BY <1>1, <2>1 DEF Start, dbVars, txVars
<1>2. ASSUME NEW r \in Runners, NEW stage \in {"failed", "lost"}, Abandon(r, stage)
      PROVE  TypeOK'
  BY <1>2 DEF Abandon, dbVars, loopVars
<1>3. ASSUME NEW r \in Runners,
             CreateTable(r) \/ CreateResumes(r) \/ CommitCreate(r)
      PROVE  TypeOK'
  BY <1>3 DEF CreateTable, CreateResumes, CommitCreate, dbVars, loopVars
<1>4. ASSUME NEW r \in Runners, ReadApplied(r) PROVE TypeOK'
  BY <1>4 DEF ReadApplied, dbVars, txVars
<1>5. ASSUME NEW r \in Runners, pc[r] \in {"loop", "executed", "recorded"}, next[r] <= files[r]
      PROVE  next[r] \in Versions /\ next[r] + 1 \in 1 .. Last + 1
  BY <1>5, RunnerTypes DEF Versions
<1>6. ASSUME NEW r \in Runners, pc[r] \in {"executed", "recorded"}
      PROVE  next[r] \in Versions /\ next[r] + 1 \in 1 .. Last + 1
  BY <1>5, <1>6 DEF RunnerInv, LoopCovers, Running
<1>7. ASSUME NEW r \in Runners, Skip(r) PROVE TypeOK'
  BY <1>5, <1>7 DEF Skip, AtMigration, dbVars, txVars
<1>8. ASSUME NEW r \in Runners, Execute(r) PROVE TypeOK'
  BY <1>5, <1>8 DEF Execute, AtMigration, dbVars, loopVars
<1>9. ASSUME NEW r \in Runners, Record(r) PROVE TypeOK'
  BY <1>6, <1>9 DEF Record, dbVars, loopVars
<1>10. ASSUME NEW r \in Runners, ReleaseSavepoint(r) PROVE TypeOK'
  BY <1>6, <1>10 DEF ReleaseSavepoint, dbVars, txVars
<1>11. ASSUME NEW r \in Runners, CommitOf(r)
       PROVE  /\ applied' \subseteq Versions
              /\ schema' \in [Versions -> Nat]
              /\ ddl' \in [Runners -> SUBSET Versions]
              /\ rows' \in [Runners -> SUBSET Versions]
  BY <1>11 DEF CommitOf
<1>12. ASSUME NEW r \in Runners, CommitMigration(r) PROVE TypeOK'
  <2>1. CommitOf(r) /\ pc[r] = "recorded"
    BY <1>12 DEF CommitMigration
  <2> QED BY <1>6, <1>11, <1>12, <2>1 DEF CommitMigration
<1>13. ASSUME NEW r \in Runners, Finish(r) PROVE TypeOK'
  <2>1. CommitOf(r)
    BY <1>13 DEF Finish
  <2> QED BY <1>11, <1>13, <2>1 DEF Finish, loopVars
<1>14. CASE UNCHANGED vars
  BY <1>14 DEF vars, dbVars, loopVars, txVars
<1> QED
  BY <1>1, <1>2, <1>3, <1>4, <1>7, <1>8, <1>9, <1>10, <1>12, <1>13, <1>14
     DEF Next, Step, Crash, CreateFails, ExecuteFails

\* Every step keeps the invariant, and extends the prefix in effect or leaves it.
LEMMA InvStep ==
  ASSUME IInv, [Next]_vars
  PROVE  /\ SafetyInv' /\ \A s \in Runners : RunnerInv(s)'
         /\ [Log!Extend]_applied
<1> DEFINE Goal == /\ SafetyInv' /\ \A s \in Runners : RunnerInv(s)'
                   /\ [Log!Extend]_applied
<1>1. ASSUME NEW r \in Runners, Start(r) PROVE Goal
  BY <1>1, StartStep DEF Start, dbVars
<1>2. ASSUME NEW r \in Runners, NEW stage \in {"failed", "lost"}, Abandon(r, stage)
      PROVE  Goal
  BY <1>2, AbandonStep DEF Abandon, dbVars
<1>3. ASSUME NEW r \in Runners,
             CreateTable(r) \/ CreateResumes(r) \/ CommitCreate(r)
      PROVE  Goal
  <2>1. Quiet(r)
    BY <1>3 DEF Quiet, CreateTable, CreateResumes, CommitCreate, Goto, dbVars, loopVars, IInv, TypeOK
  <2> QED BY <2>1, QuietStep DEF Quiet
<1>4. ASSUME NEW r \in Runners, ReadApplied(r) PROVE Goal
  BY <1>4, ReadStep DEF ReadApplied, dbVars
<1>5. ASSUME NEW r \in Runners, Skip(r) PROVE Goal
  BY <1>5, SkipStep DEF Skip, dbVars
<1>6. ASSUME NEW r \in Runners, Execute(r) PROVE Goal
  BY <1>6, ExecuteStep DEF Execute, dbVars
<1>7. ASSUME NEW r \in Runners, Record(r) PROVE Goal
  BY <1>7, RecordStep DEF Record, dbVars
<1>8. ASSUME NEW r \in Runners, ReleaseSavepoint(r) PROVE Goal
  BY <1>8, ReleaseStep DEF ReleaseSavepoint, dbVars
<1>9. ASSUME NEW r \in Runners, CommitMigration(r) PROVE Goal
  BY <1>9, CommitMigrationStep
<1>10. ASSUME NEW r \in Runners, Finish(r) PROVE Goal
  BY <1>10, FinishStep
<1>11. CASE UNCHANGED vars
  BY <1>11 DEF IInv, vars, dbVars, loopVars, txVars, SafetyInv, RecordMatchesSchema,
     AppliedInOrder, OneMigrator, ExitMeansMigrated, TsReportsAreDurable, RunnerInv, TxShape,
     TxExtends, LoopCovers, KnownIsApplied, StartsAtFirst, Running
<1> QED
  BY <1>1, <1>2, <1>3, <1>4, <1>5, <1>6, <1>7, <1>8, <1>9, <1>10, <1>11
     DEF Next, Step, Crash, CreateFails, ExecuteFails

\* The inductive invariant holds in every reachable state.
THEOREM Invariance == Spec => []IInv
<1>1. IInv /\ [Next]_vars => IInv'
  BY TypeStep, InvStep DEF IInv
<1> QED BY InitIInv, <1>1, PTL DEF Spec

\* Every variable keeps its type.
THEOREM TypeCorrect == Spec => []TypeOK
<1>1. IInv => TypeOK
  BY DEF IInv
<1> QED BY Invariance, <1>1, PTL

\* migrate.py:21-42 and migrate.ts:19-50: whoever runs, and however it ends, each
\* recorded version's statements have run once and the record has no gap.
THEOREM SchemaCorrect == Spec => [](RecordMatchesSchema /\ AppliedInOrder)
<1>1. IInv => RecordMatchesSchema /\ AppliedInOrder
  BY DEF IInv, SafetyInv
<1> QED BY Invariance, <1>1, PTL

\* Row and object locks alone keep all but one runner out of the loop's body.
THEOREM MutualExclusion == Spec => []OneMigrator
<1>1. IInv => OneMigrator
  BY DEF IInv, SafetyInv
<1> QED BY Invariance, <1>1, PTL

\* A release step that exits 0 leaves every migration of its directory applied.
THEOREM ReleaseCorrect == Spec => []ExitMeansMigrated
<1>1. IInv => ExitMeansMigrated
  BY DEF IInv, SafetyInv
<1> QED BY Invariance, <1>1, PTL

\* What migrate.ts reports stays applied, whatever fails after it.
THEOREM TsDurability == Spec => []TsReportsAreDurable
<1>1. IInv => TsReportsAreDurable
  BY DEF IInv, SafetyInv
<1> QED BY Invariance, <1>1, PTL

\* The runners together implement the log: a step extends the prefix or stutters.
THEOREM Implementation == Spec => ImplementsLog
<1>1. Init => Log!LogInit
  BY DEF Init, Log!LogInit
<1>2. IInv /\ [Next]_vars => [Log!Extend]_applied
  BY InvStep
<1> QED BY Invariance, <1>1, <1>2, PTL DEF Spec, ImplementsLog, Log!LogSpec
=============================================================================
