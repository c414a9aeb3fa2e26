------------------------- MODULE VisitCounterProofs -------------------------
(***************************************************************************)
(* Proofs about VisitCounter, for any number of threads, of increments and *)
(* of crashes.                                                             *)
(*                                                                         *)
(* That three of the strategies lose nothing follows from what a           *)
(* transaction knows when it commits: whoever has the row lock and a value *)
(* has the committed count, or that count plus one.  The strategies differ *)
(* in why: one holds the lock while it knows the count (LockInv), one can  *)
(* tell that its count is old (ReadInv), one never has the count at all.   *)
(*                                                                         *)
(* That retries are bounded follows from a count of the transactions that  *)
(* will be refused: with the refusals so far they never exceed one for     *)
(* each other thread and commit (StaleInv).                                *)
(***************************************************************************)
EXTENDS VisitCounter, FiniteSetTheorems, TLAPS

Reads(t) == tx[t].at = "read"

Wrote(t) == tx[t].at = "wrote"

WorkInv == \A t \in Threads : tx[t] # Idle => left[t] > 0

LockInv ==
  \A t \in Threads :
    lock = t <=> Wrote(t) \/ (strategy = "select_for_update" /\ Reads(t))

ReadInv ==
  \A t \in Threads :
    Reads(t) =>
      /\ strategy # "one_statement"
      /\ strategy = "select_for_update" => tx[t].value = count
      /\ strategy = "repeatable_read" /\ ~tx[t].stale => tx[t].value = count

WriteInv ==
  \A t \in Threads : LosesNothing /\ Wrote(t) => tx[t].value = count + 1

IInv == TypeOK /\ WorkInv /\ LockInv /\ ReadInv /\ WriteInv

\* The shapes of a transaction.
LEMMA TxShape ==
  ASSUME NEW s \in TxStates
  PROVE  /\ s.at \in {"idle", "read", "wrote"}
         /\ s.at = "idle" <=> s = Idle
         /\ s.at = "read" => s.value \in Nat /\ s.stale \in BOOLEAN
         /\ s.at = "wrote" => s.value \in Nat
         /\ Outdated(s) \in TxStates
         /\ Outdated(s).at = s.at
         /\ s.at # "read" => Outdated(s) = s
         /\ s.at = "read" => Outdated(s).stale /\ Outdated(s).value = s.value
<1>1. CASE s = Idle
  BY <1>1 DEF Idle, TxStates, Outdated
<1>2. CASE s \in [at : {"read"}, value : Nat, stale : BOOLEAN]
  <2>1. s.at = "read" /\ s.value \in Nat /\ s.stale \in BOOLEAN
    BY <1>2
  <2>2. s # Idle
    BY <2>1 DEF Idle
  <2>3. Outdated(s) = [s EXCEPT !.stale = TRUE]
    BY <2>1 DEF Outdated
  <2>4. /\ Outdated(s) \in [at : {"read"}, value : Nat, stale : BOOLEAN]
        /\ Outdated(s).at = "read" /\ Outdated(s).stale
        /\ Outdated(s).value = s.value
    BY <1>2, <2>3
  <2> QED BY <2>1, <2>2, <2>4 DEF TxStates
<1>3. CASE s \in [at : {"wrote"}, value : Nat]
  BY <1>3 DEF Idle, TxStates, Outdated
<1> QED BY <1>1, <1>2, <1>3 DEF TxStates

LEMMA NewTx ==
  ASSUME NEW n \in Nat
  PROVE  /\ Idle \in TxStates
         /\ HasRead(n) \in TxStates
         /\ HasWritten(n) \in TxStates
         /\ HasRead(n).at = "read" /\ HasRead(n).value = n /\ ~HasRead(n).stale
         /\ HasWritten(n).at = "wrote" /\ HasWritten(n).value = n
         /\ Idle.at = "idle" /\ HasRead(n) # Idle /\ HasWritten(n) # Idle
  BY DEF TxStates, HasRead, HasWritten, Idle

LEMMA InitIInv == Init => IInv
<1> SUFFICES ASSUME Init PROVE IInv
  OBVIOUS
<1> USE VisitCounterAssumption DEF Init
<1>1. TypeOK
  BY DEF TypeOK, TxStates
<1>2. \A t \in Threads : tx[t] = Idle /\ ~Reads(t) /\ ~Wrote(t)
  BY DEF Idle, Reads, Wrote
<1> QED BY <1>1, <1>2 DEF IInv, WorkInv, LockInv, ReadInv, WriteInv

-----------------------------------------------------------------------------

\* A transaction that reads the count, with the row lock or without it.
LEMMA ReadingStep ==
  ASSUME IInv, NEW t \in Threads, SelectCount(t) \/ SelectForUpdate(t)
  PROVE  IInv'
<1> USE VisitCounterAssumption
<1>1. count \in Nat /\ tx[t] = Idle /\ left[t] > 0 /\ tx' = [tx EXCEPT ![t] = HasRead(count)]
  BY DEF IInv, TypeOK, SelectCount, SelectForUpdate, Starts
<1>2. UNCHANGED <<strategy, count, commits, left, retries, crashes>>
  BY DEF SelectCount, SelectForUpdate, databaseVars
<1>3. /\ tx'[t].at = "read" /\ tx'[t].value = count /\ ~tx'[t].stale /\ tx'[t] \in TxStates
      /\ tx[t].at = "idle"
  BY <1>1, NewTx DEF IInv, TypeOK
<1>4. \A u \in Threads : u # t => tx'[u] = tx[u]
  BY <1>1 DEF IInv, TypeOK
<1>5. lock' \in {lock, t} /\ (lock' = t <=> strategy = "select_for_update")
  BY <1>3 DEF IInv, LockInv, SelectCount, SelectForUpdate, databaseVars, Reads, Wrote
<1>6. TypeOK'
  BY <1>1, <1>2, <1>3, <1>5 DEF IInv, TypeOK
<1>7. WorkInv'
  BY <1>1, <1>2, <1>4 DEF IInv, WorkInv
<1>8. LockInv'
  <2>1. ASSUME NEW u \in Threads, u # t PROVE lock' = u <=> lock = u
    BY <2>1, <1>5 DEF SelectCount, SelectForUpdate, databaseVars
  <2> QED BY <2>1, <1>2, <1>3, <1>4, <1>5 DEF IInv, LockInv, Reads, Wrote
<1>9. strategy # "one_statement"
  BY DEF SelectCount, SelectForUpdate
<1>10. ReadInv'
  BY <1>2, <1>3, <1>4, <1>9 DEF IInv, ReadInv, Reads
<1>11. WriteInv'
  BY <1>2, <1>3, <1>4 DEF IInv, WriteInv, Wrote, LosesNothing
<1> QED BY <1>6, <1>7, <1>8, <1>10, <1>11 DEF IInv

\* A transaction that writes the count, from what it read or in place.
LEMMA WritingStep ==
  ASSUME IInv, NEW t \in Threads, WriteBack(t) \/ UpdateInPlace(t)
  PROVE  IInv'
<1> USE VisitCounterAssumption
<1>1. PICK n \in Nat :
        /\ tx' = [tx EXCEPT ![t] = HasWritten(n)]
        /\ LosesNothing => n = count + 1
  <2>1. CASE WriteBack(t)
    <3>1. tx[t].value \in Nat
      BY <2>1, TxShape DEF IInv, TypeOK, WriteBack
    <3>2. LosesNothing => tx[t].value = count
      BY <2>1 DEF IInv, TypeOK, ReadInv, Reads, WriteBack, LosesNothing, Strategies
    <3>3. /\ tx[t].value + 1 \in Nat
          /\ tx' = [tx EXCEPT ![t] = HasWritten(tx[t].value + 1)]
          /\ LosesNothing => tx[t].value + 1 = count + 1
      BY <2>1, <3>1, <3>2 DEF WriteBack
    <3> QED BY <3>3
  <2>2. CASE UpdateInPlace(t)
    <3>1. count + 1 \in Nat /\ tx' = [tx EXCEPT ![t] = HasWritten(count + 1)]
      BY <2>2 DEF UpdateInPlace, IInv, TypeOK
    <3> QED BY <3>1
  <2> QED BY <2>1, <2>2
<1>2. UNCHANGED <<strategy, count, commits, left, retries, crashes>> /\ lock' = t
  BY DEF WriteBack, UpdateInPlace
<1>3. tx'[t].at = "wrote" /\ tx'[t].value = n /\ tx'[t] \in TxStates
  BY <1>1, NewTx DEF IInv, TypeOK
<1>4. \A u \in Threads : u # t => tx'[u] = tx[u]
  BY <1>1 DEF IInv, TypeOK
<1>5. left[t] > 0
  BY TxShape, NewTx DEF IInv, TypeOK, WorkInv, WriteBack, UpdateInPlace, Starts
<1>6. \A u \in Threads : u # t => lock # u
  BY DEF WriteBack, UpdateInPlace
<1>7. TypeOK'
  BY <1>1, <1>2, <1>3 DEF IInv, TypeOK
<1>8. WorkInv'
  BY <1>2, <1>4, <1>5 DEF IInv, WorkInv
<1>9. LockInv'
  BY <1>2, <1>3, <1>4, <1>6 DEF IInv, LockInv, Reads, Wrote
<1>10. ReadInv'
  BY <1>2, <1>3, <1>4 DEF IInv, ReadInv, Reads
<1>11. WriteInv'
  BY <1>1, <1>2, <1>3, <1>4 DEF IInv, WriteInv, Wrote, LosesNothing
<1> QED BY <1>7, <1>8, <1>9, <1>10, <1>11 DEF IInv

\* A transaction that ends without a commit, and so without a trace.
LEMMA RollbackStep ==
  ASSUME IInv, NEW t \in Threads, Refused(t) \/ Crash(t)
  PROVE  IInv'
<1> USE VisitCounterAssumption
<1>1. /\ tx' = [tx EXCEPT ![t] = Idle]
      /\ UNCHANGED <<strategy, count, commits>>
  BY DEF Refused, Crash, databaseVars
<1>2. tx'[t] = Idle /\ tx'[t].at = "idle" /\ Idle \in TxStates
  BY <1>1, NewTx DEF IInv, TypeOK, Idle, TxStates
<1>3. \A u \in Threads : u # t => tx'[u] = tx[u] /\ left'[u] = left[u]
  BY <1>1 DEF IInv, TypeOK, Refused, Crash
<1>4. lock' # t /\ \A u \in Threads : u # t => (lock' = u <=> lock = u)
  <2>1. CASE Refused(t)
    BY <2>1 DEF Refused, databaseVars, IInv, LockInv, Wrote
  <2>2. CASE Crash(t)
    BY <2>2 DEF Crash
  <2> QED BY <2>1, <2>2
<1>5. TypeOK'
  BY <1>1, <1>2 DEF IInv, TypeOK, Refused, Crash, databaseVars
<1>6. WorkInv'
  BY <1>2, <1>3 DEF IInv, WorkInv
<1>7. LockInv'
  BY <1>1, <1>2, <1>3, <1>4 DEF IInv, LockInv, Reads, Wrote
<1>8. ReadInv' /\ WriteInv'
  BY <1>1, <1>2, <1>3 DEF IInv, ReadInv, WriteInv, Reads, Wrote, LosesNothing
<1> QED BY <1>5, <1>6, <1>7, <1>8 DEF IInv

\* A commit: nobody else holds the lock, so nobody else has a count to lose,
\* except at REPEATABLE READ, where all who have one are now stale.
LEMMA CommitStep ==
  ASSUME IInv, NEW t \in Threads, Commit(t)
  PROVE  IInv'
<1> USE VisitCounterAssumption
<1>1. lock = t /\ left[t] > 0 /\ tx[t].value \in Nat
  BY TxShape, NewTx DEF IInv, TypeOK, LockInv, WorkInv, Wrote, Commit
<1>2. \A u \in Threads : u # t =>
        ~Wrote(u) /\ ~(strategy = "select_for_update" /\ Reads(u))
  BY <1>1 DEF IInv, LockInv
<1>3. tx'[t] = Idle /\ tx'[t].at = "idle"
  BY DEF Commit, Idle
<1>4. \A u \in Threads : u # t => tx'[u] = Outdated(tx[u]) /\ left'[u] = left[u]
  BY DEF Commit, IInv, TypeOK
<1>5. TypeOK'
  <2>1. tx' \in [Threads -> TxStates]
    BY TxShape DEF Commit, IInv, TypeOK, TxStates
  <2>2. left' \in [Threads -> 0 .. BUMPS]
    BY <1>1 DEF Commit, IInv, TypeOK
  <2> QED BY <1>1, <2>1, <2>2 DEF Commit, IInv, TypeOK
<1>6. WorkInv'
  BY <1>3, <1>4, TxShape DEF IInv, TypeOK, WorkInv
<1>7. \A u \in Threads : u # t =>
        /\ tx'[u].at = tx[u].at
        /\ Reads(u) => tx'[u].stale
  BY <1>4, TxShape DEF IInv, TypeOK, Reads
<1>8. lock' = Free /\ strategy' = strategy
  BY DEF Commit
<1>9. LockInv'
  BY <1>2, <1>3, <1>7, <1>8 DEF LockInv, Reads, Wrote
<1>10. ReadInv'
  BY <1>2, <1>3, <1>7, <1>8 DEF IInv, ReadInv, Reads
<1>11. WriteInv'
  BY <1>2, <1>3, <1>7 DEF WriteInv, Wrote
<1> QED BY <1>5, <1>6, <1>9, <1>10, <1>11 DEF IInv

LEMMA StepIInv == IInv /\ [Next]_vars => IInv'
<1> SUFFICES ASSUME IInv, [Next]_vars PROVE IInv'
  OBVIOUS
<1>1. ASSUME NEW t \in Threads, Work(t) PROVE IInv'
  BY <1>1, ReadingStep, WritingStep, RollbackStep, CommitStep DEF Work
<1>2. ASSUME NEW t \in Threads, Crash(t) PROVE IInv'
  BY <1>2, RollbackStep
<1>3. CASE UNCHANGED vars
  BY <1>3 DEF vars, databaseVars, IInv, TypeOK, WorkInv, LockInv, ReadInv, WriteInv,
     Reads, Wrote, LosesNothing
<1> QED BY <1>1, <1>2, <1>3 DEF Next

\* The state of the counters, the lock and every transaction keeps its types.
THEOREM TypeCorrect == Spec => []TypeOK
<1>1. IInv => TypeOK
  BY DEF IInv
<1> QED BY InitIInv, StepIInv, <1>1, PTL DEF Spec

-----------------------------------------------------------------------------

LEMMA StepCounts ==
  IInv /\ [Next]_vars => (LosesNothing => C!CNext \/ UNCHANGED C!counterVars)
<1> SUFFICES ASSUME IInv, [Next]_vars, LosesNothing
             PROVE  C!CNext \/ UNCHANGED C!counterVars
  OBVIOUS
<1>1. ASSUME NEW t \in Threads, Commit(t) PROVE C!Add(t)
  <2>1. count' = count + 1
    BY <1>1 DEF Commit, IInv, WriteInv, Wrote
  <2>2. left[t] > 0
    BY <1>1, TxShape, NewTx DEF Commit, IInv, TypeOK, WorkInv
  <2> QED BY <1>1, <2>1, <2>2 DEF Commit, C!Add
<1>2. ASSUME NEW t \in Threads, Crash(t) PROVE C!Quit(t)
  BY <1>2 DEF Crash, C!Quit
<1>3. ASSUME NEW t \in Threads, Work(t), ~Commit(t) PROVE UNCHANGED C!counterVars
  BY <1>3 DEF Work, SelectCount, SelectForUpdate, WriteBack, UpdateInPlace, Refused,
     databaseVars, C!counterVars
<1>4. CASE UNCHANGED vars
  BY <1>4 DEF vars, databaseVars, C!counterVars
<1> QED BY <1>1, <1>2, <1>3, <1>4 DEF Next, C!CNext

\* SELECT FOR UPDATE, the single statement and the retry loop count every visit:
\* each step that is seen from outside adds one for one increment done.
THEOREM Implementation == Spec => ImplementsCounter
<1>1. Init => C!CInit
  BY DEF Init, C!CInit
<1> QED BY InitIInv, StepIInv, StepCounts, <1>1, PTL DEF Spec, ImplementsCounter

-----------------------------------------------------------------------------

Stale == {t \in Threads : Reads(t) /\ tx[t].stale}

StaleInv ==
  /\ Threads # {} => retries + Cardinality(Stale) <= (Cardinality(Threads) - 1) * commits
  /\ Threads = {} => retries = 0 /\ commits = 0

LEMMA StaleFinite ==
  ASSUME NEW S \in SUBSET Threads
  PROVE  /\ IsFiniteSet(S) /\ Cardinality(S) \in Nat
         /\ Cardinality(S) <= Cardinality(Threads)
  BY VisitCounterAssumption, FS_Subset, FS_CardinalityType

LEMMA InitStale == Init => StaleInv
<1> SUFFICES ASSUME Init PROVE StaleInv
  OBVIOUS
<1>1. Stale = {}
  BY DEF Init, Idle, Stale, Reads
<1>2. Cardinality(Stale) = 0 /\ Cardinality(Threads) \in Nat
  BY <1>1, StaleFinite, FS_EmptySet
<1> QED BY <1>2 DEF Init, StaleInv

\* A step that commits nothing makes no new stale transaction, and a refusal
\* ends one.
LEMMA StaleShrinks ==
  ASSUME IInv, [Next]_vars, \A t \in Threads : ~Commit(t)
  PROVE  /\ commits' = commits
         /\ \/ Stale' \subseteq Stale /\ retries' = retries
            \/ \E t \in Stale : Stale' = Stale \ {t} /\ retries' = retries + 1
<1>1. ASSUME NEW t \in Threads, SelectCount(t) \/ SelectForUpdate(t)
      PROVE  Stale' \subseteq Stale /\ retries' = retries /\ commits' = commits
  <2>1. tx' = [tx EXCEPT ![t] = HasRead(count)] /\ count \in Nat
    BY <1>1 DEF SelectCount, SelectForUpdate, IInv, TypeOK
  <2>2. \A u \in Threads : u # t => tx'[u] = tx[u]
    BY <2>1 DEF IInv, TypeOK
  <2>3. ~tx'[t].stale
    BY <2>1, NewTx DEF IInv, TypeOK
  <2> QED BY <1>1, <2>2, <2>3 DEF Stale, Reads, SelectCount, SelectForUpdate, databaseVars
<1>2. ASSUME NEW t \in Threads, WriteBack(t) \/ UpdateInPlace(t) \/ Crash(t)
      PROVE  Stale' \subseteq Stale /\ retries' = retries /\ commits' = commits
  <2>1. \A u \in Threads : u # t => tx'[u] = tx[u]
    BY <1>2 DEF WriteBack, UpdateInPlace, Crash, IInv, TypeOK
  <2>2. tx'[t].at \in {"wrote", "idle"}
    BY <1>2 DEF WriteBack, UpdateInPlace, Crash, IInv, TypeOK, HasWritten, Idle
  <2> QED BY <1>2, <2>1, <2>2 DEF Stale, Reads, WriteBack, UpdateInPlace, Crash
<1>3. ASSUME NEW t \in Threads, Refused(t)
      PROVE  /\ t \in Stale /\ Stale' = Stale \ {t}
             /\ retries' = retries + 1 /\ commits' = commits
  <2>1. \A u \in Threads : u # t => tx'[u] = tx[u]
    BY <1>3 DEF Refused, IInv, TypeOK
  <2>2. tx'[t].at = "idle"
    BY <1>3 DEF Refused, IInv, TypeOK, Idle
  <2>3. t \in Stale /\ t \notin Stale'
    BY <1>3, <2>2 DEF Refused, Stale, Reads
  <2>4. \A u \in Threads : u # t => (u \in Stale' <=> u \in Stale)
    BY <2>1 DEF Stale, Reads
  <2>5. Stale' \subseteq Threads /\ Stale \subseteq Threads
    BY DEF Stale
  <2> QED BY <1>3, <2>3, <2>4, <2>5 DEF Refused, databaseVars
<1>4. ASSUME UNCHANGED vars
      PROVE  Stale' \subseteq Stale /\ retries' = retries /\ commits' = commits
  BY <1>4 DEF vars, databaseVars, Stale, Reads
<1> QED BY <1>1, <1>2, <1>3, <1>4 DEF Next, Work

LEMMA StepStale == IInv /\ StaleInv /\ [Next]_vars => StaleInv'
<1> SUFFICES ASSUME IInv, StaleInv, [Next]_vars PROVE StaleInv'
  OBVIOUS
<1> DEFINE others == Cardinality(Threads) - 1
<1>1. CASE Threads = {}
  <2>1. UNCHANGED vars
    BY <1>1 DEF Next
  <2> QED BY <1>1, <2>1 DEF vars, databaseVars, StaleInv
<1>2. CASE Threads # {}
  <2>1. Stale \subseteq Threads /\ Stale' \subseteq Threads
    BY DEF Stale
  <2>2. /\ IsFiniteSet(Stale) /\ Cardinality(Stale) \in Nat
        /\ Cardinality(Stale') \in Nat
        /\ Cardinality(Threads) \in Nat /\ retries \in Nat /\ commits \in Nat
    BY <2>1, StaleFinite DEF IInv, TypeOK
  <2>3. others \in Nat
    BY <1>2, <2>2, VisitCounterAssumption, FS_EmptySet
  <2>4. retries + Cardinality(Stale) <= others * commits
    BY <1>2 DEF StaleInv
  <2>5. others * commits \in Nat /\ others * (commits + 1) = others * commits + others
    BY <2>2, <2>3
  <2>6. CASE \E t \in Threads : Commit(t)
    <3>1. PICK t \in Threads : Commit(t)
      BY <2>6
    <3>2. t \notin Stale'
      BY <3>1 DEF Commit, Stale, Reads, Idle
    <3>3. Stale' \subseteq Threads \ {t}
      BY <2>1, <3>2
    <3>4. Cardinality(Threads \ {t}) = others /\ IsFiniteSet(Threads \ {t})
      BY <3>1, VisitCounterAssumption, FS_RemoveElement
    <3>5. Cardinality(Stale') <= others
      BY <3>3, <3>4, FS_Subset
    <3>6. retries' = retries /\ commits' = commits + 1
      BY <3>1 DEF Commit
    <3>7. others * commits' = others * commits + others
      BY <2>5, <3>6
    <3>8. retries' + Cardinality(Stale') <= others * commits'
      BY <2>2, <2>3, <2>4, <2>5, <3>5, <3>6, <3>7
    <3> QED BY <1>2, <3>8 DEF StaleInv
  <2>7. CASE \A t \in Threads : ~Commit(t)
    <3>1. retries' + Cardinality(Stale') <= retries + Cardinality(Stale)
      <4>1. CASE Stale' \subseteq Stale /\ retries' = retries
        BY <2>2, <4>1, FS_Subset
      <4>2. CASE \E t \in Stale : Stale' = Stale \ {t} /\ retries' = retries + 1
        <5>1. PICK t \in Stale : Stale' = Stale \ {t} /\ retries' = retries + 1
          BY <4>2
        <5>2. Cardinality(Stale \ {t}) = Cardinality(Stale) - 1
          BY <2>2, FS_RemoveElement
        <5>3. Cardinality(Stale') = Cardinality(Stale) - 1
          BY <5>1, <5>2
        <5> QED BY <2>2, <5>1, <5>3
      <4> QED BY <2>7, <4>1, <4>2, StaleShrinks
    <3>2. commits' = commits
      BY <2>7, StaleShrinks
    <3>3. retries' \in Nat
      BY StepIInv DEF IInv, TypeOK
    <3>4. retries' + Cardinality(Stale') <= others * commits
      BY <2>2, <2>4, <2>5, <3>1, <3>3
    <3>5. retries' + Cardinality(Stale') <= others * commits'
      BY <3>2, <3>4
    <3> QED BY <1>2, <3>5 DEF StaleInv
  <2> QED BY <2>6, <2>7
<1> QED BY <1>1, <1>2

LEMMA EarnedFromStale == IInv /\ StaleInv => RetriesAreEarned
<1> SUFFICES ASSUME IInv, StaleInv PROVE RetriesAreEarned
  OBVIOUS
<1>1. CASE Threads = {}
  <2>1. Cardinality(Threads) = 0
    BY <1>1, FS_EmptySet
  <2> QED BY <1>1, <2>1 DEF StaleInv, RetriesAreEarned
<1>2. CASE Threads # {}
  <2>1. Cardinality(Stale) \in Nat /\ Cardinality(Threads) \in Nat
    BY StaleFinite DEF Stale
  <2>2. retries \in Nat /\ commits \in Nat
    BY DEF IInv, TypeOK
  <2>3. (Cardinality(Threads) - 1) * commits \in Int
    BY <2>1, <2>2
  <2> QED BY <1>2, <2>1, <2>2, <2>3 DEF StaleInv, RetriesAreEarned
<1> QED BY <1>1, <1>2

\* The retry loop of repeatable_read has no limit and needs none: whatever the
\* threads do, the refusals are at most one for each other thread and commit.
THEOREM RetriesBounded == Spec => []RetriesAreEarned
  BY InitIInv, StepIInv, InitStale, StepStale, EarnedFromStale, PTL DEF Spec
=============================================================================
