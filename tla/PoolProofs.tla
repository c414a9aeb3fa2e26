----------------------------- MODULE PoolProofs -----------------------------
(***************************************************************************)
(* The two connection pools, for any number of requests and connections:   *)
(* no connection is lost or has two users, nobody is passed over, and a    *)
(* request told to try again has committed nothing.  Each is dealt with    *)
(* alone, and at the end an instance of the API, which runs one of them.   *)
(***************************************************************************)
EXTENDS Pools, FiniteSetTheorems, SequenceTheorems, TLAPS

-----------------------------------------------------------------------------
(* Queues, and counting who has a connection *)

\* The first of a queue and the rest of it.
LEMMA RestOfQueue ==
  ASSUME NEW S, NEW q \in Seq(S), q # <<>>
  PROVE  /\ Len(q) \in Nat /\ Len(q) >= 1
         /\ Head(q) = q[1] /\ Head(q) \in S
         /\ Tail(q) \in Seq(S)
         /\ Len(Tail(q)) = Len(q) - 1
         /\ \A i \in 1 .. Len(q) - 1 : Tail(q)[i] = q[i + 1]
<1>1. Len(q) \in Nat /\ (Len(q) = 0 => q = <<>>) /\ Head(q) = q[1]
  OBVIOUS
<1>2. Len(q) >= 1
  BY <1>1
<1> QED BY <1>1, <1>2, HeadTailProperties

\* A queue from which one has left.
LEMMA QueueWithout ==
  ASSUME NEW S, NEW q \in Seq(S), NEW i \in 1 .. Len(q)
  PROVE  /\ RemoveAt(q, i) \in Seq(S)
         /\ Len(RemoveAt(q, i)) = Len(q) - 1
         /\ \A j \in 1 .. Len(q) - 1 :
              RemoveAt(q, i)[j] = IF j < i THEN q[j] ELSE q[j + 1]
<1> DEFINE front == SubSeq(q, 1, i - 1)
           back == SubSeq(q, i + 1, Len(q))
<1>1. Len(q) \in Nat /\ \A j \in 1 .. Len(q) : q[j] \in S
  BY LenProperties
<1>2. /\ front \in Seq(S) /\ Len(front) = i - 1
      /\ \A j \in 1 .. i - 1 : front[j] = q[j]
  <2>1. /\ front \in Seq(S) /\ Len(front) = IF 1 <= i - 1 THEN i - 1 - 1 + 1 ELSE 0
        /\ \A j \in 1 .. i - 1 - 1 + 1 : front[j] = q[1 + j - 1]
    BY <1>1, SubSeqProperties
  <2> HIDE DEF front
  <2> QED BY <2>1
<1>3. /\ back \in Seq(S) /\ Len(back) = Len(q) - i
      /\ \A j \in 1 .. Len(q) - i : back[j] = q[i + j]
  <2>1. /\ back \in Seq(S)
        /\ Len(back) = IF i + 1 <= Len(q) THEN Len(q) - (i + 1) + 1 ELSE 0
        /\ \A j \in 1 .. Len(q) - (i + 1) + 1 : back[j] = q[i + 1 + j - 1]
    BY <1>1, SubSeqProperties
  <2> HIDE DEF back
  <2> QED BY <1>1, <2>1
<1> HIDE DEF front, back
<1>4. /\ front \o back \in Seq(S)
      /\ Len(front \o back) = Len(front) + Len(back)
      /\ \A j \in 1 .. Len(front) + Len(back) :
           (front \o back)[j] = IF j <= Len(front) THEN front[j] ELSE back[j - Len(front)]
  BY <1>2, <1>3, ConcatProperties
<1>5. RemoveAt(q, i) = front \o back
  BY DEF RemoveAt, front, back
<1>6. ASSUME NEW j \in 1 .. Len(q) - 1
      PROVE  (front \o back)[j] = IF j < i THEN q[j] ELSE q[j + 1]
  <2>1. CASE j < i
    BY <1>1, <1>2, <1>3, <1>4, <2>1
  <2>2. CASE ~(j < i)
    <3>1. j - (i - 1) \in 1 .. Len(q) - i /\ i + (j - (i - 1)) = j + 1
      BY <1>1, <2>2
    <3>2. (front \o back)[j] = back[j - (i - 1)]
      BY <1>1, <1>2, <1>3, <1>4, <2>2
    <3>3. back[j - (i - 1)] = q[i + (j - (i - 1))]
      BY <1>3, <3>1
    <3> QED BY <2>2, <3>1, <3>2, <3>3
  <2> QED BY <2>1, <2>2
<1>7. Len(front \o back) = Len(q) - 1
  BY <1>1, <1>2, <1>3, <1>4
<1> QED BY <1>4, <1>5, <1>6, <1>7

\* Of finitely many, one more, one fewer, and one for another.
LEMMA Counting ==
  ASSUME NEW S, IsFiniteSet(S), NEW T \in SUBSET S
  PROVE  /\ Cardinality(T) \in Nat
         /\ \A x \in S \ T : Cardinality(T \cup {x}) = Cardinality(T) + 1
         /\ \A x \in T : Cardinality(T \ {x}) = Cardinality(T) - 1
         /\ \A x \in T, y \in S \ T : Cardinality((T \ {x}) \cup {y}) = Cardinality(T)
<1>1. IsFiniteSet(T) /\ Cardinality(T) \in Nat
  BY FS_Subset, FS_CardinalityType
<1>2. ASSUME NEW x \in S \ T PROVE Cardinality(T \cup {x}) = Cardinality(T) + 1
  BY <1>1, FS_AddElement
<1>3. ASSUME NEW x \in T
      PROVE  IsFiniteSet(T \ {x}) /\ Cardinality(T \ {x}) = Cardinality(T) - 1
  BY <1>1, FS_RemoveElement
<1>4. ASSUME NEW x \in T, NEW y \in S \ T
      PROVE  Cardinality((T \ {x}) \cup {y}) = Cardinality(T)
  <2>1. y \notin T \ {x}
    OBVIOUS
  <2>2. Cardinality((T \ {x}) \cup {y}) = Cardinality(T \ {x}) + 1
    BY <1>3, <2>1, FS_AddElement
  <2>3. Cardinality(T \ {x}) = Cardinality(T) - 1
    BY <1>3
  <2> QED BY <1>1, <2>2, <2>3
<1> QED BY <1>1, <1>2, <1>3, <1>4

-----------------------------------------------------------------------------
(* The Python pool *)

\* Nobody waits beside an idle connection, and the queue is exactly those who wait.
NoIdleWhileWaiting ==
  /\ queue # <<>> => free = 0
  /\ \A p \in Requests : at[p] = "waiting" <=> p \in ToSet(queue)
  /\ \A i, j \in 1 .. Len(queue) : queue[i] = queue[j] => i = j

\* A request that is still at work has a block to come, and has committed nothing.
PyAtWork ==
  \A p \in Requests :
    at[p] \in {"ready", "waiting", "holding"} => left[p] >= 1 /\ ~wrote[p]

PyIInv ==
  /\ PyTypeOK
  /\ PyConserved
  /\ NoIdleWhileWaiting
  /\ RefusedCommittedNothing
  /\ PyAtWork

\* A connection that comes back from p is idle when nobody waits, and else with
\* the first who waits, who leaves the queue for it.
LEMMA PyReturnStep ==
  ASSUME PyIInv, NEW p \in Requests, at[p] = "holding",
         NEW x \in {"ready", "answered"}, PyGiveBack([at EXCEPT ![p] = x])
  PROVE  /\ free' \in 0 .. Size /\ queue' \in Seq(Requests)
         /\ at' \in [Requests -> PyStages]
         /\ PyConserved' /\ NoIdleWhileWaiting'
         /\ at'[p] = x
         /\ \A q \in Requests :
              q # p => at'[q] = at[q] \/ (at[q] = "waiting" /\ at'[q] = "holding")
<1> USE PoolAssumption, PoolPyAssumption
<1>1. /\ free \in Nat /\ Size \in Nat
      /\ queue \in Seq(Requests) /\ Len(queue) \in Nat
      /\ at \in [Requests -> PyStages]
      /\ \A i \in 1 .. Len(queue) : queue[i] \in Requests
  BY LenProperties DEF PyIInv, PyTypeOK
<1>2. /\ queue # <<>> => free = 0
      /\ \A q \in Requests : at[q] = "waiting" <=> \E i \in 1 .. Len(queue) : queue[i] = q
      /\ \A i, j \in 1 .. Len(queue) : queue[i] = queue[j] => i = j
  BY <1>1, LenProperties DEF PyIInv, NoIdleWhileWaiting, ToSet
<1>3. /\ Holders \in SUBSET Requests /\ p \in Holders
      /\ Cardinality(Holders) \in Nat
      /\ free + Cardinality(Holders) = Size
      /\ Cardinality(Holders \ {p}) = Cardinality(Holders) - 1
      /\ Cardinality(Holders \ {p}) \in Nat
      /\ \A q \in Requests \ Holders :
           Cardinality((Holders \ {p}) \cup {q}) = Cardinality(Holders)
  <2>1. Holders \in SUBSET Requests /\ p \in Holders
    BY DEF Holders
  <2>2. free + Cardinality(Holders) = Size
    BY DEF PyIInv, PyConserved
  <2>3. IsFiniteSet(Requests)
    BY PoolAssumption
  <2>4. Holders \ {p} \in SUBSET Requests
    BY <2>1
  <2>5. Cardinality(Holders \ {p}) \in Nat
    BY <2>3, <2>4, Counting
  <2> QED BY <2>1, <2>2, <2>3, <2>5, Counting
<1>4. CASE queue = <<>>
  <2>1. free' = free + 1 /\ at' = [at EXCEPT ![p] = x] /\ queue' = queue
    BY <1>4 DEF PyGiveBack
  <2>2. Holders' = Holders \ {p}
    BY <1>1, <2>1 DEF Holders
  <2>3. PyConserved' /\ free' \in 0 .. Size
    <3>1. /\ Cardinality(Holders') = Cardinality(Holders) - 1
          /\ Cardinality(Holders') \in Nat
      BY <1>3, <2>2
    <3>2. PyConserved' <=> free' + Cardinality(Holders') = Size
      BY DEF PyConserved
    <3> QED BY <1>1, <1>3, <2>1, <3>1, <3>2
  <2>4. NoIdleWhileWaiting'
    BY <1>1, <1>2, <1>4, <2>1 DEF NoIdleWhileWaiting, ToSet
  <2> QED BY <1>1, <2>1, <2>3, <2>4 DEF PyStages
<1>5. CASE queue # <<>>
  <2> DEFINE q == Head(queue)
  <2>1. /\ at' = [at EXCEPT ![p] = x, ![q] = "holding"]
        /\ queue' = Tail(queue)
        /\ free' = free
    BY <1>5 DEF PyGiveBack
  <2>2. /\ Len(queue) >= 1
        /\ q = queue[1] /\ q \in Requests
        /\ Tail(queue) \in Seq(Requests)
        /\ Len(Tail(queue)) = Len(queue) - 1
        /\ \A i \in 1 .. Len(queue) - 1 : Tail(queue)[i] = queue[i + 1]
    BY <1>1, <1>5, RestOfQueue
  <2>3. at[q] = "waiting" /\ q # p
    BY <1>1, <1>2, <2>2
  <2> HIDE DEF q
  <2>4. /\ at'[p] = x /\ at'[q] = "holding"
        /\ \A r \in Requests : r \notin {p, q} => at'[r] = at[r]
        /\ at' \in [Requests -> PyStages]
    BY <1>1, <2>1, <2>2, <2>3 DEF PyStages
  <2>5. Holders' = (Holders \ {p}) \cup {q} /\ q \notin Holders
    BY <2>2, <2>3, <2>4 DEF Holders
  <2>6. PyConserved' /\ free' \in 0 .. Size
    <3>1. Cardinality(Holders') = Cardinality(Holders)
      BY <1>3, <2>2, <2>5
    <3>2. PyConserved' <=> free' + Cardinality(Holders') = Size
      BY DEF PyConserved
    <3> QED BY <1>1, <1>3, <2>1, <3>1, <3>2
  <2>7. \A r \in Requests : at'[r] = "waiting" <=> \E i \in 1 .. Len(queue') : queue'[i] = r
    <3> SUFFICES ASSUME NEW r \in Requests
                 PROVE  at'[r] = "waiting" <=> \E i \in 1 .. Len(queue') : queue'[i] = r
      OBVIOUS
    <3>1. at'[r] = "waiting" <=> at[r] = "waiting" /\ r # q
      BY <1>1, <2>3, <2>4
    <3>2. (\E i \in 1 .. Len(queue') : queue'[i] = r) <=> \E i \in 2 .. Len(queue) : queue[i] = r
      <4>1. \A i \in 2 .. Len(queue) : i - 1 \in 1 .. Len(queue) - 1 /\ queue'[i - 1] = queue[i]
        BY <1>1, <2>1, <2>2
      <4>2. \A i \in 1 .. Len(queue') : i + 1 \in 2 .. Len(queue) /\ queue'[i] = queue[i + 1]
        BY <1>1, <2>1, <2>2
      <4>3. Len(queue') = Len(queue) - 1
        BY <2>1, <2>2
      <4> QED BY <4>1, <4>2, <4>3
    <3>3. (\E i \in 2 .. Len(queue) : queue[i] = r) <=> at[r] = "waiting" /\ r # q
      BY <1>1, <1>2, <2>2
    <3> QED BY <3>1, <3>2, <3>3
  <2>8. \A i, j \in 1 .. Len(queue') : queue'[i] = queue'[j] => i = j
    BY <1>1, <1>2, <2>1, <2>2
  <2>9. NoIdleWhileWaiting'
    <3>1. DOMAIN queue' = 1 .. Len(queue')
      BY <2>1, <2>2, LenProperties
    <3>2. \A r \in Requests : at'[r] = "waiting" <=> r \in ToSet(queue')
      BY <2>7, <3>1 DEF ToSet
    <3> QED BY <1>2, <1>5, <2>1, <2>8, <3>2 DEF NoIdleWhileWaiting
  <2> QED BY <2>1, <2>2, <2>3, <2>4, <2>6, <2>9
<1> QED BY <1>4, <1>5

\* Blocks that end, and steps that leave the pool alone, keep what has been
\* promised to the requests that were answered.
LEMMA PyStep == PyIInv /\ [PyNext]_pyVars => PyIInv'
<1> SUFFICES ASSUME PyIInv, [PyNext]_pyVars PROVE PyIInv'
  OBVIOUS
<1>1. /\ Size \in Nat \ {0} /\ MaxCheckouts \in Nat \ {0} /\ IsFiniteSet(Requests)
      /\ free \in 0 .. Size
      /\ queue \in Seq(Requests)
      /\ at \in [Requests -> PyStages]
      /\ left \in [Requests -> 0 .. MaxCheckouts]
      /\ status \in [Requests -> Statuses]
      /\ wrote \in [Requests -> BOOLEAN]
  BY PoolAssumption, PoolPyAssumption DEF PyIInv, PyTypeOK
<1>2. /\ queue # <<>> => free = 0
      /\ \A q \in Requests : at[q] = "waiting" <=> \E i \in 1 .. Len(queue) : queue[i] = q
      /\ \A i, j \in 1 .. Len(queue) : queue[i] = queue[j] => i = j
      /\ Len(queue) \in Nat /\ \A i \in 1 .. Len(queue) : queue[i] \in Requests
  BY <1>1, LenProperties DEF PyIInv, NoIdleWhileWaiting, ToSet
<1>3. /\ Holders \in SUBSET Requests
      /\ Cardinality(Holders) \in Nat
      /\ free + Cardinality(Holders) = Size
  BY <1>1, Counting DEF PyIInv, Holders, PyConserved
<1>4. RefusedCommittedNothing /\ PyAtWork
  BY DEF PyIInv
<1>5. ASSUME NEW p \in Requests, PyArrive(p) PROVE PyIInv'
  <2>1. /\ at[p] = "idle" /\ at' = [at EXCEPT ![p] = "ready"]
        /\ \E n \in 1 .. MaxCheckouts : left' = [left EXCEPT ![p] = n]
        /\ status' = [status EXCEPT ![p] = "none"]
        /\ wrote' = [wrote EXCEPT ![p] = FALSE]
        /\ free' = free /\ queue' = queue
    BY <1>5 DEF PyArrive, poolVars
  <2>2. PyTypeOK'
    BY <1>1, <2>1 DEF PyTypeOK, PyStages, Statuses
  <2>3. Holders' = Holders
    BY <1>1, <2>1 DEF Holders
  <2>4. PyConserved'
    BY <2>1, <2>3 DEF PyIInv, PyConserved
  <2>5. NoIdleWhileWaiting'
    BY <1>1, <2>1 DEF PyIInv, NoIdleWhileWaiting
  <2>6. RefusedCommittedNothing'
    BY <1>1, <1>4, <2>1 DEF RefusedCommittedNothing
  <2>7. PyAtWork'
    BY <1>1, <1>4, <2>1 DEF PyAtWork
  <2> QED BY <2>2, <2>4, <2>5, <2>6, <2>7 DEF PyIInv
<1>6. ASSUME NEW p \in Requests, Checkout(p) PROVE PyIInv'
  <2>1. /\ at[p] = "ready" /\ at' = [at EXCEPT ![p] = "holding"]
        /\ free > 0 /\ free' = free - 1
        /\ UNCHANGED <<queue, left, status, wrote>>
    BY <1>6 DEF Checkout
  <2>2. PyTypeOK'
    BY <1>1, <2>1 DEF PyTypeOK, PyStages
  <2>3. Holders' = Holders \cup {p} /\ p \notin Holders
    BY <1>1, <2>1 DEF Holders
  <2>4. PyConserved'
    <3>1. Cardinality(Holders') = Cardinality(Holders) + 1
      BY <1>1, <1>3, <2>3, Counting
    <3>2. PyConserved' <=> free' + Cardinality(Holders') = Size
      BY DEF PyConserved
    <3> QED BY <1>1, <1>3, <2>1, <3>1, <3>2
  <2>5. NoIdleWhileWaiting'
    BY <1>1, <1>2, <2>1 DEF PyIInv, NoIdleWhileWaiting
  <2>6. RefusedCommittedNothing'
    BY <1>1, <1>4, <2>1 DEF RefusedCommittedNothing
  <2>7. PyAtWork'
    BY <1>1, <1>4, <2>1 DEF PyAtWork
  <2> QED BY <2>2, <2>4, <2>5, <2>6, <2>7 DEF PyIInv
<1>7. ASSUME NEW p \in Requests, PyWait(p) PROVE PyIInv'
  <2>1. /\ at[p] = "ready" /\ at' = [at EXCEPT ![p] = "waiting"]
        /\ free = 0 /\ queue' = Append(queue, p)
        /\ UNCHANGED <<free, left, status, wrote>>
    BY <1>7 DEF PyWait
  <2>2. /\ queue' \in Seq(Requests) /\ DOMAIN queue' = 1 .. Len(queue')
        /\ Len(queue') = Len(queue) + 1
        /\ \A i \in 1 .. Len(queue) : queue'[i] = queue[i]
        /\ queue'[Len(queue) + 1] = p
    BY <1>1, <2>1, AppendProperties, LenProperties
  <2>3. PyTypeOK'
    BY <1>1, <2>1, <2>2 DEF PyTypeOK, PyStages
  <2>4. Holders' = Holders
    BY <1>1, <2>1 DEF Holders
  <2>5. PyConserved'
    BY <2>1, <2>4 DEF PyIInv, PyConserved
  <2>6. \A i \in 1 .. Len(queue) : queue[i] # p
    BY <1>2, <2>1
  <2>7. NoIdleWhileWaiting'
    <3>1. \A q \in Requests : at'[q] = "waiting" <=> \E i \in 1 .. Len(queue') : queue'[i] = q
      <4>1. \A i \in 1 .. Len(queue') : i \in 1 .. Len(queue) \/ i = Len(queue) + 1
        BY <1>2, <2>2
      <4>2. \A i \in 1 .. Len(queue) : i \in 1 .. Len(queue')
        BY <1>2, <2>2
      <4>3. Len(queue) + 1 \in 1 .. Len(queue')
        BY <1>2, <2>2
      <4> QED BY <1>1, <1>2, <2>1, <2>2, <4>1, <4>2, <4>3
    <3>2. \A i, j \in 1 .. Len(queue') : queue'[i] = queue'[j] => i = j
      BY <1>2, <2>2, <2>6
    <3>3. \A q \in Requests : at'[q] = "waiting" <=> q \in ToSet(queue')
      BY <2>2, <3>1 DEF ToSet
    <3> QED BY <2>1, <3>2, <3>3 DEF NoIdleWhileWaiting
  <2>8. RefusedCommittedNothing'
    BY <1>1, <1>4, <2>1 DEF RefusedCommittedNothing
  <2>9. PyAtWork'
    BY <1>1, <1>4, <2>1 DEF PyAtWork
  <2> QED BY <2>3, <2>5, <2>7, <2>8, <2>9 DEF PyIInv
<1>8. ASSUME NEW p \in Requests, Commit(p) PROVE PyIInv'
  <2> DEFINE last == left[p] = 1
             x == IF last THEN "answered" ELSE "ready"
  <2>1. /\ at[p] = "holding"
        /\ left' = [left EXCEPT ![p] = @ - 1]
        /\ wrote' = [wrote EXCEPT ![p] = last]
        /\ status' = [status EXCEPT ![p] = IF last THEN "ok" ELSE @]
        /\ PyGiveBack([at EXCEPT ![p] = x])
    BY <1>8 DEF Commit
  <2>2. /\ free' \in 0 .. Size /\ queue' \in Seq(Requests)
        /\ at' \in [Requests -> PyStages]
        /\ PyConserved' /\ NoIdleWhileWaiting'
        /\ at'[p] = x
        /\ \A q \in Requests :
             q # p => at'[q] = at[q] \/ (at[q] = "waiting" /\ at'[q] = "holding")
    BY <2>1, PyReturnStep
  <2>3. left[p] \in 1 .. MaxCheckouts
    BY <1>1, <1>4, <2>1 DEF PyAtWork
  <2>4. PyTypeOK'
    <3>1. left' \in [Requests -> 0 .. MaxCheckouts]
      BY <1>1, <2>1, <2>3
    <3>2. wrote' \in [Requests -> BOOLEAN]
      BY <1>1, <2>1
    <3>3. status' \in [Requests -> Statuses]
      BY <1>1, <2>1 DEF Statuses
    <3> HIDE DEF last, x
    <3> QED BY <2>2, <3>1, <3>2, <3>3 DEF PyTypeOK
  <2>5. RefusedCommittedNothing'
    BY <1>1, <1>4, <2>1, <2>2 DEF RefusedCommittedNothing
  <2>6. PyAtWork'
    BY <1>1, <1>4, <2>1, <2>2, <2>3 DEF PyAtWork
  <2> QED BY <2>2, <2>4, <2>5, <2>6 DEF PyIInv
<1>9. ASSUME NEW p \in Requests, PyFail(p) PROVE PyIInv'
  <2>1. /\ at[p] = "holding"
        /\ status' = [status EXCEPT ![p] = "error"]
        /\ wrote' \in {wrote, [wrote EXCEPT ![p] = left[p] = 1]}
        /\ PyGiveBack([at EXCEPT ![p] = "answered"])
        /\ left' = left
    BY <1>9 DEF PyFail
  <2>2. /\ free' \in 0 .. Size /\ queue' \in Seq(Requests)
        /\ at' \in [Requests -> PyStages]
        /\ PyConserved' /\ NoIdleWhileWaiting'
        /\ at'[p] = "answered"
        /\ \A q \in Requests :
             q # p => at'[q] = at[q] \/ (at[q] = "waiting" /\ at'[q] = "holding")
    BY <2>1, PyReturnStep
  <2>3. PyTypeOK'
    BY <1>1, <2>1, <2>2 DEF PyTypeOK, Statuses
  <2>4. RefusedCommittedNothing'
    BY <1>1, <1>4, <2>1, <2>2 DEF RefusedCommittedNothing
  <2>5. PyAtWork'
    BY <1>1, <1>4, <2>1, <2>2 DEF PyAtWork
  <2> QED BY <2>2, <2>3, <2>4, <2>5 DEF PyIInv
<1>10. ASSUME NEW p \in Requests, PyTimeout(p) PROVE PyIInv'
  <2>1. PICK k \in DOMAIN queue : queue[k] = p /\ queue' = RemoveAt(queue, k)
    BY <1>10 DEF PyTimeout
  <2>2. /\ at[p] = "waiting" /\ at' = [at EXCEPT ![p] = "answered"]
        /\ status' = [status EXCEPT ![p] = "503"]
        /\ UNCHANGED <<free, left, wrote>>
    BY <1>10 DEF PyTimeout
  <2>3. k \in 1 .. Len(queue)
    BY <1>1, <2>1, LenProperties
  <2>4. /\ queue' \in Seq(Requests)
        /\ Len(queue') = Len(queue) - 1
        /\ \A j \in 1 .. Len(queue) - 1 : queue'[j] = IF j < k THEN queue[j] ELSE queue[j + 1]
    BY <1>1, <2>1, <2>3, QueueWithout
  <2>5. PyTypeOK'
    BY <1>1, <2>2, <2>4 DEF PyTypeOK, PyStages, Statuses
  <2>6. Holders' = Holders
    BY <1>1, <2>2 DEF Holders
  <2>7. PyConserved'
    BY <2>2, <2>6 DEF PyIInv, PyConserved
  <2>8. NoIdleWhileWaiting'
    <3>1. ASSUME NEW q \in Requests
          PROVE  at'[q] = "waiting" <=> \E i \in 1 .. Len(queue') : queue'[i] = q
      <4>1. at'[q] = "waiting" <=> at[q] = "waiting" /\ q # p
        BY <1>1, <2>2
      <4>2. ASSUME NEW i \in 1 .. Len(queue), queue[i] = q, q # p
            PROVE  \E j \in 1 .. Len(queue') : queue'[j] = q
        <5>1. i # k
          BY <2>1, <4>2
        <5>2. CASE i < k
          <6>1. i \in 1 .. Len(queue) - 1
            BY <1>2, <2>3, <5>2
          <6> QED BY <2>4, <4>2, <5>2, <6>1
        <5>3. CASE i > k
          <6>1. i - 1 \in 1 .. Len(queue) - 1 /\ ~(i - 1 < k) /\ (i - 1) + 1 = i
            BY <1>2, <2>3, <5>3
          <6> QED BY <2>4, <4>2, <6>1
        <5> QED BY <1>2, <2>3, <5>1, <5>2, <5>3
      <4>3. ASSUME NEW j \in 1 .. Len(queue'), queue'[j] = q
            PROVE  q # p /\ \E i \in 1 .. Len(queue) : queue[i] = q
        <5>1. j \in 1 .. Len(queue) /\ j + 1 \in 1 .. Len(queue)
          BY <1>2, <2>4
        <5>2. \E i \in 1 .. Len(queue) : i # k /\ queue[i] = q
          BY <1>2, <2>3, <2>4, <4>3, <5>1
        <5> QED BY <1>2, <2>1, <2>3, <5>2
      <4> QED BY <1>2, <4>1, <4>2, <4>3
    <3>2. ASSUME NEW i \in 1 .. Len(queue'), NEW j \in 1 .. Len(queue'), queue'[i] = queue'[j]
          PROVE  i = j
      <4> DEFINE old(n) == IF n < k THEN n ELSE n + 1
      <4>1. /\ old(i) \in 1 .. Len(queue) /\ old(j) \in 1 .. Len(queue)
            /\ queue'[i] = queue[old(i)] /\ queue'[j] = queue[old(j)]
        BY <1>2, <2>3, <2>4
      <4>2. old(i) = old(j)
        BY <1>2, <3>2, <4>1
      <4> QED BY <1>2, <2>3, <4>2
    <3>3. DOMAIN queue' = 1 .. Len(queue')
      BY <2>4, LenProperties
    <3>4. \A q \in Requests : at'[q] = "waiting" <=> q \in ToSet(queue')
      BY <3>1, <3>3 DEF ToSet
    <3>5. queue' # <<>> => free' = 0
      <4>1. queue # <<>>
        BY <2>3
      <4> QED BY <1>2, <2>2, <4>1
    <3> QED BY <3>2, <3>4, <3>5 DEF NoIdleWhileWaiting
  <2>9. RefusedCommittedNothing'
    BY <1>1, <1>4, <2>2 DEF RefusedCommittedNothing, PyAtWork
  <2>10. PyAtWork'
    BY <1>1, <1>4, <2>2 DEF PyAtWork
  <2> QED BY <2>5, <2>7, <2>8, <2>9, <2>10 DEF PyIInv
<1>11. ASSUME NEW p \in Requests, Leave(p) PROVE PyIInv'
  <2>1. /\ at[p] = "answered" /\ at' = [at EXCEPT ![p] = "idle"]
        /\ UNCHANGED <<free, queue, left, status, wrote>>
    BY <1>11 DEF Leave, poolVars
  <2>2. PyTypeOK'
    BY <1>1, <2>1 DEF PyTypeOK, PyStages
  <2>3. Holders' = Holders
    BY <1>1, <2>1 DEF Holders
  <2>4. PyConserved'
    BY <2>1, <2>3 DEF PyIInv, PyConserved
  <2>5. NoIdleWhileWaiting'
    BY <1>1, <2>1 DEF PyIInv, NoIdleWhileWaiting
  <2>6. RefusedCommittedNothing' /\ PyAtWork'
    BY <1>1, <1>4, <2>1 DEF RefusedCommittedNothing, PyAtWork
  <2> QED BY <2>2, <2>4, <2>5, <2>6 DEF PyIInv
<1>12. CASE UNCHANGED pyVars
  BY <1>12
  DEF PyIInv, PyAtWork, pyVars, poolVars, reqVars, PyTypeOK, PyConserved, Holders,
      NoIdleWhileWaiting, RefusedCommittedNothing
<1> QED
  BY <1>5, <1>6, <1>7, <1>8, <1>9, <1>10, <1>11, <1>12 DEF PyNext

LEMMA PyInitIInv == PyInit => PyIInv
<1> SUFFICES ASSUME PyInit PROVE PyIInv
  OBVIOUS
<1> USE DEF PyInit
<1>1. PyTypeOK
  BY EmptySeq, PoolAssumption, PoolPyAssumption DEF PyTypeOK, PyStages, Statuses
<1>2. PyConserved
  <2>1. Holders = {}
    BY DEF Holders
  <2> QED BY <2>1, FS_EmptySet, PoolAssumption, PoolPyAssumption DEF PyConserved
<1>3. NoIdleWhileWaiting
  BY DEF NoIdleWhileWaiting, ToSet
<1>4. RefusedCommittedNothing /\ PyAtWork
  BY DEF RefusedCommittedNothing, PyAtWork
<1> QED BY <1>1, <1>2, <1>3, <1>4 DEF PyIInv

THEOREM PyInvariance == PySpec => []PyIInv
<1>1. PyInit => PyIInv
  BY PyInitIInv
<1>2. PyIInv /\ [PyNext]_pyVars => PyIInv'
  BY PyStep
<1> QED BY <1>1, <1>2, PTL DEF PySpec

\* Every variable of the Python pool keeps its type.
THEOREM PyTypeCorrect == PySpec => []PyTypeOK
<1>1. PyIInv => PyTypeOK
  BY DEF PyIInv
<1> QED BY PyInvariance, <1>1, PTL

\* main.py, every `async with pool.connection()': whatever raises or times out, a
\* connection is idle or with one request.
THEOREM PyConservation == PySpec => []PyConserved
<1>1. PyIInv => PyConserved
  BY DEF PyIInv
<1> QED BY PyInvariance, <1>1, PTL

\* Nobody waits beside an idle connection, and a timeout leaves no trace of its
\* request in the queue.
THEOREM PyNobodyPassedOver == PySpec => []NoIdleWhileWaiting
<1>1. PyIInv => NoIdleWhileWaiting
  BY DEF PyIInv
<1> QED BY PyInvariance, <1>1, PTL

\* main.py:85-93, "try again shortly": a request told 503 has committed nothing to
\* PostgreSQL, at whichever of its checkouts it timed out.
THEOREM RefusalsCommitNothing == PySpec => []RefusedCommittedNothing
<1>1. PyIInv => RefusedCommittedNothing
  BY DEF PyIInv
<1> QED BY PyInvariance, <1>1, PTL

\* Nobody holds one connection while it waits for another, so a request that waits
\* does so for one that does not wait: however many checkouts each has to make, they
\* cannot all wait for each other.
PyWaitersHaveHolders ==
  \A p \in Requests : at[p] = "waiting" => \E q \in Requests : at[q] = "holding"

THEOREM PyNoDeadlock == PySpec => []PyWaitersHaveHolders
<1>1. ASSUME PyIInv, NEW p \in Requests, at[p] = "waiting"
      PROVE  \E q \in Requests : at[q] = "holding"
  <2>1. Size \in Nat \ {0} /\ free + Cardinality(Holders) = Size
    BY <1>1, PoolAssumption, PoolPyAssumption DEF PyIInv, PyConserved
  <2>2. free = 0
    <3>1. p \in ToSet(queue)
      BY <1>1 DEF PyIInv, NoIdleWhileWaiting
    <3>2. queue # <<>>
      BY <3>1 DEF ToSet
    <3> QED BY <1>1, <3>2 DEF PyIInv, NoIdleWhileWaiting
  <2>3. Holders # {}
    <3>1. Cardinality({}) = 0
      BY FS_EmptySet
    <3> QED BY <2>1, <2>2, <3>1
  <2> QED BY <2>3 DEF Holders
<1>2. PyIInv => PyWaitersHaveHolders
  BY <1>1 DEF PyWaitersHaveHolders
<1> QED BY PyInvariance, <1>2, PTL

-----------------------------------------------------------------------------
(* The TypeScript pool *)

\* Nobody waits beside an idle connection.  The operations that wait and have an
\* owner, and the requests that wait, are one to one.
TsQueueInv ==
  /\ tsQueue # <<>> => tsFree = 0
  /\ \A p \in Requests : tsAt[p] = "waiting" => \E i \in 1 .. Len(tsQueue) : tsQueue[i].owner = p
  /\ \A i \in 1 .. Len(tsQueue) :
       tsQueue[i].owner # Nobody => tsAt[tsQueue[i].owner] = "waiting"
  /\ \A i, j \in 1 .. Len(tsQueue) :
       tsQueue[i].owner = tsQueue[j].owner /\ tsQueue[i].owner # Nobody => i = j

TsIInv == TsTypeOK /\ TsConserved /\ TsQueueInv

\* The requests with a connection, when a says where each request is.
TsUsers(a) == {p \in Requests : a[p] \in {"running", "holding"}}

\* What the actions use of the invariant.
LEMMA TsFacts ==
  ASSUME TsIInv
  PROVE  /\ Size \in Nat /\ MaxOps \in Nat \ {0} /\ MaxQueue \in Nat /\ IsFiniteSet(Requests)
         /\ Nobody \notin Requests
         /\ tsFree \in Nat /\ orphans \in Nat /\ leaked \in Nat
         /\ tsQueue \in Seq(Operations) /\ Len(tsQueue) \in Nat /\ Len(tsQueue) <= MaxQueue
         /\ DOMAIN tsQueue = 1 .. Len(tsQueue)
         /\ \A i \in 1 .. Len(tsQueue) :
              /\ tsQueue[i] \in Operations
              /\ tsQueue[i].owner # Nobody => tsQueue[i].owner \in Requests
         /\ tsAt \in [Requests -> TsStages]
         /\ ops \in [Requests -> Seq(Kinds)]
         /\ \A p \in Requests : tsAt[p] # "idle" => ops[p] \in Plans
         /\ InPool = TsUsers(tsAt) /\ Cardinality(TsUsers(tsAt)) \in Nat
         /\ tsFree + Cardinality(TsUsers(tsAt)) + orphans + leaked = Size
<1>1. /\ Size \in Nat /\ MaxOps \in Nat \ {0} /\ MaxQueue \in Nat /\ IsFiniteSet(Requests)
      /\ Nobody \notin Requests
  BY PoolAssumption, PoolTsAssumption
<1>2. /\ tsFree \in Nat /\ orphans \in Nat /\ leaked \in Nat
      /\ tsQueue \in Seq(Operations) /\ Len(tsQueue) <= MaxQueue
      /\ tsAt \in [Requests -> TsStages]
      /\ ops \in [Requests -> Seq(Kinds)]
      /\ \A p \in Requests : tsAt[p] # "idle" => ops[p] \in Plans
  BY <1>1 DEF TsIInv, TsTypeOK
<1>3. /\ Len(tsQueue) \in Nat /\ DOMAIN tsQueue = 1 .. Len(tsQueue)
      /\ \A i \in 1 .. Len(tsQueue) : tsQueue[i] \in Operations
  BY <1>2, LenProperties
<1>4. \A op \in Operations : op.owner # Nobody => op.owner \in Requests
  BY DEF Operations
<1>5. InPool = TsUsers(tsAt)
  BY DEF InPool, TsUsers
<1>6. Cardinality(TsUsers(tsAt)) \in Nat
  <2>1. TsUsers(tsAt) \in SUBSET Requests
    BY DEF TsUsers
  <2> QED BY <1>1, <2>1, Counting
<1>7. tsFree + Cardinality(TsUsers(tsAt)) + orphans + leaked = Size
  BY <1>5 DEF TsIInv, TsConserved
<1> QED BY <1>1, <1>2, <1>3, <1>4, <1>5, <1>6, <1>7

\* A step after which the users are counted and the queue is right keeps the rest
\* of what the invariant says of the pool.
LEMMA TsPoolTypes ==
  ASSUME tsFree' \in Nat, orphans' \in Nat, leaked' \in Nat,
         tsFree' + Cardinality(TsUsers(tsAt')) + orphans' + leaked' = Size
  PROVE  TsConserved' /\ tsFree' \in 0 .. Size /\ orphans' \in 0 .. Size /\ leaked' \in 0 .. Size
<1>1. Size \in Nat /\ IsFiniteSet(Requests)
  BY PoolAssumption, PoolTsAssumption
<1>2. Cardinality(TsUsers(tsAt')) \in Nat
  <2>1. TsUsers(tsAt') \in SUBSET Requests
    BY DEF TsUsers
  <2> QED BY <1>1, <2>1, Counting
<1>3. TsConserved'
  <2>1. InPool' = TsUsers(tsAt')
    BY DEF InPool, TsUsers
  <2>2. TsConserved' <=> tsFree' + Cardinality(TsUsers(tsAt')) + orphans' + leaked' = Size
    BY <2>1 DEF TsConserved
  <2> QED BY <2>2
<1> QED BY <1>1, <1>2, <1>3

\* A connection that comes back, when a and o are what its user leaves: it is idle,
\* or runs for the first in the queue, or is leaked; never with two.
LEMMA TsReturnStep ==
  ASSUME TsIInv,
         NEW a \in [Requests -> TsStages], NEW o \in Nat,
         \A q \in Requests : a[q] = "waiting" <=> tsAt[q] = "waiting",
         tsFree + Cardinality(TsUsers(a)) + o + leaked = Size - 1,
         TsGiveBack(a, o)
  PROVE  /\ TsConserved' /\ TsQueueInv'
         /\ tsFree' \in 0 .. Size /\ orphans' \in 0 .. Size /\ leaked' \in 0 .. Size
         /\ tsQueue' \in Seq(Operations) /\ Len(tsQueue') <= MaxQueue
         /\ tsAt' \in [Requests -> TsStages]
         /\ \A q \in Requests : tsAt'[q] = a[q] \/ a[q] = "waiting"
<1>1. /\ Size \in Nat /\ MaxQueue \in Nat /\ IsFiniteSet(Requests) /\ Nobody \notin Requests
      /\ tsFree \in Nat /\ leaked \in Nat
      /\ tsQueue \in Seq(Operations) /\ Len(tsQueue) \in Nat /\ Len(tsQueue) <= MaxQueue
      /\ \A i \in 1 .. Len(tsQueue) :
           /\ tsQueue[i] \in Operations
           /\ tsQueue[i].owner # Nobody => tsQueue[i].owner \in Requests
  BY TsFacts
<1>2. TsUsers(a) \in SUBSET Requests /\ Cardinality(TsUsers(a)) \in Nat
  <2>1. TsUsers(a) \in SUBSET Requests
    BY DEF TsUsers
  <2> QED BY <1>1, <2>1, Counting
<1>3. /\ tsQueue # <<>> => tsFree = 0
      /\ \A q \in Requests : a[q] = "waiting" => \E i \in 1 .. Len(tsQueue) : tsQueue[i].owner = q
      /\ \A i \in 1 .. Len(tsQueue) :
           tsQueue[i].owner # Nobody => a[tsQueue[i].owner] = "waiting"
      /\ \A i, j \in 1 .. Len(tsQueue) :
           tsQueue[i].owner = tsQueue[j].owner /\ tsQueue[i].owner # Nobody => i = j
  BY <1>1 DEF TsIInv, TsQueueInv
<1> DEFINE c == Cardinality(TsUsers(a))
<1>4. tsFree \in Nat /\ leaked \in Nat /\ c \in Nat /\ Size = tsFree + c + o + leaked + 1
  <2>1. tsFree \in Nat /\ leaked \in Nat /\ Size \in Nat /\ c \in Nat
    BY <1>1, <1>2
  <2>2. tsFree + c + o + leaked = Size - 1
    OBVIOUS
  <2> HIDE DEF c
  <2> QED BY <2>1, <2>2
<1>5. CASE tsQueue = <<>>
  <2>1. /\ tsFree' = tsFree + 1 /\ tsAt' = a /\ orphans' = o
        /\ tsQueue' = tsQueue /\ leaked' = leaked
    BY <1>5 DEF TsGiveBack
  <2>2. tsFree' + Cardinality(TsUsers(tsAt')) + orphans' + leaked' = Size
    <3>1. Cardinality(TsUsers(tsAt')) = c
      BY <2>1
    <3> HIDE DEF c
    <3> QED BY <1>4, <2>1, <3>1
  <2>3. TsQueueInv'
    BY <1>3, <1>5, <2>1 DEF TsQueueInv
  <2> QED BY <1>1, <2>1, <2>2, <2>3, TsPoolTypes
<1>6. CASE tsQueue # <<>>
  <2> DEFINE op == tsQueue[1]
  <2>1. Deliver(op, a, o) /\ tsQueue' = Tail(tsQueue) /\ tsFree' = tsFree
    BY <1>1, <1>6, RestOfQueue DEF TsGiveBack
  <2>2. /\ Len(tsQueue) >= 1
        /\ tsQueue' \in Seq(Operations) /\ Len(tsQueue') = Len(tsQueue) - 1
        /\ \A i \in 1 .. Len(tsQueue) - 1 : tsQueue'[i] = tsQueue[i + 1]
    BY <1>1, <1>6, <2>1, RestOfQueue
  <2>3. \A i, j \in 1 .. Len(tsQueue') :
          tsQueue'[i].owner = tsQueue'[j].owner /\ tsQueue'[i].owner # Nobody => i = j
    <3>1. \A i \in 1 .. Len(tsQueue') :
            i \in Nat /\ i + 1 \in 1 .. Len(tsQueue) /\ tsQueue'[i] = tsQueue[i + 1]
      BY <1>1, <2>2
    <3>2. \A i, j \in Nat : i + 1 = j + 1 => i = j
      OBVIOUS
    <3> SUFFICES ASSUME NEW i \in 1 .. Len(tsQueue'), NEW j \in 1 .. Len(tsQueue'),
                        tsQueue'[i].owner = tsQueue'[j].owner, tsQueue'[i].owner # Nobody
                 PROVE  i = j
      OBVIOUS
    <3>3. i + 1 = j + 1
      BY <1>3, <3>1
    <3> QED BY <3>1, <3>2, <3>3
  <2>4. \A i \in 1 .. Len(tsQueue') :
          tsQueue'[i].owner # Nobody =>
            /\ tsQueue'[i].owner \in Requests
            /\ a[tsQueue'[i].owner] = "waiting"
            /\ tsQueue'[i].owner # op.owner
    <3> SUFFICES ASSUME NEW i \in 1 .. Len(tsQueue'), tsQueue'[i].owner # Nobody
                 PROVE  /\ tsQueue'[i].owner \in Requests
                        /\ a[tsQueue'[i].owner] = "waiting"
                        /\ tsQueue'[i].owner # op.owner
      OBVIOUS
    <3>1. i + 1 \in 1 .. Len(tsQueue) /\ 1 \in 1 .. Len(tsQueue) /\ i + 1 # 1
          /\ tsQueue'[i] = tsQueue[i + 1]
      BY <1>1, <2>2
    <3> QED BY <1>1, <1>3, <3>1
  <2>5. \A q \in Requests : a[q] = "waiting" /\ q # op.owner =>
          \E i \in 1 .. Len(tsQueue') : tsQueue'[i].owner = q
    <3> SUFFICES ASSUME NEW q \in Requests, a[q] = "waiting", q # op.owner
                 PROVE  \E i \in 1 .. Len(tsQueue') : tsQueue'[i].owner = q
      OBVIOUS
    <3>1. PICK i \in 1 .. Len(tsQueue) : tsQueue[i].owner = q
      BY <1>3
    <3>2. i # 1
      BY <3>1
    <3>3. i - 1 \in 1 .. Len(tsQueue') /\ tsQueue'[i - 1] = tsQueue[i]
      BY <1>1, <2>2, <3>2
    <3> QED BY <3>1, <3>3
  <2>6. tsFree' = 0
    BY <1>3, <1>6, <2>1
  <2>7. CASE op.owner # Nobody
    <3> DEFINE q == op.owner
               x == Stage(op.kind)
    <3>1. q \in Requests /\ a[q] = "waiting" /\ op \in Operations
      BY <1>1, <1>3, <2>2, <2>7
    <3>2. tsAt' = [a EXCEPT ![q] = x] /\ orphans' = o /\ leaked' = leaked
      BY <2>1, <2>7 DEF Deliver, Operation
    <3>3. x \in {"running", "holding"}
      BY DEF Stage
    <3> HIDE DEF q, x
    <3>4. tsAt' \in [Requests -> TsStages] /\ tsAt'[q] = x
          /\ \A r \in Requests \ {q} : tsAt'[r] = a[r]
      BY <3>1, <3>2, <3>3 DEF TsStages
    <3>5. TsUsers(tsAt') = TsUsers(a) \cup {q} /\ q \in Requests \ TsUsers(a)
      BY <3>1, <3>3, <3>4 DEF TsUsers
    <3>6. Cardinality(TsUsers(tsAt')) = c + 1
      BY <1>1, <1>2, <3>5, Counting
    <3>7. tsFree' + Cardinality(TsUsers(tsAt')) + orphans' + leaked' = Size
      <4> HIDE DEF c
      <4> QED BY <1>4, <2>1, <3>2, <3>6
    <3>8. TsQueueInv'
      BY <2>3, <2>4, <2>5, <2>6, <3>3, <3>4 DEF TsQueueInv, q
    <3> QED BY <1>1, <2>1, <2>2, <3>1, <3>2, <3>4, <3>7, <3>8, TsPoolTypes
  <2>8. CASE op.owner = Nobody
    <3>1. /\ tsAt' = a
          /\ \/ orphans' = o + 1 /\ leaked' = leaked
             \/ orphans' = o /\ leaked' = leaked + 1
      BY <2>1, <2>8 DEF Deliver, Operation
    <3>2. tsFree' + Cardinality(TsUsers(tsAt')) + orphans' + leaked' = Size
      <4>1. Cardinality(TsUsers(tsAt')) = c
        BY <3>1
      <4> HIDE DEF c
      <4> QED BY <1>4, <2>1, <3>1, <4>1
    <3>3. TsQueueInv'
      <4>1. \A q \in Requests : q # op.owner
        BY <1>1, <2>8
      <4> QED BY <2>3, <2>4, <2>5, <2>6, <3>1, <4>1 DEF TsQueueInv
    <3> QED BY <1>1, <2>1, <2>2, <3>1, <3>2, <3>3, TsPoolTypes
  <2> QED BY <2>7, <2>8
<1> QED BY <1>5, <1>6

\* What a handler still has to do once its first query is done is again a plan.
LEMMA RestOfPlan ==
  ASSUME NEW plan \in Plans
  PROVE  /\ plan \in Seq(Kinds) /\ Head(plan) \in Kinds
         /\ Tail(plan) \in Seq(Kinds)
         /\ Len(plan) # 1 => Tail(plan) \in Plans
<1>1. PICK n \in 1 .. MaxOps, kind \in Kinds :
        plan = [i \in 1 .. n |-> IF i < n THEN "query" ELSE kind]
  BY DEF Plans
<1>2. MaxOps \in Nat /\ n \in Nat /\ n >= 1
  BY PoolAssumption, PoolTsAssumption
<1>3. plan \in Seq(Kinds) /\ Len(plan) = n
  <2>1. plan \in [1 .. n -> Kinds]
    BY <1>1 DEF Kinds
  <2> QED BY <1>2, <2>1
<1>4. /\ plan # <<>> /\ Head(plan) \in Kinds /\ Tail(plan) \in Seq(Kinds)
      /\ Len(Tail(plan)) = n - 1
      /\ \A i \in 1 .. n - 1 : Tail(plan)[i] = plan[i + 1]
  <2>1. plan # <<>>
    BY <1>2, <1>3
  <2> QED BY <1>3, <2>1, RestOfQueue
<1>5. ASSUME n # 1 PROVE Tail(plan) \in Plans
  <2> DEFINE rest == [i \in 1 .. n - 1 |-> IF i < n - 1 THEN "query" ELSE kind]
  <2>1. n - 1 \in 1 .. MaxOps
    BY <1>2, <1>5
  <2>2. rest \in Seq(Kinds) /\ Len(rest) = n - 1
    <3>1. rest \in [1 .. n - 1 -> Kinds] /\ n - 1 \in Nat
      BY <1>2 DEF Kinds
    <3> HIDE DEF rest
    <3> QED BY <3>1
  <2>3. \A i \in 1 .. n - 1 : Tail(plan)[i] = rest[i]
    BY <1>1, <1>2, <1>4
  <2>4. Tail(plan) = rest
    BY <1>2, <1>4, <2>2, <2>3, SeqEqual
  <2> QED BY <2>1, <2>4 DEF Plans
<1> QED BY <1>3, <1>4, <1>5

LEMMA TsInitIInv == TsInit => TsIInv
<1> SUFFICES ASSUME TsInit PROVE TsIInv
  OBVIOUS
<1> USE DEF TsInit
<1>1. TsTypeOK
  BY EmptySeq, PoolAssumption, PoolTsAssumption DEF TsTypeOK, TsStages
<1>2. TsConserved
  <2>1. InPool = {}
    BY DEF InPool
  <2> QED BY <2>1, FS_EmptySet, PoolAssumption, PoolTsAssumption DEF TsConserved
<1>3. TsQueueInv
  <2>1. Len(tsQueue) = 0 /\ tsQueue = <<>>
    OBVIOUS
  <2> QED BY <2>1 DEF TsQueueInv
<1> QED BY <1>1, <1>2, <1>3 DEF TsIInv

\* Requests and the timer, between them, lose no connection and give none to two.
LEMMA TsStep == TsIInv /\ [TsNext]_tsVars => TsIInv'
<1> SUFFICES ASSUME TsIInv, [TsNext]_tsVars PROVE TsIInv'
  OBVIOUS
<1> DEFINE c == Cardinality(TsUsers(tsAt))
<1>1. /\ Size \in Nat /\ MaxQueue \in Nat /\ IsFiniteSet(Requests) /\ Nobody \notin Requests
      /\ tsFree \in Nat /\ orphans \in Nat /\ leaked \in Nat /\ c \in Nat
      /\ tsFree + c + orphans + leaked = Size
  BY TsFacts
<1>2. /\ tsQueue \in Seq(Operations) /\ Len(tsQueue) \in Nat /\ Len(tsQueue) <= MaxQueue
      /\ DOMAIN tsQueue = 1 .. Len(tsQueue)
      /\ \A i \in 1 .. Len(tsQueue) :
           /\ tsQueue[i] \in Operations
           /\ tsQueue[i].owner # Nobody => tsQueue[i].owner \in Requests
  BY TsFacts
<1>3. /\ tsAt \in [Requests -> TsStages]
      /\ ops \in [Requests -> Seq(Kinds)]
      /\ \A p \in Requests : tsAt[p] # "idle" => ops[p] \in Plans
      /\ TsUsers(tsAt) \in SUBSET Requests
  BY TsFacts DEF TsUsers
<1>4. /\ tsQueue # <<>> => tsFree = 0
      /\ \A p \in Requests : tsAt[p] = "waiting" => \E i \in 1 .. Len(tsQueue) : tsQueue[i].owner = p
      /\ \A i \in 1 .. Len(tsQueue) :
           tsQueue[i].owner # Nobody => tsAt[tsQueue[i].owner] = "waiting"
      /\ \A i, j \in 1 .. Len(tsQueue) :
           tsQueue[i].owner = tsQueue[j].owner /\ tsQueue[i].owner # Nobody => i = j
  BY DEF TsIInv, TsQueueInv
<1>5. tsFree \in 0 .. Size /\ orphans \in 0 .. Size /\ leaked \in 0 .. Size
  BY DEF TsIInv, TsTypeOK
<1>6. ASSUME NEW p \in Requests, tsAt[p] \in {"running", "holding"}
      PROVE  Cardinality(TsUsers(tsAt) \ {p}) = c - 1
  <2>1. p \in TsUsers(tsAt)
    BY <1>6 DEF TsUsers
  <2> QED BY <1>1, <1>3, <2>1, Counting
<1>7. ASSUME NEW p \in Requests, tsAt[p] \in {"running", "holding"},
             NEW x \in {"idle", "ready"},
             TsGiveBack([tsAt EXCEPT ![p] = x], orphans),
             NEW plan \in Seq(Kinds), ops' = [ops EXCEPT ![p] = plan],
             x # "idle" => plan \in Plans
      PROVE  TsIInv'
  <2> DEFINE a == [tsAt EXCEPT ![p] = x]
  <2>1. /\ a \in [Requests -> TsStages] /\ a[p] = x
        /\ \A q \in Requests \ {p} : a[q] = tsAt[q]
    BY <1>3 DEF TsStages
  <2>2. \A q \in Requests : a[q] = "waiting" <=> tsAt[q] = "waiting"
    BY <1>7, <2>1
  <2>3. TsUsers(a) = TsUsers(tsAt) \ {p}
    BY <2>1 DEF TsUsers
  <2>4. tsFree + Cardinality(TsUsers(a)) + orphans + leaked = Size - 1
    <3>1. Cardinality(TsUsers(a)) = c - 1
      BY <1>6, <1>7, <2>3
    <3> HIDE DEF c
    <3> QED BY <1>1, <3>1
  <2>5. TsGiveBack(a, orphans)
    BY <1>7
  <2> HIDE DEF a
  <2>6. /\ TsConserved' /\ TsQueueInv'
        /\ tsFree' \in 0 .. Size /\ orphans' \in 0 .. Size /\ leaked' \in 0 .. Size
        /\ tsQueue' \in Seq(Operations) /\ Len(tsQueue') <= MaxQueue
        /\ tsAt' \in [Requests -> TsStages]
        /\ \A q \in Requests : tsAt'[q] = a[q] \/ a[q] = "waiting"
    BY <1>1, <2>1, <2>2, <2>4, <2>5, TsReturnStep
  <2>7. /\ ops' \in [Requests -> Seq(Kinds)]
        /\ \A q \in Requests : tsAt'[q] # "idle" => ops'[q] \in Plans
    BY <1>3, <1>7, <2>1, <2>6
  <2> QED BY <2>6, <2>7 DEF TsIInv, TsTypeOK
<1>8. ASSUME NEW p \in Requests, TsArrive(p) PROVE TsIInv'
  <2>1. PICK plan \in Plans : ops' = [ops EXCEPT ![p] = plan]
    BY <1>8 DEF TsArrive
  <2>2. /\ tsAt[p] = "idle" /\ tsAt' = [tsAt EXCEPT ![p] = "ready"]
        /\ UNCHANGED <<tsFree, tsQueue, orphans, leaked>>
    BY <1>8 DEF TsArrive, tsPoolVars
  <2>3. plan \in Seq(Kinds)
    BY RestOfPlan
  <2>4. /\ tsAt' \in [Requests -> TsStages]
        /\ ops' \in [Requests -> Seq(Kinds)]
        /\ \A q \in Requests : tsAt'[q] # "idle" => ops'[q] \in Plans
    BY <1>3, <2>1, <2>2, <2>3 DEF TsStages
  <2>5. TsUsers(tsAt') = TsUsers(tsAt)
    BY <1>3, <2>2 DEF TsUsers
  <2>6. TsConserved'
    BY <1>1, <2>2, <2>5, TsPoolTypes
  <2>7. TsQueueInv'
    BY <1>2, <1>3, <1>4, <2>2 DEF TsQueueInv
  <2> QED BY <1>2, <1>5, <2>2, <2>4, <2>6, <2>7 DEF TsIInv, TsTypeOK
<1>9. ASSUME NEW p \in Requests, Start(p) PROVE TsIInv'
  <2> DEFINE x == Stage(Head(ops[p]))
  <2>1. /\ tsAt[p] = "ready" /\ tsAt' = [tsAt EXCEPT ![p] = x]
        /\ tsFree > 0 /\ tsFree' = tsFree - 1
        /\ UNCHANGED <<tsQueue, orphans, leaked, ops>>
    BY <1>9 DEF Start
  <2>2. x \in {"running", "holding"}
    BY DEF Stage
  <2> HIDE DEF x
  <2>3. tsAt' \in [Requests -> TsStages]
    BY <1>3, <2>1, <2>2 DEF TsStages
  <2>4. \A q \in Requests : tsAt'[q] # "idle" => ops'[q] \in Plans
    BY <1>3, <2>1
  <2>5. TsUsers(tsAt') = TsUsers(tsAt) \cup {p} /\ p \in Requests \ TsUsers(tsAt)
    BY <1>3, <2>1, <2>2 DEF TsUsers
  <2>6. TsConserved' /\ tsFree' \in 0 .. Size
    <3>1. Cardinality(TsUsers(tsAt')) = c + 1
      <4>1. IsFiniteSet(Requests) /\ TsUsers(tsAt) \in SUBSET Requests
        BY <1>1, <1>3
      <4>2. \A q \in Requests \ TsUsers(tsAt) : Cardinality(TsUsers(tsAt) \cup {q}) = c + 1
        BY <4>1, Counting
      <4> QED BY <2>5, <4>2
    <3>2. /\ tsFree' \in Nat /\ orphans' \in Nat /\ leaked' \in Nat
          /\ tsFree' + Cardinality(TsUsers(tsAt')) + orphans' + leaked' = Size
      <4> HIDE DEF c
      <4> QED BY <1>1, <2>1, <3>1
    <3> QED BY <3>2, TsPoolTypes
  <2>7. TsQueueInv'
    <3>1. \A q \in Requests : tsAt'[q] = "waiting" => tsAt[q] = "waiting"
      BY <1>3, <2>1, <2>2
    <3> QED BY <1>1, <1>2, <1>3, <1>4, <2>1, <3>1 DEF TsQueueInv
  <2> QED BY <1>2, <1>3, <1>5, <2>1, <2>3, <2>4, <2>6, <2>7 DEF TsIInv, TsTypeOK
<1>10. ASSUME NEW p \in Requests, TsWait(p) PROVE TsIInv'
  <2> DEFINE op == Operation(Head(ops[p]), p)
  <2>1. /\ tsAt[p] = "ready" /\ tsAt' = [tsAt EXCEPT ![p] = "waiting"]
        /\ Len(tsQueue) < MaxQueue /\ tsQueue' = Append(tsQueue, op) /\ tsFree = 0
        /\ UNCHANGED <<tsFree, orphans, leaked, ops>>
    BY <1>10 DEF TsWait
  <2>2. op \in Operations /\ op.owner = p
    <3>1. Head(ops[p]) \in Kinds
      BY <1>3, <2>1, RestOfPlan
    <3> QED BY <3>1 DEF Operations, Operation
  <2> HIDE DEF op
  <2>3. /\ tsQueue' \in Seq(Operations) /\ Len(tsQueue') = Len(tsQueue) + 1
        /\ \A i \in 1 .. Len(tsQueue) : tsQueue'[i] = tsQueue[i]
        /\ tsQueue'[Len(tsQueue) + 1] = op
    BY <1>2, <2>1, <2>2, AppendProperties
  <2>4. tsAt' \in [Requests -> TsStages] /\ Len(tsQueue') <= MaxQueue
    BY <1>1, <1>2, <1>3, <2>1, <2>3 DEF TsStages
  <2>5. \A q \in Requests : tsAt'[q] # "idle" => ops'[q] \in Plans
    BY <1>3, <2>1
  <2>6. TsUsers(tsAt') = TsUsers(tsAt)
    BY <1>3, <2>1 DEF TsUsers
  <2>7. TsConserved'
    BY <1>1, <2>1, <2>6, TsPoolTypes
  <2>8. TsQueueInv'
    <3>1. \A i \in 1 .. Len(tsQueue') : i \in 1 .. Len(tsQueue) \/ i = Len(tsQueue) + 1
      BY <1>2, <2>3
    <3>2. \A i \in 1 .. Len(tsQueue) : tsQueue[i].owner # p
      BY <1>1, <1>4, <2>1
    <3>3. \A i \in 1 .. Len(tsQueue') :
            tsQueue'[i].owner # Nobody => tsAt'[tsQueue'[i].owner] = "waiting"
      BY <1>2, <1>3, <1>4, <2>1, <2>2, <2>3, <3>1
    <3>4. \A i, j \in 1 .. Len(tsQueue') :
            tsQueue'[i].owner = tsQueue'[j].owner /\ tsQueue'[i].owner # Nobody => i = j
      BY <1>4, <2>2, <2>3, <3>1, <3>2
    <3>5. \A q \in Requests : tsAt'[q] = "waiting" => \E i \in 1 .. Len(tsQueue') : tsQueue'[i].owner = q
      <4> SUFFICES ASSUME NEW q \in Requests, tsAt'[q] = "waiting"
                   PROVE  \E i \in 1 .. Len(tsQueue') : tsQueue'[i].owner = q
        OBVIOUS
      <4>1. CASE q = p
        <5>1. Len(tsQueue) + 1 \in 1 .. Len(tsQueue')
          BY <1>2, <2>3
        <5> QED BY <2>2, <2>3, <4>1, <5>1
      <4>2. CASE q # p
        <5>1. tsAt[q] = "waiting"
          BY <1>3, <2>1, <4>2
        <5>2. PICK i \in 1 .. Len(tsQueue) : tsQueue[i].owner = q
          BY <1>4, <5>1
        <5>3. i \in 1 .. Len(tsQueue') /\ tsQueue'[i] = tsQueue[i]
          BY <1>2, <2>3
        <5> QED BY <5>2, <5>3
      <4> QED BY <4>1, <4>2
    <3>6. tsFree' = 0
      BY <2>1
    <3> QED BY <3>3, <3>4, <3>5, <3>6 DEF TsQueueInv
  <2> QED BY <1>3, <1>5, <2>1, <2>3, <2>4, <2>5, <2>7, <2>8 DEF TsIInv, TsTypeOK
<1>11. ASSUME NEW p \in Requests, Finish(p) PROVE TsIInv'
  <2> DEFINE x == IF Len(ops[p]) = 1 THEN "idle" ELSE "ready"
  <2>1. /\ tsAt[p] = "running" /\ ops' = [ops EXCEPT ![p] = Tail(ops[p])]
        /\ TsGiveBack([tsAt EXCEPT ![p] = x], orphans)
    BY <1>11 DEF Finish, Over
  <2>2. Tail(ops[p]) \in Seq(Kinds) /\ (x # "idle" => Tail(ops[p]) \in Plans)
    BY <1>3, <2>1, RestOfPlan
  <2>3. x \in {"idle", "ready"}
    OBVIOUS
  <2> HIDE DEF x
  <2> QED BY <1>7, <2>1, <2>2, <2>3
<1>12. ASSUME NEW p \in Requests, TsFail(p) \/ Release(p) PROVE TsIInv'
  <2>1. /\ tsAt[p] \in {"running", "holding"} /\ ops' = [ops EXCEPT ![p] = <<>>]
        /\ TsGiveBack([tsAt EXCEPT ![p] = "idle"], orphans)
    BY <1>12 DEF TsFail, Release, Over, Answer
  <2>2. <<>> \in Seq(Kinds)
    BY EmptySeq
  <2> QED BY <1>7, <2>1, <2>2
<1>13. ASSUME NEW p \in Requests, TsTimeout(p) PROVE TsIInv'
  <2>1. /\ tsAt[p] \in {"waiting", "running"} /\ tsAt' = [tsAt EXCEPT ![p] = "idle"]
        /\ ops' = [ops EXCEPT ![p] = <<>>]
        /\ tsQueue' = [i \in 1 .. Len(tsQueue) |-> Abandoned(tsQueue[i], p)]
        /\ orphans' = IF tsAt[p] = "running" THEN orphans + 1 ELSE orphans
        /\ tsFree' = tsFree /\ leaked' = leaked
    BY <1>2, <1>13 DEF TsTimeout, Over, Answer
  <2>2. \A i \in 1 .. Len(tsQueue) :
          /\ tsQueue'[i] \in Operations
          /\ tsQueue'[i].owner = IF tsQueue[i].owner = p THEN Nobody ELSE tsQueue[i].owner
    BY <1>2, <2>1 DEF Abandoned, Operation, Operations
  <2>3. tsQueue' \in Seq(Operations) /\ Len(tsQueue') = Len(tsQueue)
    <3>1. tsQueue' \in [1 .. Len(tsQueue) -> Operations]
      BY <2>1, <2>2
    <3> QED BY <1>2, <3>1
  <2>4. /\ tsAt' \in [Requests -> TsStages] /\ ops' \in [Requests -> Seq(Kinds)]
        /\ \A q \in Requests : tsAt'[q] # "idle" => ops'[q] \in Plans
    BY <1>3, <2>1, EmptySeq DEF TsStages
  <2>5. TsConserved' /\ orphans' \in 0 .. Size
    <3>1. CASE tsAt[p] = "running"
      <4>1. TsUsers(tsAt') = TsUsers(tsAt) \ {p}
        BY <1>3, <2>1 DEF TsUsers
      <4>2. Cardinality(TsUsers(tsAt')) = c - 1
        BY <1>6, <3>1, <4>1
      <4>3. /\ tsFree' \in Nat /\ orphans' \in Nat /\ leaked' \in Nat
            /\ tsFree' + Cardinality(TsUsers(tsAt')) + orphans' + leaked' = Size
        <5> HIDE DEF c
        <5> QED BY <1>1, <2>1, <3>1, <4>2
      <4> QED BY <4>3, TsPoolTypes
    <3>2. CASE tsAt[p] = "waiting"
      <4>1. TsUsers(tsAt') = TsUsers(tsAt)
        BY <1>3, <2>1, <3>2 DEF TsUsers
      <4>2. orphans' = orphans
        BY <2>1, <3>2
      <4> QED BY <1>1, <2>1, <4>1, <4>2, TsPoolTypes
    <3> QED BY <2>1, <3>1, <3>2
  <2>6. TsQueueInv'
    <3>1. \A i \in 1 .. Len(tsQueue') :
            tsQueue'[i].owner # Nobody => tsAt'[tsQueue'[i].owner] = "waiting"
      BY <1>2, <1>3, <1>4, <2>1, <2>2, <2>3
    <3>2. \A i, j \in 1 .. Len(tsQueue') :
            tsQueue'[i].owner = tsQueue'[j].owner /\ tsQueue'[i].owner # Nobody => i = j
      BY <1>4, <2>2, <2>3
    <3>3. \A q \in Requests : tsAt'[q] = "waiting" => \E i \in 1 .. Len(tsQueue') : tsQueue'[i].owner = q
      <4> SUFFICES ASSUME NEW q \in Requests, tsAt'[q] = "waiting"
                   PROVE  \E i \in 1 .. Len(tsQueue') : tsQueue'[i].owner = q
        OBVIOUS
      <4>1. q # p /\ tsAt[q] = "waiting"
        BY <1>3, <2>1
      <4> QED BY <1>4, <2>2, <2>3, <4>1
    <3>4. tsQueue' # <<>> => tsFree' = 0
      BY <1>2, <1>4, <2>1, <2>3
    <3> QED BY <3>1, <3>2, <3>3, <3>4 DEF TsQueueInv
  <2> QED BY <1>2, <1>5, <2>1, <2>3, <2>4, <2>5, <2>6 DEF TsIInv, TsTypeOK
<1>14. ASSUME OrphanEnds PROVE TsIInv'
  <2>1. orphans > 0 /\ TsGiveBack(tsAt, orphans - 1) /\ ops' = ops
    BY <1>14 DEF OrphanEnds
  <2>2. /\ orphans - 1 \in Nat
        /\ tsFree + Cardinality(TsUsers(tsAt)) + (orphans - 1) + leaked = Size - 1
    <3> HIDE DEF c
    <3>1. tsFree + c + (orphans - 1) + leaked = Size - 1 /\ orphans - 1 \in Nat
      BY <1>1, <2>1
    <3> QED BY <3>1 DEF c
  <2>3. /\ TsConserved' /\ TsQueueInv'
        /\ tsFree' \in 0 .. Size /\ orphans' \in 0 .. Size /\ leaked' \in 0 .. Size
        /\ tsQueue' \in Seq(Operations) /\ Len(tsQueue') <= MaxQueue
        /\ tsAt' \in [Requests -> TsStages]
        /\ \A q \in Requests : tsAt'[q] = tsAt[q] \/ tsAt[q] = "waiting"
    BY <1>3, <2>1, <2>2, TsReturnStep
  <2>4. \A q \in Requests : tsAt'[q] # "idle" => ops'[q] \in Plans
    BY <1>3, <2>1, <2>3
  <2> QED BY <1>3, <2>1, <2>3, <2>4 DEF TsIInv, TsTypeOK
<1>15. CASE UNCHANGED tsVars
  BY <1>15 DEF TsIInv, TsQueueInv, tsVars, tsPoolVars, TsTypeOK, TsConserved, InPool
<1> QED
  BY <1>8, <1>9, <1>10, <1>11, <1>12, <1>13, <1>14, <1>15 DEF TsNext

THEOREM TsInvariance == TsSpec => []TsIInv
<1>1. TsInit => TsIInv
  BY TsInitIInv
<1>2. TsIInv /\ [TsNext]_tsVars => TsIInv'
  BY TsStep
<1> QED BY <1>1, <1>2, PTL DEF TsSpec

\* Every variable of the TypeScript pool keeps its type.
THEOREM TsTypeCorrect == TsSpec => []TsTypeOK
<1>1. TsIInv => TsTypeOK
  BY DEF TsIInv
<1> QED BY TsInvariance, <1>1, PTL

\* server.ts, withAcquireTimeout: wherever the timer cuts in, a connection is idle,
\* with one live request, with one query that outlived its request, or leaked.
THEOREM TsConservation == TsSpec => []TsConserved
<1>1. TsIInv => TsConserved
  BY DEF TsIInv
<1> QED BY TsInvariance, <1>1, PTL

\* The timer passes nobody over: who waits is in the queue once, what it leaves
\* there has no owner, and nobody waits beside an idle connection.
THEOREM TsNobodyPassedOver == TsSpec => []TsQueueInv
<1>1. TsIInv => TsQueueInv
  BY DEF TsIInv
<1> QED BY TsInvariance, <1>1, PTL

\* As long as a connection is left, someone who waits does so for one that is in
\* use, by a live request or by a query that outlived its request: only leaks can
\* bring the pool to a stop.
TsStopsByLeaksOnly ==
  \A p \in Requests : tsAt[p] = "waiting" => InPool # {} \/ orphans > 0 \/ leaked = Size

THEOREM TsNoDeadlock == TsSpec => []TsStopsByLeaksOnly
<1>1. ASSUME TsIInv, NEW p \in Requests, tsAt[p] = "waiting", InPool = {}, orphans = 0
      PROVE  leaked = Size
  <2>1. /\ Size \in Nat /\ leaked \in Nat
        /\ tsFree + Cardinality(TsUsers(tsAt)) + orphans + leaked = Size
        /\ InPool = TsUsers(tsAt) /\ Len(tsQueue) \in Nat
    BY <1>1, TsFacts
  <2>2. Cardinality(TsUsers(tsAt)) = 0
    BY <1>1, <2>1, FS_EmptySet
  <2>3. tsFree = 0
    <3>1. PICK i \in 1 .. Len(tsQueue) : tsQueue[i].owner = p
      BY <1>1 DEF TsIInv, TsQueueInv
    <3>2. tsQueue # <<>>
      BY <2>1, <3>1
    <3> QED BY <1>1, <3>2 DEF TsIInv, TsQueueInv
  <2> QED BY <1>1, <2>1, <2>2, <2>3
<1>2. TsIInv => TsStopsByLeaksOnly
  <2>1. TsIInv => orphans \in Nat
    BY TsFacts
  <2> QED BY <1>1, <2>1 DEF TsStopsByLeaksOnly
<1> QED BY TsInvariance, <1>2, PTL

-----------------------------------------------------------------------------
(* An instance of the API *)

LEMMA PoolsStep ==
  ASSUME PyIInv, TsIInv, program \in {"py", "ts"}, [PoolsNext]_poolsVars
  PROVE  PyIInv' /\ TsIInv' /\ program' \in {"py", "ts"}
<1>1. CASE PyInstance
  BY <1>1, PyStep, TsStep DEF PyInstance
<1>2. CASE TsInstance
  BY <1>2, PyStep, TsStep DEF TsInstance
<1>3. CASE UNCHANGED poolsVars
  BY <1>3, PyStep, TsStep DEF poolsVars
<1> QED BY <1>1, <1>2, <1>3 DEF PoolsNext

\* Whichever program an instance runs: its pool keeps its types and loses no
\* connection but by the leak, and its 503s have committed nothing.
THEOREM InstanceIsSafe ==
  PoolsSpec => [](TypesOK /\ PyConserved /\ RefusedCommittedNothing /\ TsConserved)
<1> DEFINE Inv == PyIInv /\ TsIInv /\ program \in {"py", "ts"}
<1>1. PoolsInit => Inv
  BY PyInitIInv, TsInitIInv DEF PoolsInit
<1>2. Inv /\ [PoolsNext]_poolsVars => Inv'
  BY PoolsStep
<1>3. Inv => TypesOK /\ PyConserved /\ RefusedCommittedNothing /\ TsConserved
  BY DEF PyIInv, TsIInv, TypesOK
<1> HIDE DEF Inv
<1> QED BY <1>1, <1>2, <1>3, PTL DEF PoolsSpec
=============================================================================
