-------------------------- MODULE LoginLimitProofs --------------------------
(***************************************************************************)
(* The login limiters, for any number of requests, clients, instances,     *)
(* connections, attempts and ticks.  First the shared one: its types, the  *)
(* invariant that ties an unexpiring key to the request that owes it an    *)
(* EXPIRE, the bound on a burst and the implementation of FixedWindow.     *)
(* Then the local one behind the proxy, and last the handler that uses one *)
(* of the two.                                                             *)
(***************************************************************************)
EXTENDS LoginLimit, Integers, TLAPS

-----------------------------------------------------------------------------
(* The shared limiter *)

\* A missing key has no life, no age and no grants.
MissingKey(c) == count[c] = 0 => ttl[c] = 0 /\ age[c] = 0 /\ granted[c] = 0

\* The grants of a key follow its count up to the limit, the first included.
GrantsFollowCount(c) ==
  count[c] > 0 => granted[c] = IF count[c] <= ATTEMPT_LIMIT THEN count[c] ELSE ATTEMPT_LIMIT

\* A key with an end has lived, or will yet live, a whole window.
FullLife(c) == ttl[c] > 0 => ttl[c] + age[c] >= WINDOW

KeyInv == \A c \in Clients : MissingKey(c) /\ GrantsFollowCount(c) /\ FullLife(c)

\* Of the attempts that were let through lately, those of the running window are
\* its grants, and what is left of earlier windows is one window's worth at most.
RecentInv ==
  \A c \in Clients, a \in Ages :
    /\ count[c] = 0 => recent[c][a] <= ATTEMPT_LIMIT /\ recent[c][0] = 0
    /\ count[c] > 0 => /\ recent[c][a] <= ATTEMPT_LIMIT + granted[c]
                       /\ a <= age[c] => recent[c][a] <= granted[c]

IInv == TypeOK /\ OneOpener /\ KeyInv /\ RecentInv

\* A count over the last ticks, after one more event and after a tick.
LEMMA CountFacts ==
  ASSUME NEW f \in [Ages -> Nat]
  PROVE  /\ OneMore(f) \in [Ages -> Nat]
         /\ Aged(f) \in [Ages -> Nat]
         /\ \A a \in Ages : /\ OneMore(f)[a] = f[a] + 1
                            /\ Aged(f)[a] = IF a = 0 THEN 0 ELSE f[a - 1]
                            /\ a # 0 => a - 1 \in Ages
BY RedisLimiterAssumption DEF OneMore, Aged, Ages

\* INCR answers 1 to the request that found no key, and to no other.
LEMMA IncrementedFacts ==
  ASSUME NEW n \in 0 .. MaxCount
  PROVE  /\ Incremented(n) \in 1 .. MaxCount
         /\ Incremented(n) = 1 <=> n = 0
         /\ n < MaxCount => Incremented(n) = n + 1
         /\ n >= ATTEMPT_LIMIT => Incremented(n) > ATTEMPT_LIMIT
BY RedisLimiterAssumption DEF Incremented

\* What TypeOK and KeyInv say of one client, over the naturals.
Facts(c) ==
  /\ ATTEMPT_LIMIT \in Nat /\ ATTEMPT_LIMIT >= 1
  /\ MaxCount \in Nat /\ ATTEMPT_LIMIT < MaxCount
  /\ WINDOW \in Nat /\ WINDOW >= 1
  /\ count[c] \in Nat /\ count[c] <= MaxCount
  /\ ttl[c] \in Nat /\ ttl[c] <= WINDOW
  /\ age[c] \in Nat /\ age[c] <= WINDOW
  /\ granted[c] \in Nat
  /\ count[c] = 0 => ttl[c] = 0 /\ age[c] = 0 /\ granted[c] = 0
  /\ count[c] > 0 /\ count[c] <= ATTEMPT_LIMIT => granted[c] = count[c]
  /\ count[c] > ATTEMPT_LIMIT => granted[c] = ATTEMPT_LIMIT
  /\ ttl[c] > 0 => ttl[c] + age[c] >= WINDOW

LEMMA KeyFacts == ASSUME TypeOK, KeyInv, NEW c \in Clients PROVE Facts(c)
<1> USE RedisLimiterAssumption
<1>1. /\ count[c] \in 0 .. MaxCount
      /\ ttl[c] \in 0 .. WINDOW
      /\ age[c] \in 0 .. WINDOW
      /\ granted[c] \in 0 .. MaxCount
  BY DEF TypeOK
<1>2. MissingKey(c) /\ GrantsFollowCount(c) /\ FullLife(c)
  BY DEF KeyInv
<1> QED BY <1>1, <1>2 DEF Facts, MissingKey, GrantsFollowCount, FullLife

\* Every variable keeps its type: rate_limit.py:36-51.
LEMMA TypeStep == TypeOK /\ KeyInv /\ [Next]_vars => TypeOK'
<1> SUFFICES ASSUME TypeOK, KeyInv, [Next]_vars PROVE TypeOK'
  OBVIOUS
<1> USE RedisLimiterAssumption DEF TypeOK, RequestStates, Idle
<1>1. ASSUME NEW p \in Requests, NEW c \in Clients, Incr(p, c) PROVE TypeOK'
  <2> DEFINE n == Incremented(count[c])
  <2>1. /\ n \in 1 .. MaxCount
        /\ count[c] >= ATTEMPT_LIMIT => n > ATTEMPT_LIMIT
    BY IncrementedFacts
  <2>2. /\ count' = [count EXCEPT ![c] = n]
        /\ req' = [req EXCEPT ![p] = [at |-> "counted", client |-> c, n |-> n]]
        /\ granted' = [granted EXCEPT ![c] = IF Allows(n) THEN @ + 1 ELSE @]
        /\ recent' = [recent EXCEPT ![c] = IF Allows(n) THEN OneMore(@) ELSE @]
        /\ UNCHANGED <<ttl, aborts, age>>
    BY <1>1 DEF Incr, Counted
  <2> HIDE DEF n
  <2>3. count' \in [Clients -> 0 .. MaxCount] /\ req' \in [Requests -> RequestStates]
    BY <2>1, <2>2
  <2>4. Allows(n) => granted[c] + 1 \in 0 .. MaxCount
    <3>1. Facts(c)
      BY KeyFacts
    <3> QED BY <2>1, <3>1 DEF Allows, Facts
  <2>5. granted' \in [Clients -> 0 .. MaxCount]
    BY <2>2, <2>4
  <2>6. recent' \in [Clients -> [Ages -> Nat]]
    <3>1. recent[c] \in [Ages -> Nat]
      OBVIOUS
    <3>2. OneMore(recent[c]) \in [Ages -> Nat]
      BY <3>1, CountFacts
    <3> QED BY <2>2, <3>1, <3>2
  <2> QED BY <2>2, <2>3, <2>5, <2>6
<1>2. ASSUME NEW p \in Requests, Expire(p) PROVE TypeOK'
  <2>1. ttl' \in [Clients -> 0 .. WINDOW]
    BY <1>2 DEF Expire
  <2>2. req' \in [Requests -> RequestStates]
    BY <1>2 DEF Expire
  <2>3. UNCHANGED <<count, aborts, age, granted, recent>>
    BY <1>2 DEF Expire, historyVars
  <2> QED BY <2>1, <2>2, <2>3
<1>3. ASSUME NEW p \in Requests, Return(p) PROVE TypeOK'
  BY <1>3 DEF Return, keyVars, historyVars
<1>4. ASSUME NEW p \in Requests, Abort(p) PROVE TypeOK'
  BY <1>4 DEF Abort, keyVars, historyVars
<1>5. CASE Tick
  <2>1. count' \in [Clients -> 0 .. MaxCount] /\ granted' \in [Clients -> 0 .. MaxCount]
    BY <1>5 DEF Tick
  <2>2. ttl' \in [Clients -> 0 .. WINDOW]
    <3>1. ASSUME NEW n \in 0 .. WINDOW PROVE (IF n = 0 THEN 0 ELSE n - 1) \in 0 .. WINDOW
      OBVIOUS
    <3>2. ttl' = [c \in Clients |-> IF ttl[c] = 0 THEN 0 ELSE ttl[c] - 1]
      BY <1>5 DEF Tick
    <3>3. \A c \in Clients : ttl[c] \in 0 .. WINDOW
      OBVIOUS
    <3> HIDE DEF TypeOK
    <3> QED BY <3>1, <3>2, <3>3
  <2>3. age' \in [Clients -> 0 .. WINDOW]
    BY <1>5 DEF Tick
  <2>4. recent' \in [Clients -> [Ages -> Nat]]
    <3>1. ASSUME NEW c \in Clients PROVE Aged(recent[c]) \in [Ages -> Nat]
      BY CountFacts
    <3> QED BY <1>5, <3>1 DEF Tick
  <2>5. UNCHANGED <<req, aborts>>
    BY <1>5 DEF Tick
  <2> QED BY <2>1, <2>2, <2>3, <2>4, <2>5
<1>6. CASE UNCHANGED vars
  BY <1>6 DEF vars, keyVars, historyVars
<1> QED BY <1>1, <1>2, <1>3, <1>4, <1>5, <1>6 DEF Next

\* One request at most owes a key its EXPIRE, and the key has no end until then.
LEMMA OneOpenerStep == IInv /\ [Next]_vars => OneOpener'
<1> SUFFICES ASSUME IInv, [Next]_vars PROVE OneOpener'
  OBVIOUS
<1> USE RedisLimiterAssumption DEF IInv, TypeOK, OneOpener, Pending
<1>1. ASSUME NEW p \in Requests, NEW c \in Clients, Incr(p, c) PROVE OneOpener'
  <2>1. Incremented(count[c]) \in 1 .. MaxCount /\ (Incremented(count[c]) = 1 <=> count[c] = 0)
    BY IncrementedFacts
  <2> QED
    BY <1>1, <2>1 DEF Incr, Counted, Idle, KeyInv, MissingKey
<1>2. ASSUME NEW p \in Requests, Expire(p) PROVE OneOpener'
  <2> DEFINE e == req[p].client
  <2>1. Pending(p, e) /\ e \in Clients
    BY <1>2 DEF Expire, RequestStates, Idle
  <2>2. \A q \in Requests, c \in Clients : Pending(q, c)' => Pending(q, c) /\ q # p
    BY <1>2 DEF Expire, Idle
  <2>3. \A q \in Requests : Pending(q, e) => q = p
    BY <2>1
  <2>4. /\ count' = count
        /\ \A c \in Clients : c # e => ttl'[c] = ttl[c]
    BY <1>2 DEF Expire
  <2> HIDE DEF e, Pending
  <2>5. \A q \in Requests, c \in Clients : Pending(q, c)' => Pending(q, c) /\ c # e
    BY <2>2, <2>3
  <2> QED BY <2>4, <2>5
<1>3. ASSUME NEW p \in Requests, Return(p) PROVE OneOpener'
  BY <1>3 DEF Return, Idle, keyVars, historyVars
<1>4. ASSUME NEW p \in Requests, Abort(p) PROVE OneOpener'
  BY <1>4 DEF Abort, Idle, keyVars, historyVars
<1>5. CASE Tick
  BY <1>5 DEF Tick, Expires
<1>6. CASE UNCHANGED vars
  BY <1>6 DEF vars, keyVars, historyVars
<1> QED BY <1>1, <1>2, <1>3, <1>4, <1>5, <1>6 DEF Next

\* Grants never exceed the limit and no key ends before a whole window.
LEMMA KeyStep == IInv /\ [Next]_vars => KeyInv'
<1> SUFFICES ASSUME IInv, [Next]_vars, NEW d \in Clients
             PROVE  (MissingKey(d) /\ GrantsFollowCount(d) /\ FullLife(d))'
  BY DEF KeyInv
<1> USE RedisLimiterAssumption DEF IInv, TypeOK, KeyInv, MissingKey, GrantsFollowCount, FullLife
<1>1. ASSUME NEW p \in Requests, NEW c \in Clients, Incr(p, c)
      PROVE  (MissingKey(d) /\ GrantsFollowCount(d) /\ FullLife(d))'
  <2> DEFINE n == Incremented(count[c])
  <2>1. /\ n \in 1 .. MaxCount
        /\ count[c] < MaxCount => n = count[c] + 1
        /\ count[c] >= ATTEMPT_LIMIT => n > ATTEMPT_LIMIT
    BY IncrementedFacts
  <2>2. /\ count' = [count EXCEPT ![c] = n]
        /\ granted' = [granted EXCEPT ![c] = IF Allows(n) THEN @ + 1 ELSE @]
        /\ ttl' = ttl /\ age' = age
    BY <1>1 DEF Incr
  <2> HIDE DEF n
  <2>3. CASE d = c
    <3>1. /\ count'[d] = n
          /\ granted'[d] = IF Allows(n) THEN granted[d] + 1 ELSE granted[d]
          /\ ttl'[d] = ttl[d] /\ age'[d] = age[d]
      BY <2>2, <2>3
    <3>2. granted'[d] = IF n <= ATTEMPT_LIMIT THEN n ELSE ATTEMPT_LIMIT
      <4>1. Facts(d)
        BY KeyFacts
      <4> HIDE DEF IInv, TypeOK, KeyInv
      <4> QED BY <2>1, <2>3, <3>1, <4>1 DEF Allows, Facts
    <3>3. Facts(d)
      BY KeyFacts
    <3> HIDE DEF IInv, TypeOK, KeyInv
    <3> QED BY <2>1, <2>3, <3>1, <3>2, <3>3 DEF Facts
  <2>4. CASE d # c
    BY <2>2, <2>4
  <2> QED BY <2>3, <2>4
<1>2. ASSUME NEW p \in Requests, Expire(p)
      PROVE  (MissingKey(d) /\ GrantsFollowCount(d) /\ FullLife(d))'
  BY <1>2 DEF Expire, historyVars
<1>3. ASSUME NEW p \in Requests, Return(p)
      PROVE  (MissingKey(d) /\ GrantsFollowCount(d) /\ FullLife(d))'
  BY <1>3 DEF Return, keyVars, historyVars
<1>4. ASSUME NEW p \in Requests, Abort(p)
      PROVE  (MissingKey(d) /\ GrantsFollowCount(d) /\ FullLife(d))'
  BY <1>4 DEF Abort, keyVars, historyVars
<1>5. CASE Tick
  <2>1. /\ count'[d] = IF ttl[d] = 1 THEN 0 ELSE count[d]
        /\ ttl'[d] = IF ttl[d] = 0 THEN 0 ELSE ttl[d] - 1
        /\ granted'[d] = IF ttl[d] = 1 THEN 0 ELSE granted[d]
        /\ age'[d] = IF ttl[d] = 1 \/ count[d] = 0 THEN 0
                     ELSE IF age[d] < WINDOW THEN age[d] + 1 ELSE WINDOW
    BY <1>5 DEF Tick, Expires
  <2>2. Facts(d)
    BY KeyFacts
  <2> QED BY <2>1, <2>2 DEF Facts
<1>6. CASE UNCHANGED vars
  BY <1>6 DEF vars, keyVars, historyVars
<1> QED BY <1>1, <1>2, <1>3, <1>4, <1>5, <1>6 DEF Next

\* What is let through in any WINDOW ticks belongs to two windows at most: a key
\* that ends has lived WINDOW ticks, so what came before it is out of sight.
LEMMA RecentStep == IInv /\ [Next]_vars => RecentInv'
<1> SUFFICES ASSUME IInv, [Next]_vars, NEW d \in Clients, NEW b \in Ages
             PROVE  /\ count'[d] = 0 => recent'[d][b] <= ATTEMPT_LIMIT /\ recent'[d][0] = 0
                    /\ count'[d] > 0 => /\ recent'[d][b] <= ATTEMPT_LIMIT + granted'[d]
                                        /\ b <= age'[d] => recent'[d][b] <= granted'[d]
  BY DEF RecentInv
<1> DEFINE RecentOf(cnt, ag, gr, r) ==
             /\ cnt = 0 => r[b] <= ATTEMPT_LIMIT /\ r[0] = 0
             /\ cnt > 0 => /\ r[b] <= ATTEMPT_LIMIT + gr
                           /\ b <= ag => r[b] <= gr
           f == recent[d]
<1>1. /\ Facts(d)
      /\ f \in [Ages -> Nat]
      /\ 0 \in Ages /\ b \in Nat
      /\ \A a \in Ages : f[a] \in Nat
  <2>1. Facts(d)
    BY KeyFacts DEF IInv
  <2>2. f \in [Ages -> Nat]
    BY DEF IInv, TypeOK
  <2>3. 0 \in Ages /\ b \in Nat
    BY RedisLimiterAssumption DEF Ages
  <2> HIDE DEF f
  <2> QED BY <2>1, <2>2, <2>3
<1>2. \A a \in Ages : /\ count[d] = 0 => f[a] <= ATTEMPT_LIMIT /\ f[0] = 0
                      /\ count[d] > 0 => /\ f[a] <= ATTEMPT_LIMIT + granted[d]
                                         /\ a <= age[d] => f[a] <= granted[d]
  BY DEF IInv, RecentInv
<1>3. SUFFICES RecentOf(count'[d], age'[d], granted'[d], recent'[d])
  OBVIOUS
<1>4. RecentOf(count[d], age[d], granted[d], f)
  BY <1>2
<1>5. ASSUME NEW p \in Requests, NEW c \in Clients, Incr(p, c)
      PROVE  RecentOf(count'[d], age'[d], granted'[d], recent'[d])
  <2> DEFINE n == Incremented(count[c])
  <2>1. /\ n \in 1 .. MaxCount
        /\ count[c] < MaxCount => n = count[c] + 1
        /\ count[c] >= ATTEMPT_LIMIT => n > ATTEMPT_LIMIT
    BY IncrementedFacts DEF IInv, TypeOK
  <2>2. /\ count' = [count EXCEPT ![c] = n]
        /\ granted' = [granted EXCEPT ![c] = IF Allows(n) THEN @ + 1 ELSE @]
        /\ recent' = [recent EXCEPT ![c] = IF Allows(n) THEN OneMore(@) ELSE @]
        /\ ttl' = ttl /\ age' = age
    BY <1>5 DEF Incr
  <2> HIDE DEF n
  <2>3. CASE d # c
    BY <1>4, <2>2, <2>3 DEF IInv, TypeOK
  <2>4. CASE d = c
    <3>1. /\ count'[d] = n
          /\ granted'[d] = IF Allows(n) THEN granted[d] + 1 ELSE granted[d]
          /\ recent'[d] = IF Allows(n) THEN OneMore(f) ELSE f
          /\ age'[d] = age[d]
      BY <2>2, <2>4 DEF IInv, TypeOK
    <3>2. \A a \in Ages : OneMore(f)[a] = f[a] + 1
      BY <1>1, CountFacts
    <3>3. count[d] = 0 => n = 1 /\ age[d] = 0 /\ granted[d] = 0 /\ f[0] = 0
      BY <1>1, <1>2, <2>1, <2>4 DEF Facts
    <3>4. f[b] <= ATTEMPT_LIMIT + granted[d] /\ (b <= age[d] => f[b] <= granted[d])
      BY <1>1, <1>2, <3>3 DEF Facts
    <3>5. recent'[d][b] = IF Allows(n) THEN f[b] + 1 ELSE f[b]
      BY <3>1, <3>2
    <3> HIDE DEF f
    <3> QED BY <1>1, <2>1, <3>1, <3>4, <3>5 DEF Facts
  <2> QED BY <2>3, <2>4
<1>6. ASSUME NEW p \in Requests, Expire(p)
      PROVE  RecentOf(count'[d], age'[d], granted'[d], recent'[d])
  BY <1>4, <1>6 DEF Expire, historyVars
<1>7. ASSUME NEW p \in Requests, Return(p)
      PROVE  RecentOf(count'[d], age'[d], granted'[d], recent'[d])
  BY <1>4, <1>7 DEF Return, keyVars, historyVars
<1>8. ASSUME NEW p \in Requests, Abort(p)
      PROVE  RecentOf(count'[d], age'[d], granted'[d], recent'[d])
  BY <1>4, <1>8 DEF Abort, keyVars, historyVars
<1>9. CASE Tick
  <2>1. /\ count'[d] = IF ttl[d] = 1 THEN 0 ELSE count[d]
        /\ granted'[d] = IF ttl[d] = 1 THEN 0 ELSE granted[d]
        /\ age'[d] = IF ttl[d] = 1 \/ count[d] = 0 THEN 0
                     ELSE IF age[d] < WINDOW THEN age[d] + 1 ELSE WINDOW
        /\ recent'[d] = Aged(f)
    BY <1>9 DEF Tick, Expires
  <2>2. \A a \in Ages : Aged(f)[a] = (IF a = 0 THEN 0 ELSE f[a - 1]) /\ (a # 0 => a - 1 \in Ages)
    BY <1>1, CountFacts
  <2>3. recent'[d][0] = 0 /\ (b = 0 => recent'[d][b] = 0)
    BY <1>1, <2>1, <2>2
  <2>4. CASE b = 0
    BY <1>1, <2>1, <2>3, <2>4 DEF Facts
  <2>5. CASE b # 0
    <3>1. recent'[d][b] = f[b - 1] /\ f[b - 1] \in Nat /\ b - 1 \in Ages /\ b < WINDOW
      BY <1>1, <2>1, <2>2, <2>5, RedisLimiterAssumption DEF Ages
    <3>2. /\ count[d] = 0 => f[b - 1] <= ATTEMPT_LIMIT
          /\ count[d] > 0 => /\ f[b - 1] <= ATTEMPT_LIMIT + granted[d]
                             /\ b - 1 <= age[d] => f[b - 1] <= granted[d]
      BY <1>2, <3>1
    <3>3. granted[d] <= ATTEMPT_LIMIT
      BY <1>1 DEF Facts
    <3> HIDE DEF f
    <3> QED BY <1>1, <2>1, <2>3, <3>1, <3>2, <3>3 DEF Facts
  <2> QED BY <2>4, <2>5
<1>10. CASE UNCHANGED vars
  BY <1>4, <1>10 DEF vars, keyVars, historyVars
<1> QED BY <1>5, <1>6, <1>7, <1>8, <1>9, <1>10 DEF Next

LEMMA InitIInv == Init => IInv
<1> SUFFICES ASSUME Init PROVE IInv
  OBVIOUS
<1> USE RedisLimiterAssumption DEF Init, Idle
<1>1. TypeOK
  BY DEF TypeOK, RequestStates
<1>2. OneOpener
  BY DEF OneOpener, Pending
<1>3. KeyInv
  BY DEF KeyInv, MissingKey, GrantsFollowCount, FullLife
<1>4. RecentInv
  BY DEF RecentInv, Ages
<1> QED BY <1>1, <1>2, <1>3, <1>4 DEF IInv

\* The inductive invariant holds in every reachable state.
THEOREM Invariance == Spec => []IInv
<1>1. IInv /\ [Next]_vars => IInv'
  BY TypeStep, OneOpenerStep, KeyStep, RecentStep DEF IInv
<1> QED BY InitIInv, <1>1, PTL DEF Spec

\* Every variable keeps its type.
THEOREM TypeCorrect == Spec => []TypeOK
<1>1. IInv => TypeOK
  BY DEF IInv
<1> QED BY Invariance, <1>1, PTL

\* rate_limit.py:44-46: a key without an end has exactly one request that is
\* about to set it, whatever the interleaving of the instances.
THEOREM OpenerIsUnique == Spec => []OneOpener
<1>1. IInv => OneOpener
  BY DEF IInv
<1> QED BY Invariance, <1>1, PTL

\* rate_limit.py:40-46, "a fixed window": whatever WINDOW ticks one looks at, they
\* meet two windows at most, so two windows' worth of attempts is let through.
THEOREM BurstIsBounded == Spec => []BurstBound
<1>1. IInv => BurstBound
  <2> SUFFICES ASSUME IInv, NEW c \in Clients PROVE recent[c][WINDOW - 1] <= 2 * ATTEMPT_LIMIT
    BY DEF BurstBound
  <2>1. Facts(c)
    BY KeyFacts DEF IInv
  <2>2. WINDOW - 1 \in Ages
    BY RedisLimiterAssumption DEF Ages
  <2>3. recent[c][WINDOW - 1] \in Nat
    BY <2>2 DEF IInv, TypeOK
  <2>4. /\ count[c] = 0 => recent[c][WINDOW - 1] <= ATTEMPT_LIMIT
        /\ count[c] > 0 => recent[c][WINDOW - 1] <= ATTEMPT_LIMIT + granted[c]
    BY <2>2 DEF IInv, RecentInv
  <2> QED BY <2>1, <2>3, <2>4 DEF Facts
<1> QED BY Invariance, <1>1, PTL

\* rate_limit.py:44-46: no request prolongs a window once its life is set.
THEOREM NeverRestarts == Spec => WindowNeverRestarts
<1>1. IInv /\ [Next]_vars => [\A c \in Clients : ttl[c] > 0 => ttl'[c] <= ttl[c]]_vars
  <2> SUFFICES ASSUME IInv, Next, NEW c \in Clients, ttl[c] > 0
               PROVE  ttl'[c] <= ttl[c]
    BY DEF vars
  <2> USE RedisLimiterAssumption DEF IInv, TypeOK
  <2>1. ASSUME NEW p \in Requests, NEW d \in Clients, Incr(p, d) PROVE ttl'[c] <= ttl[c]
    BY <2>1 DEF Incr
  <2>2. ASSUME NEW p \in Requests, Expire(p) PROVE ttl'[c] <= ttl[c]
    <3>1. req[p].client # c
      BY <2>2 DEF Expire, OneOpener, Pending
    <3> QED BY <2>2, <3>1 DEF Expire
  <2>3. ASSUME NEW p \in Requests, Return(p) PROVE ttl'[c] <= ttl[c]
    BY <2>3 DEF Return, keyVars
  <2>4. ASSUME NEW p \in Requests, Abort(p) PROVE ttl'[c] <= ttl[c]
    BY <2>4 DEF Abort, keyVars
  <2>5. CASE Tick
    BY <2>5 DEF Tick
  <2> QED BY <2>1, <2>2, <2>3, <2>4, <2>5 DEF Next
<1> QED BY Invariance, <1>1, PTL DEF Spec, WindowNeverRestarts

\* Every step of the shared counter is a step of each client's window, or none:
\* at most ATTEMPT_LIMIT grants in a window, no window shorter than WINDOW.
LEMMA WindowStepLemma ==
  ASSUME IInv, [Next]_vars, NEW c \in Clients
  PROVE  WindowStep(c)
<1> USE RedisLimiterAssumption DEF IInv, TypeOK, WindowStep
<1>1. ASSUME NEW p \in Requests, NEW d \in Clients, Incr(p, d) PROVE WindowStep(c)
  <2> DEFINE n == Incremented(count[d])
  <2>1. /\ n \in 1 .. MaxCount
        /\ n = 1 <=> count[d] = 0
        /\ count[d] < MaxCount => n = count[d] + 1
        /\ count[d] >= ATTEMPT_LIMIT => n > ATTEMPT_LIMIT
    BY IncrementedFacts
  <2>2. /\ count' = [count EXCEPT ![d] = n]
        /\ granted' = [granted EXCEPT ![d] = IF Allows(n) THEN @ + 1 ELSE @]
        /\ ttl' = ttl /\ age' = age
    BY <1>1 DEF Incr
  <2> HIDE DEF n
  <2>3. CASE d # c
    BY <2>2, <2>3
  <2>4. CASE d = c /\ count[c] = 0
    <3>1. Window(c)!Open
      BY <2>1, <2>2, <2>4 DEF Window!Open, Allows, KeyInv, MissingKey
    <3> QED BY <3>1 DEF Window!FWNext
  <2>5. CASE d = c /\ count[c] > 0 /\ Allows(n)
    <3>1. Window(c)!Grant
      BY <2>1, <2>2, <2>5 DEF Window!Grant, Allows, KeyInv, GrantsFollowCount
    <3> QED BY <3>1 DEF Window!FWNext
  <2>6. CASE d = c /\ count[c] > 0 /\ ~Allows(n)
    BY <2>1, <2>2, <2>6
  <2> QED BY <2>3, <2>4, <2>5, <2>6
<1>2. ASSUME NEW p \in Requests, Expire(p) PROVE WindowStep(c)
  BY <1>2 DEF Expire, historyVars
<1>3. ASSUME NEW p \in Requests, Return(p) PROVE WindowStep(c)
  BY <1>3 DEF Return, keyVars, historyVars
<1>4. ASSUME NEW p \in Requests, Abort(p) PROVE WindowStep(c)
  BY <1>4 DEF Abort, keyVars, historyVars
<1>5. CASE Tick
  <2>1. CASE count[c] = 0
    BY <1>5, <2>1 DEF Tick, Expires, KeyInv, MissingKey
  <2>2. CASE count[c] > 0 /\ Expires(c)
    <3>1. count'[c] = 0 /\ age'[c] = 0 /\ granted'[c] = 0
      BY <1>5, <2>2 DEF Tick
    <3>2. ttl[c] = 1 /\ age[c] + 1 >= WINDOW
      <4>1. Facts(c)
        BY KeyFacts
      <4> QED BY <2>2, <4>1 DEF Expires, Facts
    <3>3. Window(c)!Close
      BY <2>2, <3>1, <3>2 DEF Window!Close
    <3> QED BY <3>3 DEF Window!FWNext
  <2>3. CASE count[c] > 0 /\ ~Expires(c) /\ age[c] < WINDOW
    <3>1. Window(c)!Age
      BY <1>5, <2>3 DEF Tick, Expires, Window!Age
    <3> QED BY <3>1 DEF Window!FWNext
  <2>4. CASE count[c] > 0 /\ ~Expires(c) /\ age[c] = WINDOW
    BY <1>5, <2>4 DEF Tick, Expires
  <2>5. Facts(c)
    BY KeyFacts
  <2> HIDE DEF IInv, TypeOK
  <2> QED BY <2>1, <2>2, <2>3, <2>4, <2>5 DEF Facts
<1>6. CASE UNCHANGED vars
  BY <1>6 DEF vars, keyVars, historyVars
<1> QED BY <1>1, <1>2, <1>3, <1>4, <1>5, <1>6 DEF Next

\* The limiter every instance shares keeps the promise of FixedWindow to every
\* client, aborted requests included.
THEOREM Implementation == Spec => ImplementsFixedWindow
<1>1. Init => \A c \in Clients : Window(c)!FWInit
  BY DEF Init, Window!FWInit
<1>2. IInv /\ [Next]_vars => [\A c \in Clients : WindowStep(c)]_vars
  BY WindowStepLemma
<1> QED BY Invariance, <1>1, <1>2, PTL DEF Spec, ImplementsFixedWindow

-----------------------------------------------------------------------------
(* The local limiter *)

\* An instance that remembers an attempt remembers it for all longer windows.
AttemptsGrow ==
  \A i \in Instances, a, b \in Ages : a <= b => attempts[i][a] <= attempts[i][b]

StartedInv == \A a \in Ages : started[a] <= restarts

\* A ledger for the last ticks: credit[k] is what the first k instances may still
\* allow.  It never shrinks with k; an instance that runs has at least what its
\* dict leaves of ATTEMPT_LIMIT; and with what has been allowed, all the credit
\* is ATTEMPT_LIMIT for each instance and each restart.
Balanced(credit, a) ==
  /\ credit \in [0 .. BACKENDS -> Nat]
  /\ \A j, k \in 0 .. BACKENDS : j <= k => credit[j] <= credit[k]
  /\ \A i \in up : credit[i] + ATTEMPT_LIMIT <= credit[i + 1] + attempts[i][a]
  /\ allowed[a] + credit[BACKENDS] <= ATTEMPT_LIMIT * (BACKENDS + started[a])

CreditInv == \A a \in Ages : \E credit : Balanced(credit, a)

LocalIInv == LocalTypeOK /\ AttemptsGrow /\ StartedInv /\ CreditInv

\* The last entry of a count, and the constants as numbers.
LEMMA LocalConstants ==
  /\ ATTEMPT_LIMIT \in Nat /\ WINDOW \in Nat /\ MaxCount \in Nat
  /\ BACKENDS \in Nat /\ BACKENDS >= 1 /\ MaxRestarts \in Nat
  /\ WINDOW - 1 \in Ages /\ 0 \in Ages
  /\ \A a \in Ages : a \in Nat /\ a <= WINDOW - 1 /\ (a # 0 => a - 1 \in Ages)
  /\ 0 \in Instances
  /\ \A i \in Instances : i \in Nat /\ i \in 0 .. BACKENDS /\ i + 1 \in 0 .. BACKENDS
  /\ Unpicked \notin Instances
BY RedisLimiterAssumption, LocalLimiterAssumption DEF Ages, Instances, Unpicked

\* Counts that are bounded stay so when time passes, and when there is room.
LEMMA BoundedCounts ==
  ASSUME NEW N \in Nat, NEW f \in [Ages -> 0 .. N]
  PROVE  /\ Aged(f) \in [Ages -> 0 .. N]
         /\ \A a \in Ages : Aged(f)[a] = IF a = 0 THEN 0 ELSE f[a - 1]
         /\ \A a \in Ages : OneMore(f)[a] = f[a] + 1
         /\ (\A a \in Ages : f[a] < N) => OneMore(f) \in [Ages -> 0 .. N]
<1>1. \A a \in Ages : f[a] \in Nat /\ f[a] <= N /\ (a # 0 => f[a - 1] \in 0 .. N)
  BY LocalConstants
<1> QED BY <1>1 DEF Aged, OneMore

\* Multiples of a limit.
LEMMA Multiples ==
  ASSUME NEW m \in Nat, NEW n \in Nat
  PROVE  m * n \in Nat /\ m * (n + 1) = m * n + m
OBVIOUS

\* Where nothing has been allowed, each instance has ATTEMPT_LIMIT left.
LEMMA FullLedger ==
  /\ [k \in 0 .. BACKENDS |-> ATTEMPT_LIMIT * k] \in [0 .. BACKENDS -> Nat]
  /\ \A k \in 0 .. BACKENDS : ATTEMPT_LIMIT * k \in Nat
  /\ \A j, k \in 0 .. BACKENDS : j <= k => ATTEMPT_LIMIT * j <= ATTEMPT_LIMIT * k
  /\ \A i \in Instances : ATTEMPT_LIMIT * i + ATTEMPT_LIMIT = ATTEMPT_LIMIT * (i + 1)
BY LocalConstants

LEMMA LocalTypeStep == LocalIInv /\ [LocalNext]_localVars => LocalTypeOK'
<1> SUFFICES ASSUME LocalIInv, [LocalNext]_localVars PROVE LocalTypeOK'
  OBVIOUS
<1> USE LocalConstants DEF LocalIInv, LocalTypeOK
<1>1. ASSUME NEW c \in Connections, Pick(c) PROVE LocalTypeOK'
  <2>1. (turn + 1) % BACKENDS \in Instances
    BY LocalLimiterAssumption DEF Instances
  <2> QED BY <1>1, <2>1 DEF Pick
<1>2. ASSUME NEW c \in Connections, Refuse(c) PROVE LocalTypeOK'
  BY <1>2 DEF Refuse
<1>3. ASSUME NEW c \in Connections, Hangup(c) PROVE LocalTypeOK'
  BY <1>3 DEF Hangup
<1>4. ASSUME NEW c \in Connections, Attempt(c) PROVE LocalTypeOK'
  <2> DEFINE i == conn[c]
             f == attempts[i]
  <2>1. /\ i \in Instances
        /\ f \in [Ages -> 0 .. MaxCount]
        /\ f[WINDOW - 1] + 1 <= MaxCount
        /\ attempts' = [attempts EXCEPT ![i] = OneMore(f)]
        /\ allowed' \in {allowed, OneMore(allowed)}
        /\ UNCHANGED <<up, turn, conn, restarts, started>>
    BY <1>4 DEF Attempt, Kept, proxyVars
  <2>2. \A a \in Ages : f[a] \in 0 .. MaxCount /\ f[a] <= f[WINDOW - 1]
    BY <2>1 DEF AttemptsGrow
  <2>3. OneMore(f) \in [Ages -> 0 .. MaxCount]
    <3> HIDE DEF f
    <3>1. \A a \in Ages : f[a] < MaxCount
      BY <2>1, <2>2
    <3> QED BY <2>1, <3>1, BoundedCounts
  <2>4. OneMore(allowed) \in [Ages -> Nat]
    BY CountFacts
  <2> HIDE DEF f, i
  <2> QED BY <2>1, <2>3, <2>4
<1>5. ASSUME NEW i \in Instances, Stop(i) PROVE LocalTypeOK'
  BY <1>5 DEF Stop, None
<1>6. ASSUME NEW i \in Instances, Restart(i) PROVE LocalTypeOK'
  <2>1. \A a \in Ages : started[a] < MaxRestarts
    BY <1>6 DEF Restart, StartedInv
  <2>2. OneMore(started) \in [Ages -> 0 .. MaxRestarts]
    BY <2>1, BoundedCounts
  <2>3. restarts + 1 \in 0 .. MaxRestarts
    BY <1>6 DEF Restart
  <2> QED BY <1>6, <2>2, <2>3 DEF Restart, proxyVars
<1>7. CASE LocalTick
  <2>1. \A i \in Instances : Aged(attempts[i]) \in [Ages -> 0 .. MaxCount]
    BY BoundedCounts
  <2>2. Aged(started) \in [Ages -> 0 .. MaxRestarts]
    BY BoundedCounts
  <2>3. Aged(allowed) \in [Ages -> Nat]
    BY CountFacts
  <2> QED BY <1>7, <2>1, <2>2, <2>3 DEF LocalTick, proxyVars
<1>8. CASE UNCHANGED localVars
  BY <1>8 DEF localVars, proxyVars
<1> QED BY <1>1, <1>2, <1>3, <1>4, <1>5, <1>6, <1>7, <1>8 DEF LocalNext

\* Counts that grow with the age they reach still do after an attempt, a stop and
\* a tick; and no more instances have been started lately than in all.
LEMMA CountsStep == LocalIInv /\ [LocalNext]_localVars => AttemptsGrow' /\ StartedInv'
<1> SUFFICES ASSUME LocalIInv, [LocalNext]_localVars PROVE AttemptsGrow' /\ StartedInv'
  OBVIOUS
<1> USE LocalConstants DEF LocalIInv, LocalTypeOK, AttemptsGrow, StartedInv
<1>1. CASE UNCHANGED <<attempts, restarts, started>>
  BY <1>1
<1>2. ASSUME NEW c \in Connections, Attempt(c) PROVE AttemptsGrow' /\ StartedInv'
  <2> DEFINE i == conn[c]
             f == attempts[i]
  <2>1. /\ i \in Instances
        /\ f \in [Ages -> 0 .. MaxCount]
        /\ attempts' = [attempts EXCEPT ![i] = OneMore(f)]
        /\ UNCHANGED <<restarts, started>>
    BY <1>2 DEF Attempt, proxyVars
  <2>2. \A a \in Ages : OneMore(f)[a] = f[a] + 1
    BY <2>1, BoundedCounts
  <2>3. \A a, b \in Ages : a <= b => OneMore(f)[a] <= OneMore(f)[b]
    BY <2>1, <2>2
  <2> HIDE DEF f, i
  <2> QED BY <2>1, <2>3
<1>3. ASSUME NEW i \in Instances, Stop(i) PROVE AttemptsGrow' /\ StartedInv'
  BY <1>3 DEF Stop, None
<1>4. ASSUME NEW i \in Instances, Restart(i) PROVE AttemptsGrow' /\ StartedInv'
  <2>1. \A a \in Ages : OneMore(started)[a] = started[a] + 1
    BY BoundedCounts
  <2> QED BY <1>4, <2>1 DEF Restart
<1>5. CASE LocalTick
  <2>1. \A i \in Instances, a \in Ages :
          Aged(attempts[i])[a] = IF a = 0 THEN 0 ELSE attempts[i][a - 1]
    BY BoundedCounts
  <2>2. \A a \in Ages : Aged(started)[a] = IF a = 0 THEN 0 ELSE started[a - 1]
    BY BoundedCounts
  <2>3. AttemptsGrow'
    <3> SUFFICES ASSUME NEW i \in Instances, NEW a \in Ages, NEW b \in Ages, a <= b
                 PROVE  Aged(attempts[i])[a] <= Aged(attempts[i])[b]
      BY <1>5 DEF LocalTick
    <3>1. CASE a = 0
      BY <2>1, <3>1
    <3>2. CASE a # 0
      <4>1. a - 1 \in Ages /\ b - 1 \in Ages /\ a - 1 <= b - 1 /\ b # 0
        BY <3>2
      <4> QED BY <2>1, <3>2, <4>1
    <3> QED BY <3>1, <3>2
  <2>4. StartedInv'
    BY <1>5, <2>2 DEF LocalTick
  <2> QED BY <2>3, <2>4
<1> QED
  BY <1>1, <1>2, <1>3, <1>4, <1>5
  DEF LocalNext, localVars, Pick, Refuse, Hangup, proxyVars

\* A ledger in which instance i has d more to allow than before.
Shifted(credit, i, d) ==
  [k \in 0 .. BACKENDS |-> IF k <= i THEN credit[k] ELSE credit[k] + d]

IsShifted(new, credit, i, d) ==
  /\ new \in [0 .. BACKENDS -> Nat]
  /\ \A j, k \in 0 .. BACKENDS : j <= k => new[j] <= new[k]
  /\ \A j \in Instances :
       new[j + 1] - new[j] = credit[j + 1] - credit[j] + (IF j = i THEN d ELSE 0)
  /\ new[BACKENDS] = credit[BACKENDS] + d

LEMMA ShiftedLedger ==
  ASSUME NEW credit \in [0 .. BACKENDS -> Nat],
         \A j, k \in 0 .. BACKENDS : j <= k => credit[j] <= credit[k],
         NEW i \in Instances, NEW d \in Int, credit[i] <= credit[i + 1] + d
  PROVE  IsShifted(Shifted(credit, i, d), credit, i, d)
<1> USE LocalConstants
<1> DEFINE new == Shifted(credit, i, d)
<1>1. /\ \A k \in 0 .. BACKENDS : credit[k] \in Nat /\ k \in Nat
      /\ i \in Nat /\ i \in 0 .. BACKENDS /\ i + 1 \in 0 .. BACKENDS
  OBVIOUS
<1>2. \A k \in 0 .. BACKENDS : new[k] = IF k <= i THEN credit[k] ELSE credit[k] + d
  BY DEF Shifted
<1>3. \A k \in 0 .. BACKENDS : k > i => credit[i] <= credit[k] + d
  <2> SUFFICES ASSUME NEW k \in 0 .. BACKENDS, k > i PROVE credit[i] <= credit[k] + d
    OBVIOUS
  <2>1. i + 1 <= k
    BY <1>1
  <2>2. credit[i + 1] <= credit[k]
    BY <1>1, <2>1
  <2> QED BY <1>1, <2>2
<1>4. \A k \in 0 .. BACKENDS : new[k] \in Nat
  BY <1>1, <1>2, <1>3
<1>5. new \in [0 .. BACKENDS -> Nat]
  BY <1>4 DEF Shifted
<1>6. ASSUME NEW j \in 0 .. BACKENDS, NEW k \in 0 .. BACKENDS, j <= k PROVE new[j] <= new[k]
  <2>1. credit[j] <= credit[k] /\ (j <= i => credit[j] <= credit[i])
    BY <1>1, <1>6
  <2> QED BY <1>1, <1>2, <1>3, <1>6, <2>1
<1>7. ASSUME NEW j \in Instances
      PROVE  new[j + 1] - new[j] = credit[j + 1] - credit[j] + (IF j = i THEN d ELSE 0)
  <2>1. /\ new[j] = IF j <= i THEN credit[j] ELSE credit[j] + d
        /\ new[j + 1] = IF j + 1 <= i THEN credit[j + 1] ELSE credit[j + 1] + d
        /\ credit[j] \in Nat /\ credit[j + 1] \in Nat /\ j \in Nat
    BY <1>1, <1>2
  <2> QED BY <1>1, <2>1
<1>8. new[BACKENDS] = credit[BACKENDS] + d
  BY <1>2 DEF Instances
<1> HIDE DEF new
<1>9. IsShifted(new, credit, i, d)
  BY <1>5, <1>6, <1>7, <1>8 DEF IsShifted
<1> QED BY <1>9 DEF new

\* The ledger stays balanced: an attempt that is allowed is paid from its
\* instance's credit, a restart brings ATTEMPT_LIMIT more, a tick forgets.
LEMMA CreditStep == LocalIInv /\ [LocalNext]_localVars => CreditInv'
<1> SUFFICES ASSUME LocalIInv, [LocalNext]_localVars, NEW a \in Ages
             PROVE  \E credit : Balanced(credit, a)'
  BY DEF CreditInv
<1> USE LocalConstants
<1> DEFINE L == ATTEMPT_LIMIT
<1>a. PICK credit : Balanced(credit, a)
  BY DEF LocalIInv, CreditInv
<1>b. /\ up \subseteq Instances
      /\ conn \in [Connections -> Instances \cup {Unpicked}]
      /\ attempts \in [Instances -> [Ages -> 0 .. MaxCount]]
      /\ started \in [Ages -> 0 .. MaxRestarts]
      /\ allowed \in [Ages -> Nat]
      /\ AttemptsGrow
  BY DEF LocalIInv, LocalTypeOK
<1>c. /\ allowed[a] \in Nat /\ started[a] \in Nat
      /\ \A i \in Instances : attempts[i][a] \in Nat
  BY <1>b
<1>d. /\ credit \in [0 .. BACKENDS -> Nat]
      /\ \A j, k \in 0 .. BACKENDS : j <= k => credit[j] <= credit[k]
      /\ \A i \in up : credit[i] + L <= credit[i + 1] + attempts[i][a]
      /\ allowed[a] + credit[BACKENDS] <= L * (BACKENDS + started[a])
  BY <1>a DEF Balanced
<1>e. \A i \in Instances : credit[i] \in Nat /\ credit[i + 1] \in Nat /\ credit[i] <= credit[i + 1]
  BY <1>d
<1>1. CASE UNCHANGED <<attempts, started, allowed>> /\ up' \subseteq up
  <2>1. Balanced(credit, a)'
    BY <1>a, <1>1 DEF Balanced
  <2> QED BY <2>1
<1>2. ASSUME NEW c \in Connections, Attempt(c) PROVE \E cr : Balanced(cr, a)'
  <2>0. PICK i \in up :
          /\ i \in Instances
          /\ attempts' = [attempts EXCEPT ![i] = OneMore(@)]
          /\ allowed' = IF Allows(attempts[i][WINDOW - 1] + 1) THEN OneMore(allowed) ELSE allowed
          /\ UNCHANGED <<up, started>>
    BY <1>2, <1>b DEF Attempt, Kept
  <2> DEFINE n == attempts[i][WINDOW - 1] + 1
  <2>1. /\ OneMore(attempts[i])[a] = attempts[i][a] + 1
        /\ OneMore(allowed)[a] = allowed[a] + 1
    BY <1>b, BoundedCounts, CountFacts
  <2>2. attempts[i][a] \in Nat /\ n \in Nat /\ attempts[i][a] + 1 <= n
    BY <1>b DEF AttemptsGrow
  <2>3. \A j \in up : attempts'[j][a] = IF j = i THEN attempts[j][a] + 1 ELSE attempts[j][a]
    BY <1>b, <2>0, <2>1
  <2>4. CASE Allows(n)
    <3> DEFINE paid == Shifted(credit, i, -1)
    <3>1. credit[i] <= credit[i + 1] + (-1)
      <4>1. attempts[i][a] + 1 <= L
        BY <2>2, <2>4 DEF Allows
      <4>2. credit[i] + L <= credit[i + 1] + attempts[i][a]
        BY <1>d
      <4> HIDE DEF n
      <4> QED BY <1>c, <1>e, <2>0, <4>1, <4>2
    <3>2. /\ paid \in [0 .. BACKENDS -> Nat]
          /\ \A j, k \in 0 .. BACKENDS : j <= k => paid[j] <= paid[k]
          /\ \A j \in Instances :
               paid[j + 1] - paid[j] = credit[j + 1] - credit[j] + (IF j = i THEN -1 ELSE 0)
          /\ paid[BACKENDS] = credit[BACKENDS] + (-1)
      <4>1. -1 \in Int /\ i \in Instances
        BY <2>0
      <4>2. IsShifted(paid, credit, i, -1)
        BY <1>d, <3>1, <4>1, ShiftedLedger, Zenon
      <4> HIDE DEF paid
      <4> QED BY <4>2 DEF IsShifted
    <3> HIDE DEF paid
    <3>3. ASSUME NEW j \in up PROVE paid[j] + L <= paid[j + 1] + attempts'[j][a]
      <4>1. j \in Instances /\ attempts[j][a] \in Nat
        BY <1>b, <1>c
      <4>2. /\ paid[j] \in Nat /\ paid[j + 1] \in Nat
            /\ paid[j + 1] - paid[j] = credit[j + 1] - credit[j] + (IF j = i THEN -1 ELSE 0)
            /\ credit[j] \in Nat /\ credit[j + 1] \in Nat
        BY <1>e, <3>2, <4>1
      <4>3. /\ credit[j] + L <= credit[j + 1] + attempts[j][a]
            /\ attempts'[j][a] = IF j = i THEN attempts[j][a] + 1 ELSE attempts[j][a]
        BY <1>d, <2>3
      <4> QED BY <4>1, <4>2, <4>3
    <3>4. allowed'[a] + paid[BACKENDS] <= L * (BACKENDS + started'[a])
      <4>1. credit[BACKENDS] \in Nat
        BY <1>d
      <4>2. allowed'[a] = allowed[a] + 1 /\ started' = started
        BY <2>0, <2>1, <2>4
      <4>3. paid[BACKENDS] = credit[BACKENDS] - 1
        BY <3>2, <4>1
      <4>4. allowed'[a] + paid[BACKENDS] = allowed[a] + credit[BACKENDS]
        BY <1>c, <4>1, <4>2, <4>3
      <4> QED BY <1>d, <4>2, <4>4
    <3>5. Balanced(paid, a)'
      BY <2>0, <3>2, <3>3, <3>4 DEF Balanced
    <3> QED BY <3>5
  <2>5. CASE ~Allows(n)
    <3>1. ASSUME NEW j \in up PROVE credit[j] + L <= credit[j + 1] + attempts'[j][a]
      <4>1. j \in Instances /\ credit[j] + L <= credit[j + 1] + attempts[j][a]
        BY <1>b, <1>d
      <4>2. /\ attempts[j][a] \in Nat /\ attempts'[j][a] >= attempts[j][a]
            /\ attempts'[j][a] \in Nat
        BY <1>c, <2>3, <4>1
      <4> QED BY <1>e, <4>1, <4>2
    <3>2. Balanced(credit, a)'
      BY <1>d, <2>0, <2>5, <3>1 DEF Balanced
    <3> QED BY <3>2
  <2> QED BY <2>4, <2>5
<1>3. ASSUME NEW i \in Instances, Stop(i) PROVE \E cr : Balanced(cr, a)'
  <2>1. /\ up' = up \ {i}
        /\ UNCHANGED <<started, allowed>>
        /\ \A j \in up' : attempts'[j] = attempts[j]
    BY <1>3, <1>b DEF Stop
  <2>2. Balanced(credit, a)'
    BY <1>d, <2>1 DEF Balanced
  <2> QED BY <2>2
<1>4. ASSUME NEW i \in Instances, Restart(i) PROVE \E cr : Balanced(cr, a)'
  <2> DEFINE earned == Shifted(credit, i, L)
  <2>1. /\ up' = up \cup {i}
        /\ UNCHANGED <<attempts, allowed>>
        /\ started'[a] = started[a] + 1
    BY <1>4, <1>b, BoundedCounts DEF Restart
  <2>2. credit[i] <= credit[i + 1] + L
    BY <1>e
  <2>3. /\ earned \in [0 .. BACKENDS -> Nat]
        /\ \A j, k \in 0 .. BACKENDS : j <= k => earned[j] <= earned[k]
        /\ \A j \in Instances :
             earned[j + 1] - earned[j] = credit[j + 1] - credit[j] + (IF j = i THEN L ELSE 0)
        /\ earned[BACKENDS] = credit[BACKENDS] + L
    <3>1. L \in Int
      OBVIOUS
    <3>2. IsShifted(earned, credit, i, L)
      BY <1>d, <2>2, <3>1, ShiftedLedger, Zenon
    <3> HIDE DEF earned
    <3> QED BY <3>2 DEF IsShifted
  <2> HIDE DEF earned
  <2>4. ASSUME NEW j \in up' PROVE earned[j] + L <= earned[j + 1] + attempts'[j][a]
    <3>1. j \in Instances /\ attempts'[j][a] = attempts[j][a] /\ attempts[j][a] \in Nat
      BY <1>b, <1>c, <2>1
    <3>2. /\ earned[j] \in Nat /\ earned[j + 1] \in Nat
          /\ earned[j + 1] - earned[j] = credit[j + 1] - credit[j] + (IF j = i THEN L ELSE 0)
          /\ credit[j] \in Nat /\ credit[j + 1] \in Nat /\ credit[j] <= credit[j + 1]
      BY <1>e, <2>3, <3>1
    <3>3. j # i => credit[j] + L <= credit[j + 1] + attempts[j][a]
      BY <1>d, <2>1
    <3> QED BY <3>1, <3>2, <3>3
  <2>5. allowed'[a] + earned[BACKENDS] <= L * (BACKENDS + started'[a])
    <3>1. credit[BACKENDS] \in Nat
      BY <1>d
    <3> DEFINE owners == BACKENDS + started[a]
               total == L * owners
    <3>2. owners \in Nat /\ BACKENDS + (started[a] + 1) = owners + 1
      BY <1>c
    <3>3. total \in Nat /\ L * (owners + 1) = total + L
      <4> HIDE DEF owners
      <4> QED BY <3>2, Multiples
    <3>6. allowed[a] + credit[BACKENDS] <= total
      BY <1>d
    <3>4. L * (BACKENDS + started'[a]) = total + L
      <4>1. BACKENDS + started'[a] = owners + 1
        BY <2>1, <3>2
      <4> QED BY <3>3, <4>1
    <3>5. earned[BACKENDS] = credit[BACKENDS] + L /\ allowed'[a] = allowed[a]
      BY <2>1, <2>3
    <3> HIDE DEF total
    <3> QED BY <1>c, <3>1, <3>3, <3>4, <3>5, <3>6
  <2>6. Balanced(earned, a)'
    BY <2>3, <2>4, <2>5 DEF Balanced
  <2> QED BY <2>6
<1>5. CASE LocalTick
  <2>1. /\ up' = up
        /\ allowed'[a] = IF a = 0 THEN 0 ELSE allowed[a - 1]
        /\ started'[a] = IF a = 0 THEN 0 ELSE started[a - 1]
        /\ \A i \in Instances : attempts'[i][a] = IF a = 0 THEN 0 ELSE attempts[i][a - 1]
    <3>1. /\ up' = up /\ allowed' = Aged(allowed) /\ started' = Aged(started)
          /\ attempts' = [i \in Instances |-> Aged(attempts[i])]
      BY <1>5 DEF LocalTick
    <3>2. /\ Aged(allowed)[a] = IF a = 0 THEN 0 ELSE allowed[a - 1]
          /\ Aged(started)[a] = IF a = 0 THEN 0 ELSE started[a - 1]
          /\ \A i \in Instances : Aged(attempts[i])[a] = IF a = 0 THEN 0 ELSE attempts[i][a - 1]
      BY DEF Aged
    <3> QED BY <3>1, <3>2
  <2>2. CASE a = 0
    <3> DEFINE full == [k \in 0 .. BACKENDS |-> L * k]
    <3>1. \A i \in up : full[i] + L <= full[i + 1] + attempts'[i][a]
      <4> SUFFICES ASSUME NEW i \in up PROVE full[i] + L <= full[i + 1] + attempts'[i][a]
        OBVIOUS
      <4>1. i \in Instances /\ attempts'[i][a] = 0
        BY <1>b, <2>1, <2>2
      <4>2. i \in 0 .. BACKENDS /\ i + 1 \in 0 .. BACKENDS
        BY <4>1
      <4>3. full[i] = L * i /\ full[i + 1] = L * (i + 1)
        BY <4>2
      <4>4. L * i \in Nat /\ L * i + L = L * (i + 1)
        BY <4>1, <4>2, FullLedger
      <4> HIDE DEF full
      <4> QED BY <4>1, <4>3, <4>4
    <3>2. full[BACKENDS] = L * BACKENDS /\ L * BACKENDS \in Nat
      BY Multiples
    <3>3. /\ full \in [0 .. BACKENDS -> Nat]
          /\ \A j, k \in 0 .. BACKENDS : j <= k => full[j] <= full[k]
      BY FullLedger
    <3> HIDE DEF full
    <3>4. Balanced(full, a)'
      BY <2>1, <2>2, <3>1, <3>2, <3>3 DEF Balanced
    <3> QED BY <3>4
  <2>3. CASE a # 0
    <3>1. PICK older : Balanced(older, a - 1)
      BY <2>3 DEF LocalIInv, CreditInv
    <3>2. Balanced(older, a)'
      BY <1>b, <2>1, <2>3, <3>1 DEF Balanced
    <3> QED BY <3>2
  <2> QED BY <2>2, <2>3
<1> QED
  BY <1>1, <1>2, <1>3, <1>4, <1>5
  DEF LocalNext, localVars, Pick, Refuse, Hangup, proxyVars

LEMMA InitLocalIInv == LocalInit => LocalIInv
<1> SUFFICES ASSUME LocalInit PROVE LocalIInv
  OBVIOUS
<1> USE LocalConstants DEF LocalInit, None
<1>1. LocalTypeOK
  BY DEF LocalTypeOK
<1>2. AttemptsGrow /\ StartedInv
  BY DEF AttemptsGrow, StartedInv
<1>3. ASSUME NEW a \in Ages PROVE Balanced([k \in 0 .. BACKENDS |-> ATTEMPT_LIMIT * k], a)
  <2> DEFINE full == [k \in 0 .. BACKENDS |-> ATTEMPT_LIMIT * k]
  <2>1. /\ full \in [0 .. BACKENDS -> Nat]
        /\ \A j, k \in 0 .. BACKENDS : j <= k => full[j] <= full[k]
    BY FullLedger
  <2>2. \A i \in up : full[i] + ATTEMPT_LIMIT <= full[i + 1] + attempts[i][a]
    <3> SUFFICES ASSUME NEW i \in Instances
                 PROVE  full[i] + ATTEMPT_LIMIT <= full[i + 1] + attempts[i][a]
      OBVIOUS
    <3>1. i \in 0 .. BACKENDS /\ i + 1 \in 0 .. BACKENDS
      OBVIOUS
    <3>2. full[i] = ATTEMPT_LIMIT * i /\ full[i + 1] = ATTEMPT_LIMIT * (i + 1)
      BY <3>1
    <3>3. ATTEMPT_LIMIT * i \in Nat /\ ATTEMPT_LIMIT * i + ATTEMPT_LIMIT = ATTEMPT_LIMIT * (i + 1)
      BY <3>1, FullLedger
    <3>4. attempts[i][a] = 0
      OBVIOUS
    <3> HIDE DEF full
    <3> QED BY <3>2, <3>3, <3>4
  <2>3. full[BACKENDS] = ATTEMPT_LIMIT * BACKENDS /\ ATTEMPT_LIMIT * BACKENDS \in Nat
    BY Multiples
  <2>4. allowed[a] = 0 /\ BACKENDS + started[a] = BACKENDS
    OBVIOUS
  <2>5. allowed[a] + full[BACKENDS] <= ATTEMPT_LIMIT * (BACKENDS + started[a])
    <3> HIDE DEF full
    <3> QED BY <2>3, <2>4
  <2>6. Balanced(full, a)
    <3> HIDE DEF full
    <3> QED BY <2>1, <2>2, <2>5 DEF Balanced
  <2> QED BY <2>6
<1>4. CreditInv
  BY <1>3 DEF CreditInv
<1> QED BY <1>1, <1>2, <1>4 DEF LocalIInv

\* The spread is bounded in every state of the invariant: no credit is negative.
LEMMA SpreadFollows == LocalIInv => SpreadBound
<1> SUFFICES ASSUME LocalIInv PROVE SpreadBound
  OBVIOUS
<1> DEFINE a == WINDOW - 1
<1>1. a \in Ages
  BY LocalConstants
<1>2. PICK credit : Balanced(credit, a)
  BY <1>1 DEF LocalIInv, CreditInv
<1> DEFINE total == ATTEMPT_LIMIT * (BACKENDS + started[a])
<1>3. credit[BACKENDS] \in Nat /\ allowed[a] + credit[BACKENDS] <= total
  BY <1>2, LocalConstants DEF Balanced
<1>4. allowed[a] \in Nat /\ started[a] \in Nat
  BY <1>1 DEF LocalIInv, LocalTypeOK
<1>5. total \in Nat
  <2>1. BACKENDS + started[a] \in Nat
    BY <1>4, LocalConstants
  <2> QED BY <2>1, LocalConstants, Multiples
<1>6. allowed[a] <= total
  <2> HIDE DEF total, a
  <2> QED BY <1>3, <1>4, <1>5
<1> QED BY <1>6 DEF SpreadBound

-----------------------------------------------------------------------------
(* The handler: whichever backend is set, it takes the steps of one limiter. *)

LoginIInv == backend \in {"local", "redis"} /\ IInv /\ LocalIInv

LEMMA LoginStep == [LoginNext]_loginVars => [Next]_vars /\ [LocalNext]_localVars
  BY DEF LoginNext, RedisStep, LocalStep, loginVars

LEMMA LoginImplies == LoginSpec => Spec
<1>1. LoginInit => Init
  BY DEF LoginInit
<1> QED BY <1>1, LoginStep, PTL DEF LoginSpec, Spec

\* Both limiters keep their invariants, the one in use and the one at rest.
THEOREM LoginInvariance == LoginSpec => []LoginIInv
<1>1. LoginInit => LoginIInv
  BY InitIInv, InitLocalIInv DEF LoginInit, LoginIInv
<1>2. LoginIInv /\ [LoginNext]_loginVars => LoginIInv'
  <2> SUFFICES ASSUME LoginIInv, [LoginNext]_loginVars PROVE LoginIInv'
    OBVIOUS
  <2>1. IInv'
    BY LoginStep, TypeStep, OneOpenerStep, KeyStep, RecentStep DEF LoginIInv, IInv
  <2>2. LocalIInv'
    BY LoginStep, LocalTypeStep, CountsStep, CreditStep DEF LoginIInv, LocalIInv
  <2>3. backend' = backend
    BY DEF LoginNext, RedisStep, LocalStep, loginVars
  <2> QED BY <2>1, <2>2, <2>3 DEF LoginIInv
<1> QED BY <1>1, <1>2, PTL DEF LoginSpec

\* Every variable of both limiters keeps its type.
THEOREM LoginTypes == LoginSpec => []TypesOK
<1>1. LoginIInv => TypesOK
  BY DEF LoginIInv, IInv, LocalIInv, TypesOK
<1> QED BY LoginInvariance, <1>1, PTL

\* With either backend, Redis lets two windows' worth of attempts through in any
\* WINDOW ticks, and no more.
THEOREM LoginBurst == LoginSpec => []BurstBound
  BY LoginImplies, BurstIsBounded, PTL

\* rate_limit.py:3-6: with either backend, the instances together allow an address
\* ATTEMPT_LIMIT attempts in any WINDOW ticks for each instance and each restart,
\* for any number of instances and however the proxy spreads its connections.
THEOREM LoginSpread == LoginSpec => []SpreadBound
<1>1. LoginIInv => SpreadBound
  BY SpreadFollows DEF LoginIInv
<1> QED BY LoginInvariance, <1>1, PTL

\* With either backend, no login ever prolongs a window that runs in Redis.
THEOREM LoginNeverRestarts == LoginSpec => WindowNeverRestarts
  BY LoginImplies, NeverRestarts, PTL

\* With either backend, what the logins do to Redis is a fixed window.
THEOREM LoginImplementation == LoginSpec => ImplementsFixedWindow
  BY LoginImplies, Implementation, PTL
=============================================================================
