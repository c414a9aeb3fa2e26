------------------------- MODULE SearchCacheProofs -------------------------
(***************************************************************************)
(* How stale an answer from the search cache can be, for any number of     *)
(* searches, any TTL and any gap between a SELECT and its SET.             *)
(***************************************************************************)
EXTENDS SearchCache, TLAPS

\* Of an entry's staleness, what exceeds MaxLag has been taken from its life.
EntryInv == entry # Missing => entry.stale + entry.ttl <= TTL + MaxLag

\* A result that waits to be stored is not staler than it is old.
FetchedInv == \A p \in Requests : req[p].at = "fetched" => req[p].stale <= req[p].lag

IInv == TypeOK /\ EntryInv /\ FetchedInv /\ StalenessBound

\* The states of a request by the stage it is at.
LEMMA StateTypes ==
  ASSUME TypeOK, NEW p \in Requests
  PROVE  /\ req[p].at = "fetched" =>
              /\ req[p].current \in BOOLEAN
              /\ req[p].stale \in 0 .. MaxStale
              /\ req[p].lag \in 0 .. MaxLag
         /\ req[p].at = "answered" => req[p].stale \in 0 .. MaxStale
BY DEF TypeOK, RequestStates, Idle, Missed

\* The states that the actions put requests into.
LEMMA StatesOK ==
  ASSUME NEW current \in BOOLEAN, NEW stale \in 0 .. MaxStale, NEW lag \in 0 .. MaxLag
  PROVE  /\ Idle \in RequestStates /\ Missed \in RequestStates
         /\ Fetched(current, stale, lag) \in RequestStates
         /\ Answered(stale) \in RequestStates
BY DEF RequestStates, Fetched, Answered

\* A tick makes a copy one tick staler at most.
LEMMA OlderFacts ==
  ASSUME NEW copy, copy.current \in BOOLEAN, copy.stale \in 0 .. MaxStale
  PROVE  /\ Older(copy) \in 0 .. MaxStale
         /\ Older(copy) <= copy.stale + 1
BY SearchCacheAssumption DEF Older, MaxStale

LEMMA InitIInv == Init => IInv
BY SearchCacheAssumption
   DEF Init, IInv, TypeOK, EntryInv, FetchedInv, StalenessBound, Missing, Idle, RequestStates

\* A step that moves one request and leaves the entry, and does not fetch.
LEMMA MoveStep ==
  ASSUME IInv, NEW p \in Requests, NEW s \in RequestStates,
         req' = [req EXCEPT ![p] = s],
         s.at = "fetched" => s.stale <= s.lag,
         s.at = "answered" => s.stale < TTL + MaxLag,
         UNCHANGED entry
  PROVE  IInv'
BY DEF IInv, TypeOK, EntryInv, FetchedInv, StalenessBound

LEMMA StoreStep == ASSUME IInv, NEW p \in Requests, Store(p) PROVE IInv'
<1>1. /\ req[p].current \in BOOLEAN
      /\ req[p].stale \in 0 .. MaxStale
      /\ req[p].stale <= MaxLag
  BY StateTypes, SearchCacheAssumption DEF IInv, Store, FetchedInv, MaxStale
<1>2. Answered(req[p].stale) \in RequestStates
  BY <1>1, StatesOK, SearchCacheAssumption
<1>3. entry' = [current |-> req[p].current, stale |-> req[p].stale, ttl |-> TTL]
  BY DEF Store, Entry
<1>4. entry' \in Entries /\ EntryInv'
  BY <1>1, <1>3, SearchCacheAssumption DEF Entries, EntryInv, MaxStale
<1>5. req' = [req EXCEPT ![p] = Answered(req[p].stale)]
  BY DEF Store, Goto
<1>6. req' \in [Requests -> RequestStates]
  BY <1>2, <1>5 DEF IInv, TypeOK
<1>7. FetchedInv' /\ StalenessBound'
  BY <1>1, <1>5, SearchCacheAssumption
     DEF IInv, TypeOK, FetchedInv, StalenessBound, Answered, MaxStale
<1> QED BY <1>4, <1>6, <1>7 DEF IInv, TypeOK

LEMMA WriteStep == ASSUME IInv, Write PROVE IInv'
<1>1. entry' = Missing \/ entry' \in Entries
  BY DEF IInv, TypeOK, Write, Entries
<1>2. EntryInv'
  BY DEF IInv, TypeOK, Write, Entries, EntryInv
<1>3. ASSUME NEW p \in Requests
      PROVE  /\ req'[p] \in RequestStates
             /\ req'[p].at = "fetched" => req'[p].stale <= req'[p].lag
             /\ req'[p].at = "answered" => req'[p].stale < TTL + MaxLag
  <2>1. req[p] \in RequestStates
    BY DEF IInv, TypeOK
  <2>2. CASE req[p].at = "fetched"
    <3>1. req'[p] = [req[p] EXCEPT !.current = FALSE]
      BY <2>2 DEF Write
    <3>2. req[p] \in [at : {"fetched"}, current : BOOLEAN, stale : 0 .. MaxStale, lag : 0 .. MaxLag]
      BY <2>1, <2>2 DEF RequestStates, Idle, Missed
    <3> QED BY <2>2, <3>1, <3>2 DEF RequestStates, IInv, FetchedInv
  <2>3. CASE req[p].at # "fetched"
    BY <2>1, <2>3 DEF Write, IInv, StalenessBound
  <2> QED BY <2>2, <2>3
<1>4. req' \in [Requests -> RequestStates]
  BY <1>3 DEF Write
<1> QED BY <1>1, <1>2, <1>3, <1>4 DEF IInv, TypeOK, FetchedInv, StalenessBound

LEMMA TickStep == ASSUME IInv, Tick PROVE IInv'
<1>1. (entry' = Missing \/ entry' \in Entries) /\ EntryInv'
  <2>1. CASE entry = Missing \/ entry.ttl = 1
    BY <2>1 DEF Tick, EntryInv
  <2>2. CASE entry # Missing /\ entry.ttl # 1
    <3> DEFINE aged == [entry EXCEPT !.stale = Older(entry)]
    <3>1. entry \in Entries /\ entry.stale + entry.ttl <= TTL + MaxLag
      BY <2>2 DEF IInv, TypeOK, EntryInv
    <3>2. entry.current \in BOOLEAN /\ entry.stale \in 0 .. MaxStale /\ entry.ttl \in 1 .. TTL
      BY <3>1 DEF Entries
    <3>3. Older(entry) \in 0 .. MaxStale /\ Older(entry) <= entry.stale + 1
      BY <3>2, OlderFacts
    <3>4. entry' = Entry(aged, entry.ttl - 1)
      BY <2>2 DEF Tick
    <3>5. aged.current = entry.current /\ aged.stale = Older(entry)
      BY <3>1 DEF Entries
    <3>6. entry' = [current |-> entry.current, stale |-> Older(entry), ttl |-> entry.ttl - 1]
      BY <3>4, <3>5 DEF Entry
    <3>7. entry.ttl - 1 \in 1 .. TTL
      BY <2>2, <3>2, SearchCacheAssumption
    <3>8. entry' \in Entries
      BY <3>2, <3>3, <3>6, <3>7 DEF Entries
    <3>9. entry'.stale + entry'.ttl <= TTL + MaxLag
      BY <3>1, <3>2, <3>3, <3>6, SearchCacheAssumption DEF MaxStale
    <3> QED BY <3>8, <3>9 DEF EntryInv
  <2> QED BY <2>1, <2>2
<1>2. ASSUME NEW p \in Requests
      PROVE  /\ req'[p] \in RequestStates
             /\ req'[p].at = "fetched" => req'[p].stale <= req'[p].lag
             /\ req'[p].at = "answered" => req'[p].stale < TTL + MaxLag
  <2>1. req[p] \in RequestStates
    BY DEF IInv, TypeOK
  <2>2. CASE req[p].at = "fetched"
    <3>1. req'[p] = Fetched(req[p].current, Older(req[p]), req[p].lag + 1)
      BY <2>2 DEF Tick
    <3>2. /\ req[p].current \in BOOLEAN
          /\ req[p].stale \in 0 .. MaxStale
          /\ req[p].lag \in 0 .. MaxLag
      BY <2>2, StateTypes DEF IInv
    <3>3. req[p].lag < MaxLag /\ req[p].stale <= req[p].lag
      BY <2>2 DEF Tick, IInv, FetchedInv
    <3>4. Older(req[p]) \in 0 .. MaxStale /\ Older(req[p]) <= req[p].stale + 1
      BY <3>2, OlderFacts
    <3>5. req[p].lag + 1 \in 0 .. MaxLag
      BY <3>2, <3>3, SearchCacheAssumption
    <3>6. req'[p] \in RequestStates
      BY <3>1, <3>2, <3>4, <3>5, StatesOK
    <3>7. Older(req[p]) <= req[p].lag + 1
      BY <3>2, <3>3, <3>4, SearchCacheAssumption DEF MaxStale
    <3> QED BY <3>1, <3>6, <3>7 DEF Fetched
  <2>3. CASE req[p].at # "fetched"
    BY <2>1, <2>3 DEF Tick, IInv, StalenessBound
  <2> QED BY <2>2, <2>3
<1>3. req' \in [Requests -> RequestStates]
  BY <1>2 DEF Tick
<1> QED BY <1>1, <1>2, <1>3 DEF IInv, TypeOK, FetchedInv, StalenessBound

LEMMA InvStep == ASSUME IInv, [Next]_vars PROVE IInv'
<1> USE SearchCacheAssumption
<1>1. /\ Idle \in RequestStates /\ Idle.at = "idle"
      /\ Missed \in RequestStates /\ Missed.at = "missed"
      /\ Fetched(TRUE, 0, 0) \in RequestStates
      /\ Fetched(TRUE, 0, 0).stale <= Fetched(TRUE, 0, 0).lag
      /\ Fetched(TRUE, 0, 0).at = "fetched"
  BY DEF RequestStates, Idle, Missed, Fetched, MaxStale
<1>2. ASSUME NEW p \in Requests, Hit(p) PROVE IInv'
  <2>1. entry \in Entries /\ entry.stale + entry.ttl <= TTL + MaxLag
    BY <1>2 DEF Hit, IInv, TypeOK, EntryInv
  <2>2. entry.stale \in 0 .. MaxStale /\ entry.stale < TTL + MaxLag
    BY <2>1 DEF Entries, MaxStale
  <2>3. Answered(entry.stale) \in RequestStates /\ Answered(entry.stale).at = "answered"
        /\ Answered(entry.stale).stale = entry.stale
    BY <2>2 DEF Answered, RequestStates
  <2> QED BY <1>2, <2>2, <2>3, MoveStep DEF Hit, Goto
<1>3. ASSUME NEW p \in Requests, Miss(p) PROVE IInv'
  BY <1>1, <1>3, MoveStep DEF Miss, Goto
<1>4. ASSUME NEW p \in Requests, Query(p) PROVE IInv'
  <2>1. req' = [req EXCEPT ![p] = Fetched(TRUE, 0, 0)] /\ UNCHANGED entry
    BY <1>4 DEF Query, Goto
  <2>2. Fetched(TRUE, 0, 0).at # "answered"
    BY <1>1
  <2> QED BY ONLY <1>1, <2>1, <2>2, MoveStep, IInv
<1>5. ASSUME NEW p \in Requests, Abort(p) \/ Leave(p) PROVE IInv'
  BY <1>1, <1>5, MoveStep DEF Abort, Leave, Goto
<1>6. CASE UNCHANGED vars
  BY <1>6 DEF vars, IInv, TypeOK, EntryInv, FetchedInv, StalenessBound
<1> QED BY <1>2, <1>3, <1>4, <1>5, <1>6, StoreStep, WriteStep, TickStep DEF Next

\* The inductive invariant holds in every reachable state.
THEOREM Invariance == Spec => []IInv
<1>1. IInv /\ [Next]_vars => IInv'
  BY InvStep
<1> QED BY InitIInv, <1>1, PTL DEF Spec

\* Entries and requests keep their types (main.py:407-447).
THEOREM TypeCorrect == Spec => []TypeOK
<1>1. IInv => TypeOK
  BY DEF IInv
<1> QED BY Invariance, <1>1, PTL

\* No answer was superseded TTL + MaxLag ticks ago or earlier, whatever the order
\* of searches, writes and expiry: GLOSSARY.md's one TTL is the case MaxLag = 0.
THEOREM BoundedStaleness == Spec => []StalenessBound
<1>1. IInv => StalenessBound
  BY DEF IInv
<1> QED BY Invariance, <1>1, PTL
=============================================================================
