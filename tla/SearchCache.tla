---------------------------- MODULE SearchCache ----------------------------
(***************************************************************************)
(* GET /bookmarks/search behind its Redis cache (main.py search_bookmarks; *)
(* cache.py names the two operations lookup and store).  One search key;   *)
(* keys do not interact.  No write path tells the cache: an entry goes     *)
(* stale when the database changes under it and ends with its TTL.         *)
(*                                                                         *)
(* A request that misses awaits its SELECT and then its SET; other         *)
(* requests, writes and time pass in between.  What matters of a result    *)
(* is how long ago a write superseded it, in ticks of Redis's clock.       *)
(***************************************************************************)
EXTENDS Naturals

CONSTANTS
  Requests,   \* searches in flight at once, over all instances
  TTL,        \* SEARCH_CACHE_TTL_SECONDS, in ticks
  MaxLag      \* the most ticks a request lets pass between its SELECT and its SET

ASSUME SearchCacheAssumption ==
  /\ TTL \in Nat \ {0}
  /\ MaxLag \in Nat

VARIABLES
  entry,   \* Redis: the cached result, and the life it has left
  req      \* each request: where it is in search_bookmarks

vars == <<entry, req>>

\* bound: ticks since a copy was superseded are counted up to here.
MaxStale == TTL + MaxLag

Missing == [ttl |-> 0]
Entry(copy, ttl) == [current |-> copy.current, stale |-> copy.stale, ttl |-> ttl]

Idle == [at |-> "idle"]
Missed == [at |-> "missed"]
Fetched(current, stale, lag) ==
  [at |-> "fetched", current |-> current, stale |-> stale, lag |-> lag]
Answered(stale) == [at |-> "answered", stale |-> stale]

Entries == [current : BOOLEAN, stale : 0 .. MaxStale, ttl : 1 .. TTL]

RequestStates ==
  {Idle, Missed}
  \cup [at : {"fetched"}, current : BOOLEAN, stale : 0 .. MaxStale, lag : 0 .. MaxLag]
  \cup [at : {"answered"}, stale : 0 .. MaxStale]

TypeOK ==
  /\ entry = Missing \/ entry \in Entries
  /\ req \in [Requests -> RequestStates]

Init ==
  /\ entry = Missing
  /\ req = [p \in Requests |-> Idle]

Goto(p, state) == req' = [req EXCEPT ![p] = state]

\* Mutant of Hit: a read prolongs the entry's life.
HitRefreshes(p) ==
  /\ req[p] = Idle
  /\ entry # Missing
  /\ Goto(p, Answered(entry.stale))
  /\ entry' = [entry EXCEPT !.ttl = TTL]

\* GET finds the entry: answer from it.
Hit(p) ==
  /\ req[p] = Idle
  /\ entry # Missing
  /\ Goto(p, Answered(entry.stale))
  /\ UNCHANGED entry

Miss(p) ==
  /\ req[p] = Idle
  /\ entry = Missing
  /\ Goto(p, Missed)
  /\ UNCHANGED entry

\* The SELECT, through the pool: the result is current when it is read.
Query(p) ==
  /\ req[p] = Missed
  /\ Goto(p, Fetched(TRUE, 0, 0))
  /\ UNCHANGED entry

\* Mutant of Store: the life of the entry is off by one.
StoreLonger(p) ==
  /\ req[p].at = "fetched"
  /\ entry' = Entry(req[p], TTL + 1)
  /\ Goto(p, Answered(req[p].stale))

\* SET ... EX: whatever is there is overwritten, also by an older result.
Store(p) ==
  /\ req[p].at = "fetched"
  /\ entry' = Entry(req[p], TTL)
  /\ Goto(p, Answered(req[p].stale))

\* The pool is exhausted, or Redis fails, or the process dies: nothing is stored.
Abort(p) ==
  /\ req[p].at \in {"missed", "fetched"}
  /\ Goto(p, Idle)
  /\ UNCHANGED entry

Leave(p) ==
  /\ req[p].at = "answered"
  /\ Goto(p, Idle)
  /\ UNCHANGED entry

\* A bookmark is created, deleted or changed, by the API or by direct SQL: every
\* copy of the old answer is superseded.
Write ==
  /\ entry' = IF entry = Missing THEN entry ELSE [entry EXCEPT !.current = FALSE]
  /\ req' = [p \in Requests |->
               IF req[p].at = "fetched" THEN [req[p] EXCEPT !.current = FALSE] ELSE req[p]]

\* A tick later: superseded copies have been wrong for one tick more.
Older(copy) ==
  IF copy.current \/ copy.stale = MaxStale THEN copy.stale ELSE copy.stale + 1

Tick ==
  /\ \A p \in Requests : req[p].at = "fetched" => req[p].lag < MaxLag
  /\ entry' = IF entry = Missing \/ entry.ttl = 1 THEN Missing
              ELSE Entry([entry EXCEPT !.stale = Older(entry)], entry.ttl - 1)
  /\ req' = [p \in Requests |->
               IF req[p].at = "fetched"
               THEN Fetched(req[p].current, Older(req[p]), req[p].lag + 1)
               ELSE req[p]]

Next ==
  \/ \E p \in Requests :
       \/ Hit(p) \/ Miss(p) \/ Query(p) \/ Store(p) \/ Abort(p) \/ Leave(p)
  \/ Write
  \/ Tick

Spec == Init /\ [][Next]_vars

\* Redis's clock runs, and a request that has its rows stores them or fails.
FairSpec ==
  /\ Spec
  /\ WF_vars(Tick)
  /\ \A p \in Requests : WF_vars(Store(p) \/ Abort(p))

-----------------------------------------------------------------------------

\* GLOSSARY.md:76-77, "a stale read for up to one TTL after every write": true of
\* a request whose SELECT and SET are close; the TTL starts with the SET, so the
\* bound is the TTL and what the slowest request lets pass between the two.
StalenessBound ==
  \A p \in Requests : req[p].at = "answered" => req[p].stale < TTL + MaxLag

\* A superseded entry goes, however often it is read and whatever is written:
\* readers that missed before it may store older results, but only so many.
StaleEntriesGo ==
  (entry # Missing /\ ~entry.current) ~> (entry = Missing \/ entry.current)
=============================================================================
