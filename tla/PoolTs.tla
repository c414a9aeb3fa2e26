------------------------------- MODULE PoolTs -------------------------------
(***************************************************************************)
(* The connection pool of one TypeScript instance (server.ts): the hand-   *)
(* made acquire timeout races an operation against a timer, and the race   *)
(* cannot take the operation back.  A handler asks for one connection      *)
(* after the other: with pool.query, which returns the connection itself,  *)
(* and at the end perhaps with pool.connect, whose caller must release it. *)
(*                                                                         *)
(* The pool is node-postgres (external): operations without a connection   *)
(* queue first come, first served; nothing leaves the queue but by being   *)
(* given a connection.                                                     *)
(***************************************************************************)
EXTENDS Pool

CONSTANTS
  MaxOps,     \* bound: the most operations a handler asks of the pool
  MaxQueue    \* bound: operations that wait at once

\* The owner of an operation whose request no longer listens.
Nobody == "nobody"

ASSUME PoolTsAssumption ==
  /\ MaxOps \in Nat \ {0}
  /\ MaxQueue \in Nat
  /\ Nobody \notin Requests

VARIABLES
  tsFree,    \* connections nobody has
  tsQueue,   \* operations that wait for a connection, longest first
  tsAt,      \* each request: where it is
  orphans,   \* queries that run for a request the timer has answered
  leaked,    \* connections handed to a request the timer has answered
  ops        \* each request: the operations its handler still has to make

tsPoolVars == <<tsFree, tsQueue, orphans, leaked>>
tsVars == <<tsPoolVars, tsAt, ops>>

Kinds == {"query", "connect"}

Operation(kind, owner) == [kind |-> kind, owner |-> owner]
Operations == [kind : Kinds, owner : Requests \cup {Nobody}]

\* Queries, and at the end a query or a client for a transaction.
Plans ==
  {[i \in 1 .. n |-> IF i < n THEN "query" ELSE kind] : n \in 1 .. MaxOps, kind \in Kinds}

TsStages == {"idle", "ready", "waiting", "running", "holding"}

TsTypeOK ==
  /\ tsFree \in 0 .. Size
  /\ tsQueue \in Seq(Operations)
  /\ Len(tsQueue) <= MaxQueue
  /\ orphans \in 0 .. Size
  /\ leaked \in 0 .. Size
  /\ tsAt \in [Requests -> TsStages]
  /\ ops \in [Requests -> Seq(Kinds)]
  /\ \A p \in Requests : tsAt[p] # "idle" => ops[p] \in Plans

TsInit ==
  /\ tsFree = Size
  /\ tsQueue = <<>>
  /\ orphans = 0
  /\ leaked = 0
  /\ tsAt = [p \in Requests |-> "idle"]
  /\ ops = [p \in Requests |-> <<>>]

-----------------------------------------------------------------------------
(* The pool *)

\* What an operation's owner does with its connection.
Stage(kind) == IF kind = "query" THEN "running" ELSE "holding"

\* A connection reaches an operation.  One whose request has gone runs anyway;
\* a client which that request's handler was to release is never released.
Deliver(op, atOthers, orphansOthers) ==
  \/ /\ op.owner # Nobody
     /\ tsAt' = [atOthers EXCEPT ![op.owner] = Stage(op.kind)]
     /\ orphans' = orphansOthers
     /\ UNCHANGED leaked
  \/ /\ op = Operation("query", Nobody)
     /\ tsAt' = atOthers
     /\ orphans' = orphansOthers + 1
     /\ UNCHANGED leaked
  \/ /\ op = Operation("connect", Nobody)
     /\ tsAt' = atOthers
     /\ orphans' = orphansOthers
     /\ leaked' = leaked + 1

\* A connection comes back; atOthers and orphansOthers are what its user leaves.
TsGiveBack(atOthers, orphansOthers) ==
  \/ /\ tsQueue = <<>>
     /\ tsFree' = tsFree + 1
     /\ tsAt' = atOthers
     /\ orphans' = orphansOthers
     /\ UNCHANGED <<tsQueue, leaked>>
  \/ /\ tsQueue # <<>>
     /\ Deliver(Head(tsQueue), atOthers, orphansOthers)
     /\ tsQueue' = Tail(tsQueue)
     /\ UNCHANGED tsFree

-----------------------------------------------------------------------------
(* The requests *)

\* The handler of p is over: it has answered.
Over(p) == [tsAt EXCEPT ![p] = "idle"]
Answer(p) == ops' = [ops EXCEPT ![p] = <<>>]

TsArrive(p) ==
  /\ tsAt[p] = "idle"
  /\ tsAt' = [tsAt EXCEPT ![p] = "ready"]
  /\ \E plan \in Plans : ops' = [ops EXCEPT ![p] = plan]
  /\ UNCHANGED tsPoolVars

\* pool.query or pool.connect with a connection to spare.
Start(p) ==
  /\ tsAt[p] = "ready"
  /\ tsFree > 0
  /\ tsFree' = tsFree - 1
  /\ tsAt' = [tsAt EXCEPT ![p] = Stage(Head(ops[p]))]
  /\ UNCHANGED <<tsQueue, orphans, leaked, ops>>

\* pool.query or pool.connect without one.
TsWait(p) ==
  /\ tsAt[p] = "ready"
  /\ tsFree = 0
  /\ Len(tsQueue) < MaxQueue
  /\ tsQueue' = Append(tsQueue, Operation(Head(ops[p]), p))
  /\ tsAt' = [tsAt EXCEPT ![p] = "waiting"]
  /\ UNCHANGED <<tsFree, orphans, leaked, ops>>

\* A query ends: its connection goes back, the handler goes on or answers.
Finish(p) ==
  /\ tsAt[p] = "running"
  /\ ops' = [ops EXCEPT ![p] = Tail(@)]
  /\ TsGiveBack(IF Len(ops[p]) = 1 THEN Over(p) ELSE [tsAt EXCEPT ![p] = "ready"], orphans)

\* A query fails, or the handler answers early after it (401, 403, 404, 422).
TsFail(p) ==
  /\ tsAt[p] = "running"
  /\ Answer(p)
  /\ TsGiveBack(Over(p), orphans)

\* Mutant of Release: without the `finally', the error path keeps the client.
ReleaseOnSuccess(p) ==
  /\ tsAt[p] = "holding"
  /\ Answer(p)
  /\ \/ TsGiveBack(Over(p), orphans)
     \/ tsAt' = Over(p) /\ UNCHANGED tsPoolVars

\* A handler that has a client: COMMIT, or ROLLBACK, then `finally' the release.
Release(p) ==
  /\ tsAt[p] = "holding"
  /\ Answer(p)
  /\ TsGiveBack(Over(p), orphans)

\* An operation that waits, after the timer has answered p.
Abandoned(op, p) == IF op.owner = p THEN Operation(op.kind, Nobody) ELSE op

\* The timer wins the race: the answer is 503, and the operation itself goes on.
TsTimeout(p) ==
  /\ tsAt[p] \in {"waiting", "running"}
  /\ tsQueue' = [i \in DOMAIN tsQueue |-> Abandoned(tsQueue[i], p)]
  /\ orphans' = IF tsAt[p] = "running" THEN orphans + 1 ELSE orphans
  /\ tsAt' = Over(p)
  /\ Answer(p)
  /\ UNCHANGED <<tsFree, leaked>>

\* Mutant of OrphanEnds: the result nobody reads never comes back.
OrphanKept ==
  /\ orphans > 0
  /\ UNCHANGED tsVars

\* A query nobody waits for ends, and its connection goes back.
OrphanEnds ==
  /\ orphans > 0
  /\ TsGiveBack(tsAt, orphans - 1)
  /\ UNCHANGED ops

TsNext ==
  \/ \E p \in Requests :
       \/ TsArrive(p) \/ Start(p) \/ TsWait(p) \/ Finish(p) \/ TsFail(p)
       \/ Release(p) \/ TsTimeout(p)
  \/ OrphanEnds

TsSpec == TsInit /\ [][TsNext]_tsVars

\* PostgreSQL answers the queries it has, whoever still listens, and a handler
\* with a client gets to its `finally'.  Nothing is asked of the timer.
TsFairness ==
  /\ WF_tsVars(OrphanEnds)
  /\ \A p \in Requests : WF_tsVars(Finish(p) \/ TsFail(p)) /\ WF_tsVars(Release(p))

-----------------------------------------------------------------------------

InPool == {p \in Requests : tsAt[p] \in {"running", "holding"}}

\* Every connection is accounted for: idle, with a live request, with a query
\* that outlived its request, or leaked.  None is lost otherwise and none is
\* with two users, wherever the timer cuts in.
TsConserved == tsFree + Cardinality(InPool) + orphans + leaked = Size

\* server.ts:80-83: what the timer abandons delays the requests behind it, but
\* as long as a connection is left they are served, timer or no timer.
WaitersAreServed ==
  \A p \in Requests : tsAt[p] = "waiting" ~> (tsAt[p] # "waiting" \/ leaked = Size)

\* server.ts:572, "try again shortly": after a 503 there is still a connection
\* that a second try can get.
RetriesCanSucceed == leaked < Size
=============================================================================
