--------------------------- MODULE BookmarkWrites ---------------------------
(***************************************************************************)
(* POST /bookmarks and DELETE /bookmarks/{id} as concurrent transactions   *)
(* (main.py create_bookmark and delete_bookmark, and the same routes of    *)
(* server.ts).  The requests have passed current_user: each carries the    *)
(* user it acts for.                                                       *)
(*                                                                         *)
(* PostgreSQL (external) at READ COMMITTED, as the handlers meet it: each  *)
(* statement sees what is committed when it runs; a statement waits while  *)
(* another open transaction has inserted the same unique key or deleted    *)
(* the same row; a wait that has become circular fails; a foreign key with *)
(* ON DELETE CASCADE removes a bookmark's links with it (migrations 0001,  *)
(* 0002 and 0007).                                                         *)
(***************************************************************************)
EXTENDS Naturals, Sequences, FiniteSets, Functions, Relation

CONSTANTS
  Requests,   \* requests in the handlers at once, over all instances
  Users,
  Urls,
  Tags,
  TagLists,   \* the tag lists that clients send
  MaxId       \* bound: bookmark ids that may be handed out

ASSUME BookmarkWritesAssumption ==
  /\ IsFiniteSet(Requests)
  /\ MaxId \in Nat
  /\ TagLists \subseteq Seq(Tags)

VARIABLES
  rows,     \* committed bookmarks: [id, url, owner]
  tags,     \* committed tag names
  links,    \* committed bookmark_tags: <<id, tag>>
  nextId,   \* the identity sequence of bookmarks
  req,      \* each request: where it is and what it asks for
  tx,       \* each request's open transaction: what it has written
  wanted    \* history: each id's tags as its request asked for them

dbVars == <<rows, tags, links>>
vars == <<dbVars, nextId, req, tx, wanted>>

Ids == 1 .. MaxId
Row(i, u, o) == [id |-> i, url |-> u, owner |-> o]
Rows == [id : Ids, url : Urls, owner : Users]

NoWrites == [row |-> {}, tags |-> {}, links |-> {}, deletes |-> {}]
Transactions ==
  [row : {{}} \cup {{b} : b \in Rows}, tags : SUBSET Tags,
   links : SUBSET (Ids \X Tags), deletes : SUBSET Ids]

Idle == [at |-> "idle"]
Creating(stage, user, url, todo) ==
  [at |-> stage, user |-> user, url |-> url, todo |-> todo]
Deleting(stage, user, id) == [at |-> stage, user |-> user, id |-> id]
Answered(status, id) == [at |-> "answered", status |-> status, id |-> id]

CreateStages == {"insert", "tag", "link", "commit"}
DeleteStages == {"select", "delete", "commitDelete"}
Statuses == {201, 204, 403, 404, 409, 500}

RequestStates ==
  {Idle}
    \cup [at : CreateStages, user : Users, url : Urls, todo : Seq(Tags)]
    \cup [at : DeleteStages, user : Users, id : Ids]
    \cup [at : {"answered"}, status : Statuses, id : Ids \cup {0}]

Init ==
  /\ rows = {}
  /\ tags = {}
  /\ links = {}
  /\ nextId = 1
  /\ req = [p \in Requests |-> Idle]
  /\ tx = [p \in Requests |-> NoWrites]
  /\ wanted = [i \in Ids |-> {}]

-----------------------------------------------------------------------------
(* Locks *)

At(p, stage) == req[p].at = stage

\* Other requests whose open transaction decides whether u will be taken.
UrlHolders(p, u) ==
  {q \in Requests \ {p} :
     \/ \E b \in tx[q].row : b.url = u
     \/ \E b \in rows : b.url = u /\ b.id \in tx[q].deletes}

TagHolders(p, t) == {q \in Requests \ {p} : t \in tx[q].tags}

RowHolders(p, i) == {q \in Requests \ {p} : i \in tx[q].deletes}

\* The transactions the next statement of p has to wait for.
WaitsFor(p) ==
  IF At(p, "insert") THEN UrlHolders(p, req[p].url)
  ELSE IF At(p, "tag") THEN TagHolders(p, Head(req[p].todo))
  ELSE IF At(p, "delete") THEN RowHolders(p, req[p].id)
  ELSE {}

\* PostgreSQL's deadlock check: the wait of p has come back to p.
Deadlocked(p) ==
  TransitiveClosure([w \in Requests \X Requests |-> w[2] \in WaitsFor(w[1])], Requests)[p, p]

-----------------------------------------------------------------------------
(* POST /bookmarks *)

Goto(p, request) == req' = [req EXCEPT ![p] = request]

\* The transaction is rolled back, and the request answered with an error.
RolledBack(p, status, id) ==
  /\ tx' = [tx EXCEPT ![p] = NoWrites]
  /\ Goto(p, Answered(status, id))
  /\ UNCHANGED <<dbVars, wanted>>

Refuse(p, status, id) == RolledBack(p, status, id) /\ UNCHANGED nextId

\* bound: no more requests may insert than there are ids left.
IdsLeft == nextId + Cardinality({q \in Requests : At(q, "insert")}) <= MaxId

StartCreate(p) ==
  /\ At(p, "idle")
  /\ IdsLeft
  /\ \E user \in Users, url \in Urls, todo \in TagLists :
       Goto(p, Creating("insert", user, url, todo))
  /\ UNCHANGED <<dbVars, nextId, tx, wanted>>

UrlTaken(u) == \E b \in rows : b.url = u

\* After the first INSERT the request works through its tags, then commits.
TagsNext(todo) == IF todo = <<>> THEN "commit" ELSE "tag"

\* Mutant of InsertBookmark: the INSERT commits by itself.
InsertAutocommits(p) ==
  LET r == req[p] IN
  /\ At(p, "insert")
  /\ WaitsFor(p) = {}
  /\ ~UrlTaken(r.url)
  /\ tx' = [tx EXCEPT ![p].row = {Row(nextId, r.url, r.user)}]
  /\ rows' = rows \cup {Row(nextId, r.url, r.user)}
  /\ nextId' = nextId + 1
  /\ wanted' = [wanted EXCEPT ![nextId] = Range(r.todo)]
  /\ Goto(p, Creating(TagsNext(r.todo), r.user, r.url, r.todo))
  /\ UNCHANGED <<tags, links>>

\* Mutant of InsertBookmark: one INSERT too many draws from the sequence.
InsertDrawsTwice(p) ==
  LET r == req[p] IN
  /\ At(p, "insert")
  /\ WaitsFor(p) = {}
  /\ ~UrlTaken(r.url)
  /\ tx' = [tx EXCEPT ![p].row = {Row(nextId, r.url, r.user)}]
  /\ nextId' = nextId + 2
  /\ wanted' = [wanted EXCEPT ![nextId] = Range(r.todo)]
  /\ Goto(p, Creating(TagsNext(r.todo), r.user, r.url, r.todo))
  /\ UNCHANGED dbVars

InsertBookmark(p) ==
  LET r == req[p] IN
  /\ At(p, "insert")
  /\ WaitsFor(p) = {}
  /\ ~UrlTaken(r.url)
  /\ tx' = [tx EXCEPT ![p].row = {Row(nextId, r.url, r.user)}]
  /\ nextId' = nextId + 1
  /\ wanted' = [wanted EXCEPT ![nextId] = Range(r.todo)]
  /\ Goto(p, Creating(TagsNext(r.todo), r.user, r.url, r.todo))
  /\ UNCHANGED dbVars

\* UniqueViolation: 409.  The id was drawn before the index was asked, and the
\* sequence does not take it back.
InsertConflicts(p) ==
  /\ At(p, "insert")
  /\ WaitsFor(p) = {}
  /\ UrlTaken(req[p].url)
  /\ nextId' = nextId + 1
  /\ RolledBack(p, 409, 0)

\* INSERT INTO tags ... ON CONFLICT (name) DO NOTHING.
InsertTag(p) ==
  LET r == req[p] IN
  /\ At(p, "tag")
  /\ WaitsFor(p) = {}
  /\ tx' = [tx EXCEPT ![p].tags = IF Head(r.todo) \in tags THEN @ ELSE @ \cup {Head(r.todo)}]
  /\ Goto(p, Creating("link", r.user, r.url, r.todo))
  /\ UNCHANGED <<dbVars, nextId, wanted>>

\* Mutant of VisibleTags: the transaction reads one snapshot, taken when it began.
OwnTags(p) == tx[p].tags

VisibleTags(p) == tags \cup tx[p].tags

\* INSERT INTO bookmark_tags SELECT ... WHERE name = ...: a row when the tag is
\* visible to this statement, none when it is not; DO NOTHING on a repeated tag.
InsertLink(p) ==
  LET r == req[p] IN
  /\ At(p, "link")
  /\ tx' = [tx EXCEPT ![p].links = @ \cup
               {<<b.id, t>> : b \in tx[p].row, t \in {Head(r.todo)} \cap VisibleTags(p)}]
  /\ Goto(p, Creating(TagsNext(Tail(r.todo)), r.user, r.url, Tail(r.todo)))
  /\ UNCHANGED <<dbVars, nextId, wanted>>

\* The pool's context manager commits, then the handler returns 201.
CommitCreate(p) ==
  /\ At(p, "commit")
  /\ rows' = rows \cup tx[p].row
  /\ tags' = tags \cup tx[p].tags
  /\ links' = links \cup tx[p].links
  /\ tx' = [tx EXCEPT ![p] = NoWrites]
  /\ \E b \in tx[p].row : Goto(p, Answered(201, b.id))
  /\ UNCHANGED <<nextId, wanted>>

-----------------------------------------------------------------------------
(* DELETE /bookmarks/{id} *)

StartDelete(p) ==
  /\ At(p, "idle")
  /\ \E user \in Users, id \in 1 .. nextId - 1 : Goto(p, Deleting("select", user, id))
  /\ UNCHANGED <<dbVars, nextId, tx, wanted>>

OwnerOf(id) == {b.owner : b \in {c \in rows : c.id = id}}

\* Mutant of SelectOwner: any signed-in user will do.
SelectAnyOwner(p) ==
  LET r == req[p] IN
  /\ At(p, "select")
  /\ OwnerOf(r.id) # {}
  /\ Goto(p, Deleting("delete", r.user, r.id))
  /\ UNCHANGED <<dbVars, nextId, tx, wanted>>

SelectOwner(p) ==
  LET r == req[p] IN
  /\ At(p, "select")
  /\ OwnerOf(r.id) = {r.user}
  /\ Goto(p, Deleting("delete", r.user, r.id))
  /\ UNCHANGED <<dbVars, nextId, tx, wanted>>

SelectRefused(p) ==
  LET owner == OwnerOf(req[p].id) IN
  /\ At(p, "select")
  /\ \/ owner = {} /\ Refuse(p, 404, req[p].id)
     \/ owner # {} /\ owner # {req[p].user} /\ Refuse(p, 403, req[p].id)

\* Mutant of DeleteRow: a row that another request is deleting counts as deleted.
DeleteSkipsLocked(p) ==
  LET r == req[p] IN
  /\ At(p, "delete")
  /\ tx' = [tx EXCEPT ![p].deletes =
               {b.id : b \in {c \in rows : c.id = r.id /\ RowHolders(p, r.id) = {}}}]
  /\ Goto(p, Deleting("commitDelete", r.user, r.id))
  /\ UNCHANGED <<dbVars, nextId, wanted>>

\* DELETE waits for another that has the row, and then finds nothing to delete.
DeleteRow(p) ==
  LET r == req[p] IN
  /\ At(p, "delete")
  /\ WaitsFor(p) = {}
  /\ tx' = [tx EXCEPT ![p].deletes = {b.id : b \in {c \in rows : c.id = r.id}}]
  /\ Goto(p, Deleting("commitDelete", r.user, r.id))
  /\ UNCHANGED <<dbVars, nextId, wanted>>

\* The row goes, its links with it; 204 whether or not there was a row to delete.
CommitDelete(p) ==
  LET gone == tx[p].deletes IN
  /\ At(p, "commitDelete")
  /\ rows' = {b \in rows : b.id \notin gone}
  /\ links' = {l \in links : l[1] \notin gone}
  /\ tx' = [tx EXCEPT ![p] = NoWrites]
  /\ Goto(p, Answered(204, req[p].id))
  /\ UNCHANGED <<tags, nextId, wanted>>

-----------------------------------------------------------------------------
(* Both *)

\* Mutant of DeadlockDetected: the handler tries the statement again.
DeadlockRetried(p) ==
  /\ Deadlocked(p)
  /\ UNCHANGED vars

\* DeadlockDetected is not a UniqueViolation: nobody catches it, 500.
DeadlockDetected(p) ==
  /\ Deadlocked(p)
  /\ Refuse(p, 500, 0)

\* The answer leaves, or the process dies first: the open transaction is lost.
Leave(p) ==
  /\ At(p, "answered")
  /\ Goto(p, Idle)
  /\ UNCHANGED <<dbVars, nextId, tx, wanted>>

Crash(p) ==
  /\ req[p].at \notin {"idle", "answered"}
  /\ tx' = [tx EXCEPT ![p] = NoWrites]
  /\ Goto(p, Idle)
  /\ UNCHANGED <<dbVars, nextId, wanted>>

Step(p) ==
  \/ InsertBookmark(p) \/ InsertConflicts(p) \/ InsertTag(p) \/ InsertLink(p)
  \/ CommitCreate(p)
  \/ SelectOwner(p) \/ SelectRefused(p) \/ DeleteRow(p) \/ CommitDelete(p)
  \/ DeadlockDetected(p)

Next == \E p \in Requests :
  StartCreate(p) \/ StartDelete(p) \/ Step(p) \/ Leave(p) \/ Crash(p)

Spec == Init /\ [][Next]_vars

\* Handlers and PostgreSQL go on; a released lock goes to its longest waiter.
FairSpec == Spec /\ \A p \in Requests : SF_vars(Step(p))

-----------------------------------------------------------------------------

TypeOK ==
  /\ rows \subseteq Rows
  /\ tags \subseteq Tags
  /\ links \subseteq Ids \X Tags
  /\ nextId \in 1 .. MaxId + 1
  /\ req \in [Requests -> RequestStates]
  /\ tx \in [Requests -> Transactions]
  /\ wanted \in [Ids -> SUBSET Tags]

\* main.py:480, "one transaction": a bookmark that exists has every tag its
\* request asked for, also when another request created the tag meanwhile, and
\* no tag of a bookmark that does not exist.
BookmarksAreWhole ==
  /\ \A b \in rows : {l[2] : l \in {k \in links : k[1] = b.id}} = wanted[b.id]
  /\ \A l \in links : l[2] \in tags /\ \E b \in rows : b.id = l[1]

\* main.py:511-527: after a 204 the bookmark is gone, also for the second of two
\* racing DELETEs, and also when the first of them dies before its commit.
DeletedIsGone ==
  \A p \in Requests :
    At(p, "answered") /\ req[p].status = 204 => \A b \in rows : b.id # req[p].id

\* main.py:513-517: a bookmark disappears only by the hand of a request that
\* acts for its owner, whatever happened since that request read the owner.
OnlyOwnersDelete ==
  [][\A b \in rows \ rows' :
       \E p \in Requests : At(p, "commitDelete") /\ req[p].user = b.owner /\ req[p].id = b.id]_vars

\* Whatever the order in which requests name their tags, none waits for ever.
EveryRequestEnds ==
  \A p \in Requests :
    req[p].at \in {"insert", "select"} ~> req[p].at \in {"answered", "idle"}

TagsOf(id) == {l[2] : l \in {k \in links : k[1] = id}}

Store == INSTANCE BookmarkSet
  WITH stored <- {[id |-> b.id, url |-> b.url, owner |-> b.owner, tags |-> TagsOf(b.id)] : b \in rows}

\* Committed state changes one whole bookmark at a time.
ImplementsBookmarkSet == Store!SetSpec
=============================================================================
