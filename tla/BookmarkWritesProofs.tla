------------------------ MODULE BookmarkWritesProofs ------------------------
(***************************************************************************)
(* Bookmark writes, for any number of requests, users, URLs, tags and tag  *)
(* lists: bookmarks are whole, a deleted one is gone, only its owner       *)
(* deletes it, and the committed state implements BookmarkSet.  None of it *)
(* depends on which waits PostgreSQL calls a deadlock.                     *)
(***************************************************************************)
EXTENDS BookmarkWrites, FiniteSetTheorems, SequenceTheorems, TLAPS

\* An open POST that has inserted its row: the tags it has linked and those it
\* still has to link are those its client asked for.
Building(r, t, n, g, w) ==
  /\ t.deletes = {}
  /\ \E b \in t.row :
       /\ t.row = {b} /\ b.id < n
       /\ \A l \in t.links : l[1] = b.id /\ l[2] \in g \cup t.tags
       /\ {l[2] : l \in t.links} \cup Range(r.todo) = w[b.id]

\* What the transaction t of a request r has written, stage by stage, when n is the
\* next id, g the committed tags, and w the tags that were asked for.
Shape(r, t, n, g, w) ==
  /\ r.at \in {"idle", "answered", "insert", "select", "delete"} => t = NoWrites
  /\ r.at \in {"tag", "link", "commit"} => Building(r, t, n, g, w)
  /\ r.at \in {"tag", "link"} => r.todo # <<>>
  /\ r.at = "link" => Head(r.todo) \in g \cup t.tags
  /\ r.at = "commit" => r.todo = <<>>
  /\ r.at = "commitDelete" =>
       t.row = {} /\ t.tags = {} /\ t.links = {} /\ t.deletes \subseteq {r.id}

Shapes == \A p \in Requests : Shape(req[p], tx[p], nextId, tags, wanted)

\* Every request about to insert still has an id to draw.
Inserting == {q \in Requests : At(q, "insert")}
IdsSuffice == nextId + Cardinality(Inserting) <= MaxId + 1

\* No id and no URL is used twice, by committed rows or by rows to be committed.
KeysAreUnique ==
  /\ \A a \in rows : a.id < nextId
  /\ \A a, b \in rows : a.id = b.id \/ a.url = b.url => a = b
  /\ \A p \in Requests : \A b \in tx[p].row, a \in rows : a.id # b.id /\ a.url # b.url
  /\ \A p, q \in Requests : p # q =>
       \A a \in tx[p].row, b \in tx[q].row : a.id # b.id /\ a.url # b.url

\* The id has been drawn, and nobody has a row to commit under it.
NotPending(i) == i \in 1 .. nextId - 1 /\ \A q \in Requests : \A b \in tx[q].row : b.id # i
NoRow(i) == \A b \in rows : b.id # i

\* A DELETE past its SELECT acts for the owner; one that found no row to delete,
\* or has committed, leaves none and none will come.
SafeDelete(r, t) ==
  /\ r.at \in {"delete", "commitDelete"} =>
       NotPending(r.id) /\ \A b \in rows : b.id = r.id => b.owner = r.user
  /\ r.at = "commitDelete" /\ t.deletes = {} => NoRow(r.id)
  /\ r.at = "answered" /\ r.status = 204 => NotPending(r.id) /\ NoRow(r.id)

DeletesAreSafe == \A p \in Requests : SafeDelete(req[p], tx[p])

IInv ==
  TypeOK /\ Shapes /\ IdsSuffice /\ KeysAreUnique /\ BookmarksAreWhole /\ DeletesAreSafe

-----------------------------------------------------------------------------
(* Requests and their transactions *)

\* What a request is made of, by its stage.
LEMMA RequestFields ==
  ASSUME NEW r \in RequestStates
  PROVE  /\ r.at \in {"idle", "answered"} \cup CreateStages \cup DeleteStages
         /\ r.at \in CreateStages => r.user \in Users /\ r.url \in Urls /\ r.todo \in Seq(Tags)
         /\ r.at \in DeleteStages => r.user \in Users /\ r.id \in Ids
<1>1. CASE r = Idle
  BY <1>1 DEF Idle, CreateStages, DeleteStages
<1>2. CASE r \in [at : CreateStages, user : Users, url : Urls, todo : Seq(Tags)]
  BY <1>2 DEF CreateStages, DeleteStages
<1>3. CASE r \in [at : DeleteStages, user : Users, id : Ids]
  BY <1>3 DEF CreateStages, DeleteStages
<1>4. CASE r \in [at : {"answered"}, status : Statuses, id : Ids \cup {0}]
  BY <1>4 DEF CreateStages, DeleteStages
<1> QED BY <1>1, <1>2, <1>3, <1>4 DEF RequestStates

\* The requests that the actions make.
LEMMA NewRequests ==
  /\ Idle \in RequestStates /\ Idle.at = "idle"
  /\ \A stage \in CreateStages, user \in Users, url \in Urls, todo \in Seq(Tags) :
       /\ Creating(stage, user, url, todo) \in RequestStates
       /\ Creating(stage, user, url, todo).at = stage
       /\ Creating(stage, user, url, todo).todo = todo
  /\ \A stage \in DeleteStages, user \in Users, id \in Ids :
       /\ Deleting(stage, user, id) \in RequestStates
       /\ Deleting(stage, user, id).at = stage
       /\ Deleting(stage, user, id).user = user
       /\ Deleting(stage, user, id).id = id
  /\ \A status \in Statuses, id \in Ids \cup {0} :
       /\ Answered(status, id) \in RequestStates
       /\ Answered(status, id).at = "answered"
       /\ Answered(status, id).status = status
       /\ Answered(status, id).id = id
<1>1. Idle \in RequestStates /\ Idle.at = "idle"
  BY DEF Idle, RequestStates
<1>2. ASSUME NEW stage \in CreateStages, NEW user \in Users, NEW url \in Urls,
             NEW todo \in Seq(Tags)
      PROVE  /\ Creating(stage, user, url, todo) \in RequestStates
             /\ Creating(stage, user, url, todo).at = stage
             /\ Creating(stage, user, url, todo).todo = todo
  BY DEF Creating, RequestStates
<1>3. ASSUME NEW stage \in DeleteStages, NEW user \in Users, NEW id \in Ids
      PROVE  /\ Deleting(stage, user, id) \in RequestStates
             /\ Deleting(stage, user, id).at = stage
             /\ Deleting(stage, user, id).user = user
             /\ Deleting(stage, user, id).id = id
  BY DEF Deleting, RequestStates
<1>4. ASSUME NEW status \in Statuses, NEW id \in Ids \cup {0}
      PROVE  /\ Answered(status, id) \in RequestStates
             /\ Answered(status, id).at = "answered"
             /\ Answered(status, id).status = status
             /\ Answered(status, id).id = id
  BY DEF Answered, RequestStates
<1> QED BY <1>1, <1>2, <1>3, <1>4

\* The tags of a list: its first and those of the rest.
LEMMA RangeOfTodo ==
  ASSUME NEW todo \in Seq(Tags)
  PROVE  /\ Range(todo) \subseteq Tags
         /\ todo = <<>> => Range(todo) = {}
         /\ todo # <<>> => /\ Head(todo) \in Tags /\ Tail(todo) \in Seq(Tags)
                           /\ Range(todo) = {Head(todo)} \cup Range(Tail(todo))
<1>1. /\ Len(todo) \in Nat /\ DOMAIN todo = 1 .. Len(todo)
      /\ \A i \in 1 .. Len(todo) : todo[i] \in Tags
  BY LenProperties
<1>2. Range(todo) \subseteq Tags
  BY <1>1 DEF Range
<1>3. todo = <<>> => Range(todo) = {}
  BY DEF Range
<1>4. ASSUME todo # <<>>
      PROVE  /\ Head(todo) \in Tags /\ Tail(todo) \in Seq(Tags)
             /\ Range(todo) = {Head(todo)} \cup Range(Tail(todo))
  <2>1. /\ Head(todo) = todo[1] /\ Tail(todo) \in Seq(Tags) /\ Len(Tail(todo)) = Len(todo) - 1
        /\ \A i \in 1 .. Len(todo) - 1 : Tail(todo)[i] = todo[i + 1]
    BY <1>1, <1>4, HeadTailProperties
  <2>2. DOMAIN Tail(todo) = 1 .. Len(todo) - 1
    BY <2>1, LenProperties
  <2>3. 1 \in 1 .. Len(todo)
    BY <1>1, <1>4, EmptySeq
  <2>4. ASSUME NEW x \in Range(todo) PROVE x \in {Head(todo)} \cup Range(Tail(todo))
    <3>1. PICK i \in 1 .. Len(todo) : x = todo[i]
      BY <1>1 DEF Range
    <3>2. CASE i = 1
      BY <2>1, <3>1, <3>2
    <3>3. CASE i # 1
      <4>1. i - 1 \in 1 .. Len(todo) - 1 /\ (i - 1) + 1 = i
        BY <1>1, <3>3
      <4>2. x = Tail(todo)[i - 1]
        BY <2>1, <3>1, <4>1
      <4> QED BY <2>2, <4>1, <4>2 DEF Range
    <3> QED BY <3>2, <3>3
  <2>5. ASSUME NEW x \in {Head(todo)} \cup Range(Tail(todo)) PROVE x \in Range(todo)
    <3>1. CASE x = Head(todo)
      BY <1>1, <2>1, <2>3, <3>1 DEF Range
    <3>2. CASE x \in Range(Tail(todo))
      <4>1. PICK i \in 1 .. Len(todo) - 1 : x = Tail(todo)[i]
        BY <2>2, <3>2 DEF Range
      <4>2. i + 1 \in 1 .. Len(todo) /\ x = todo[i + 1]
        BY <1>1, <2>1, <4>1
      <4> QED BY <1>1, <4>2 DEF Range
    <3> QED BY <3>1, <3>2
  <2>6. Range(todo) = {Head(todo)} \cup Range(Tail(todo))
    BY <2>4, <2>5
  <2>7. Head(todo) \in Tags
    BY <1>1, <2>1, <2>3
  <2> QED BY <2>1, <2>6, <2>7
<1> QED BY <1>2, <1>3, <1>4

\* The stage after a list of tags, and what it says of the list.
LEMMA TagsNextStage ==
  ASSUME NEW todo
  PROVE  /\ TagsNext(todo) \in {"tag", "commit"}
         /\ TagsNext(todo) = "tag" => todo # <<>>
         /\ TagsNext(todo) = "commit" => todo = <<>>
  BY DEF TagsNext

\* Ids drawn and tags committed meanwhile leave a transaction's shape alone.
LEMMA ShapeLasts ==
  ASSUME NEW r \in RequestStates, NEW t \in Transactions, NEW n \in Nat, NEW n2 \in Nat, n <= n2,
         NEW g, NEW g2, g \subseteq g2,
         NEW w, NEW w2, \A i \in Ids : i < n => w2[i] = w[i],
         Shape(r, t, n, g, w)
  PROVE  Shape(r, t, n2, g2, w2)
<1>1. ASSUME Building(r, t, n, g, w) PROVE Building(r, t, n2, g2, w2)
  <2>1. PICK b \in t.row :
          /\ t.row = {b} /\ b.id < n
          /\ \A l \in t.links : l[1] = b.id /\ l[2] \in g \cup t.tags
          /\ {l[2] : l \in t.links} \cup Range(r.todo) = w[b.id]
    BY <1>1 DEF Building
  <2>2. b.id \in Ids /\ b.id \in Nat
    <3>1. b \in Rows
      BY DEF Transactions
    <3> QED BY <3>1 DEF Rows, Ids
  <2>3. b.id < n2 /\ w2[b.id] = w[b.id]
    BY <2>1, <2>2
  <2>4. \A l \in t.links : l[1] = b.id /\ l[2] \in g2 \cup t.tags
    BY <2>1
  <2> QED BY <1>1, <2>1, <2>3, <2>4 DEF Building
<1> QED BY <1>1 DEF Shape

\* The invariant's types, taken apart.
LEMMA Types ==
  ASSUME TypeOK
  PROVE  /\ MaxId \in Nat /\ IsFiniteSet(Requests)
         /\ nextId \in Nat /\ nextId >= 1 /\ nextId <= MaxId + 1
         /\ \A p \in Requests : req[p] \in RequestStates /\ tx[p] \in Transactions
         /\ \A b \in rows : b \in Rows /\ b.id \in Ids
         /\ \A p \in Requests : \A b \in tx[p].row : b \in Rows /\ b.id \in Ids
         /\ \A i \in Ids : i \in Nat /\ i >= 1 /\ i <= MaxId
<1>1. MaxId \in Nat /\ IsFiniteSet(Requests)
  BY BookmarkWritesAssumption
<1>2. nextId \in Nat /\ nextId >= 1 /\ nextId <= MaxId + 1
  BY <1>1 DEF TypeOK
<1>3. \A p \in Requests : req[p] \in RequestStates /\ tx[p] \in Transactions
  BY DEF TypeOK
<1>4. \A b \in Rows : b.id \in Ids
  BY DEF Rows
<1>5. \A b \in rows : b \in Rows
  BY DEF TypeOK
<1>6. \A t \in Transactions : \A b \in t.row : b \in Rows
  BY DEF Transactions
<1>7. \A i \in Ids : i \in Nat /\ i >= 1 /\ i <= MaxId
  BY <1>1 DEF Ids
<1> QED BY <1>1, <1>2, <1>3, <1>4, <1>5, <1>6, <1>7

-----------------------------------------------------------------------------
(* Steps inside a transaction *)

\* A step of p that commits nothing, and leaves or drops the row it would commit,
\* need only be right about p.
LEMMA LocalStep ==
  ASSUME IInv, NEW p \in Requests, NEW r \in RequestStates, NEW t \in Transactions,
         Goto(p, r), tx' = [tx EXCEPT ![p] = t], UNCHANGED <<dbVars, nextId, wanted>>,
         t.row \subseteq tx[p].row,
         r.at # "insert" \/ IdsLeft,
         Shape(r, t, nextId, tags, wanted),
         SafeDelete(r, t)
  PROVE  IInv'
<1>1. /\ req \in [Requests -> RequestStates] /\ tx \in [Requests -> Transactions]
      /\ TypeOK /\ Shapes /\ IdsSuffice /\ KeysAreUnique /\ BookmarksAreWhole /\ DeletesAreSafe
  BY DEF IInv, TypeOK
<1>2. /\ req' \in [Requests -> RequestStates] /\ req'[p] = r
      /\ \A q \in Requests \ {p} : req'[q] = req[q]
  BY <1>1 DEF Goto
<1>3. /\ tx' \in [Requests -> Transactions] /\ tx'[p] = t
      /\ \A q \in Requests \ {p} : tx'[q] = tx[q]
  BY <1>1
<1>4. rows' = rows /\ tags' = tags /\ links' = links /\ nextId' = nextId /\ wanted' = wanted
  BY DEF dbVars
<1>5. \A q \in Requests : tx'[q].row \subseteq tx[q].row
  BY <1>3
<1>6. TypeOK'
  BY <1>1, <1>2, <1>3, <1>4 DEF TypeOK
<1>7. Shapes'
  <2>1. Shape(r, t, nextId', tags', wanted')
    BY <1>4
  <2>2. \A q \in Requests : Shape(req[q], tx[q], nextId', tags', wanted')
    BY <1>1, <1>4 DEF Shapes
  <2> QED BY <1>2, <1>3, <2>1, <2>2 DEF Shapes
<1>8. IdsSuffice'
  <2>1. nextId \in Nat /\ MaxId \in Nat /\ IsFiniteSet(Requests)
    BY <1>1, Types
  <2>2. IsFiniteSet(Inserting) /\ Cardinality(Inserting) \in Nat
    BY <2>1, FS_Subset, FS_CardinalityType DEF Inserting
  <2>3. CASE r.at # "insert"
    <3>1. Inserting' \subseteq Inserting
      BY <1>2, <2>3 DEF Inserting, At
    <3>2. Cardinality(Inserting') <= Cardinality(Inserting) /\ Cardinality(Inserting') \in Nat
      BY <2>2, <3>1, FS_Subset, FS_CardinalityType
    <3> QED BY <1>1, <1>4, <2>1, <2>2, <3>2 DEF IdsSuffice
  <2>4. CASE IdsLeft
    <3>1. Inserting' \subseteq Inserting \cup {p}
      BY <1>2 DEF Inserting, At
    <3>2. /\ IsFiniteSet(Inserting \cup {p})
          /\ Cardinality(Inserting \cup {p}) \in Nat
          /\ Cardinality(Inserting \cup {p}) <= Cardinality(Inserting) + 1
      <4>1. /\ IsFiniteSet(Inserting \cup {p})
            /\ Cardinality(Inserting \cup {p}) =
                 IF p \in Inserting THEN Cardinality(Inserting) ELSE Cardinality(Inserting) + 1
        BY <2>2, FS_AddElement
      <4> QED BY <2>2, <4>1
    <3>3. /\ Cardinality(Inserting') <= Cardinality(Inserting \cup {p})
          /\ Cardinality(Inserting') \in Nat
      BY <3>1, <3>2, FS_Subset, FS_CardinalityType
    <3>4. nextId + Cardinality(Inserting) <= MaxId
      BY <2>4 DEF IdsLeft, Inserting
    <3> QED BY <1>4, <2>1, <2>2, <3>2, <3>3, <3>4 DEF IdsSuffice
  <2> QED BY <2>3, <2>4
<1>9. KeysAreUnique'
  BY <1>1, <1>4, <1>5 DEF KeysAreUnique
<1>10. BookmarksAreWhole'
  BY <1>1, <1>4 DEF BookmarksAreWhole
<1>11. DeletesAreSafe'
  <2>1. \A i : (NotPending(i) => NotPending(i)') /\ (NoRow(i) => NoRow(i)')
    BY <1>4, <1>5 DEF NotPending, NoRow
  <2>2. \A s, u : SafeDelete(s, u) => SafeDelete(s, u)'
    BY <1>4, <2>1 DEF SafeDelete
  <2>3. SafeDelete(r, t)'
    BY <2>2
  <2> QED BY <1>1, <1>2, <1>3, <2>2, <2>3 DEF DeletesAreSafe
<1> QED BY <1>6, <1>7, <1>8, <1>9, <1>10, <1>11 DEF IInv

\* Whatever rolls back and answers with an error, or goes idle, is a local step.
LEMMA RollBack ==
  ASSUME IInv, NEW p \in Requests, NEW r \in RequestStates,
         r.at = "idle" \/ (r.at = "answered" /\ r.status # 204),
         Goto(p, r), tx' = [tx EXCEPT ![p] = NoWrites],
         UNCHANGED <<dbVars, nextId, wanted>>
  PROVE  IInv'
<1>1. NoWrites \in Transactions /\ NoWrites.row = {}
  BY DEF NoWrites, Transactions
<1>2. Shape(r, NoWrites, nextId, tags, wanted)
  BY DEF Shape
<1>3. SafeDelete(r, NoWrites)
  BY DEF SafeDelete
<1> QED BY <1>1, <1>2, <1>3, LocalStep

\* A step of p that writes nothing.
LEMMA ReadStep ==
  ASSUME IInv, NEW p \in Requests, NEW r \in RequestStates,
         req[p].at \in {"idle", "answered", "insert", "select", "delete"},
         r.at \in {"idle", "insert", "select", "delete"},
         Goto(p, r), UNCHANGED <<dbVars, nextId, tx, wanted>>,
         r.at # "insert" \/ IdsLeft,
         r.at = "delete" =>
           NotPending(r.id) /\ \A b \in rows : b.id = r.id => b.owner = r.user
  PROVE  IInv'
<1>1. tx \in [Requests -> Transactions] /\ tx[p] \in Transactions
  BY DEF IInv, TypeOK
<1>2. tx[p] = NoWrites
  BY DEF IInv, Shapes, Shape
<1>3. tx' = [tx EXCEPT ![p] = NoWrites]
  BY <1>1, <1>2
<1>4. Shape(r, NoWrites, nextId, tags, wanted)
  BY DEF Shape
<1>5. SafeDelete(r, NoWrites)
  BY DEF SafeDelete
<1> QED BY <1>1, <1>2, <1>3, <1>4, <1>5, LocalStep

LEMMA StartCreateStep == ASSUME IInv, NEW p \in Requests, StartCreate(p) PROVE IInv'
<1>1. PICK user \in Users, url \in Urls, todo \in TagLists :
        Goto(p, Creating("insert", user, url, todo))
  BY DEF StartCreate
<1>2. todo \in Seq(Tags) /\ "insert" \in CreateStages
  BY BookmarkWritesAssumption DEF CreateStages
<1>3. /\ Creating("insert", user, url, todo) \in RequestStates
      /\ Creating("insert", user, url, todo).at = "insert"
  BY <1>2, NewRequests
<1>4. IdsLeft /\ req[p].at = "idle" /\ UNCHANGED <<dbVars, nextId, tx, wanted>>
  BY DEF StartCreate, At
<1> QED BY <1>1, <1>3, <1>4, ReadStep

LEMMA StartDeleteStep == ASSUME IInv, NEW p \in Requests, StartDelete(p) PROVE IInv'
<1>1. PICK user \in Users, id \in 1 .. nextId - 1 : Goto(p, Deleting("select", user, id))
  BY DEF StartDelete
<1>2. id \in Ids /\ "select" \in DeleteStages
  BY Types DEF IInv, Ids, DeleteStages
<1>3. /\ Deleting("select", user, id) \in RequestStates
      /\ Deleting("select", user, id).at = "select"
  BY <1>2, NewRequests
<1>4. req[p].at = "idle" /\ UNCHANGED <<dbVars, nextId, tx, wanted>>
  BY DEF StartDelete, At
<1> QED BY <1>1, <1>3, <1>4, ReadStep

LEMMA LeaveStep == ASSUME IInv, NEW p \in Requests, Leave(p) PROVE IInv'
<1>1. req[p].at = "answered" /\ Goto(p, Idle) /\ UNCHANGED <<dbVars, nextId, tx, wanted>>
  BY DEF Leave, At
<1> QED BY <1>1, NewRequests, ReadStep

LEMMA CrashStep == ASSUME IInv, NEW p \in Requests, Crash(p) PROVE IInv'
<1>1. /\ Goto(p, Idle) /\ tx' = [tx EXCEPT ![p] = NoWrites]
      /\ UNCHANGED <<dbVars, nextId, wanted>>
  BY DEF Crash
<1> QED BY <1>1, NewRequests, RollBack

\* Each error but 204 that ends a transaction.
LEMMA RefuseStep ==
  ASSUME IInv, NEW p \in Requests, NEW status \in Statuses \ {204}, NEW id \in Ids \cup {0},
         Refuse(p, status, id)
  PROVE  IInv'
<1>1. /\ Answered(status, id) \in RequestStates
      /\ Answered(status, id).at = "answered" /\ Answered(status, id).status # 204
  BY NewRequests
<1>2. /\ Goto(p, Answered(status, id)) /\ tx' = [tx EXCEPT ![p] = NoWrites]
      /\ UNCHANGED <<dbVars, nextId, wanted>>
  BY DEF Refuse, RolledBack
<1> QED BY <1>1, <1>2, RollBack

LEMMA RefusalsStep ==
  ASSUME IInv, NEW p \in Requests,
         SelectRefused(p) \/ DeadlockDetected(p)
  PROVE  IInv'
<1>1. CASE SelectRefused(p)
  <2>1. req[p].at = "select" /\ (Refuse(p, 404, req[p].id) \/ Refuse(p, 403, req[p].id))
    BY <1>1 DEF SelectRefused, At
  <2>2. req[p].id \in Ids
    <3>1. req[p] \in RequestStates
      BY Types DEF IInv
    <3> QED BY <2>1, <3>1, RequestFields DEF DeleteStages
  <2> QED BY <2>1, <2>2, RefuseStep DEF Statuses
<1>2. CASE DeadlockDetected(p)
  <2>1. Refuse(p, 500, 0)
    BY <1>2 DEF DeadlockDetected
  <2> QED BY <2>1, RefuseStep DEF Statuses
<1> QED BY <1>1, <1>2

\* The SELECT that finds the owner's row: its id has been drawn, and no open
\* transaction will commit it again.
LEMMA SelectOwnerStep == ASSUME IInv, NEW p \in Requests, SelectOwner(p) PROVE IInv'
<1> DEFINE r == req[p]
           s == Deleting("delete", r.user, r.id)
<1>1. /\ r.at = "select" /\ OwnerOf(r.id) = {r.user} /\ Goto(p, s)
      /\ UNCHANGED <<dbVars, nextId, tx, wanted>>
  BY DEF SelectOwner, At
<1>2. r.user \in Users /\ r.id \in Ids /\ "delete" \in DeleteStages
  <2>1. r \in RequestStates
    BY Types DEF IInv
  <2> QED BY <1>1, <2>1, RequestFields DEF DeleteStages
<1>3. s \in RequestStates /\ s.at = "delete" /\ s.user = r.user /\ s.id = r.id
  BY <1>2, NewRequests
<1>4. PICK c \in rows : c.id = r.id
  BY <1>1 DEF OwnerOf
<1>5. NotPending(r.id)
  <2>1. c.id \in 1 .. nextId - 1
    BY <1>4, Types DEF IInv, KeysAreUnique
  <2> QED BY <1>4, <2>1 DEF IInv, KeysAreUnique, NotPending
<1>6. \A b \in rows : b.id = r.id => b.owner = r.user
  BY <1>1 DEF OwnerOf
<1> HIDE DEF r, s
<1> QED BY <1>1, <1>3, <1>5, <1>6, ReadStep DEF r

\* The DELETE statement: the row, if it is still there, and else nothing, now and
\* later.
LEMMA DeleteRowStep == ASSUME IInv, NEW p \in Requests, DeleteRow(p) PROVE IInv'
<1> DEFINE r == req[p]
           s == Deleting("commitDelete", r.user, r.id)
           gone == {b.id : b \in {c \in rows : c.id = r.id}}
           t == [NoWrites EXCEPT !.deletes = gone]
<1>1. /\ r.at = "delete" /\ Goto(p, s)
      /\ tx' = [tx EXCEPT ![p].deletes = gone]
      /\ UNCHANGED <<dbVars, nextId, wanted>>
  BY DEF DeleteRow, At
<1>2. r \in RequestStates /\ tx \in [Requests -> Transactions]
  BY DEF IInv, TypeOK
<1>3. r.user \in Users /\ r.id \in Ids /\ "commitDelete" \in DeleteStages
  BY <1>1, <1>2, RequestFields DEF DeleteStages
<1>4. s \in RequestStates /\ s.at = "commitDelete" /\ s.user = r.user /\ s.id = r.id
  BY <1>3, NewRequests
<1>5. gone \subseteq {r.id} /\ (gone = {} => NoRow(r.id))
  BY DEF NoRow
<1>6. tx[p] = NoWrites
  BY <1>1 DEF IInv, Shapes, Shape
<1>7. tx' = [tx EXCEPT ![p] = t]
  BY <1>1, <1>2, <1>6
<1>8. t \in Transactions /\ t.row = {} /\ t.tags = {} /\ t.links = {} /\ t.deletes = gone
  BY <1>3, <1>5 DEF NoWrites, Transactions
<1>9. NotPending(r.id) /\ \A b \in rows : b.id = r.id => b.owner = r.user
  BY <1>1 DEF IInv, DeletesAreSafe, SafeDelete
<1> HIDE DEF r, s, gone, t
<1>10. Shape(s, t, nextId, tags, wanted)
  BY <1>4, <1>5, <1>8 DEF Shape
<1>11. SafeDelete(s, t)
  BY <1>4, <1>5, <1>8, <1>9 DEF SafeDelete
<1> QED BY <1>1, <1>4, <1>7, <1>8, <1>10, <1>11, LocalStep

\* A POST between its first INSERT and its commit: its row, and what it still has
\* to do.
LEMMA BuildingFacts ==
  ASSUME IInv, NEW p \in Requests, req[p].at \in {"tag", "link", "commit"}
  PROVE  /\ req[p].user \in Users /\ req[p].url \in Urls /\ req[p].todo \in Seq(Tags)
         /\ tx[p] \in Transactions
         /\ tx[p].tags \subseteq Tags /\ tx[p].links \subseteq Ids \X Tags /\ tx[p].deletes = {}
         /\ req[p].at # "commit" =>
              /\ req[p].todo # <<>>
              /\ Head(req[p].todo) \in Tags /\ Tail(req[p].todo) \in Seq(Tags)
              /\ Range(req[p].todo) = {Head(req[p].todo)} \cup Range(Tail(req[p].todo))
         /\ req[p].at = "link" => Head(req[p].todo) \in VisibleTags(p)
         /\ req[p].at = "commit" => Range(req[p].todo) = {}
         /\ \E b \in tx[p].row :
              /\ tx[p].row = {b} /\ b \in Rows /\ b.id \in Ids /\ b.id < nextId
              /\ \A l \in tx[p].links : l[1] = b.id /\ l[2] \in VisibleTags(p)
              /\ {l[2] : l \in tx[p].links} \cup Range(req[p].todo) = wanted[b.id]
<1>1. req[p] \in RequestStates /\ tx[p] \in Transactions
  BY Types DEF IInv
<1>2. req[p].user \in Users /\ req[p].url \in Urls /\ req[p].todo \in Seq(Tags)
  BY <1>1, RequestFields DEF CreateStages
<1>3. tx[p].tags \subseteq Tags /\ tx[p].links \subseteq Ids \X Tags
  BY <1>1 DEF Transactions
<1>4. Shape(req[p], tx[p], nextId, tags, wanted)
  BY DEF IInv, Shapes
<1>5. Building(req[p], tx[p], nextId, tags, wanted)
  BY <1>4 DEF Shape
<1>6. PICK b \in tx[p].row :
        /\ tx[p].row = {b} /\ b.id < nextId
        /\ \A l \in tx[p].links : l[1] = b.id /\ l[2] \in tags \cup tx[p].tags
        /\ {l[2] : l \in tx[p].links} \cup Range(req[p].todo) = wanted[b.id]
  BY <1>5 DEF Building
<1>7. b \in Rows /\ b.id \in Ids
  BY Types DEF IInv
<1>8. req[p].at # "commit" =>
        /\ req[p].todo # <<>>
        /\ Head(req[p].todo) \in Tags /\ Tail(req[p].todo) \in Seq(Tags)
        /\ Range(req[p].todo) = {Head(req[p].todo)} \cup Range(Tail(req[p].todo))
  BY <1>2, <1>4, RangeOfTodo DEF Shape
<1>9. req[p].at = "commit" => Range(req[p].todo) = {}
  BY <1>2, <1>4, RangeOfTodo DEF Shape
<1>10. req[p].at = "link" => Head(req[p].todo) \in VisibleTags(p)
  BY <1>4 DEF Shape, VisibleTags
<1>11. tx[p].deletes = {}
  BY <1>5 DEF Building
<1> QED BY <1>1, <1>2, <1>3, <1>6, <1>7, <1>8, <1>9, <1>10, <1>11 DEF VisibleTags

\* The tag exists from here on, committed or as this transaction's own.
LEMMA InsertTagStep == ASSUME IInv, NEW p \in Requests, InsertTag(p) PROVE IInv'
<1> DEFINE r == req[p]
           s == Creating("link", r.user, r.url, r.todo)
           new == IF Head(r.todo) \in tags THEN tx[p].tags ELSE tx[p].tags \cup {Head(r.todo)}
           t == [tx[p] EXCEPT !.tags = new]
<1>1. /\ r.at = "tag" /\ Goto(p, s)
      /\ tx' = [tx EXCEPT ![p].tags = new]
      /\ UNCHANGED <<dbVars, nextId, wanted>>
  BY DEF InsertTag, At
<1>2. tx \in [Requests -> Transactions] /\ tx' = [tx EXCEPT ![p] = t]
  BY <1>1 DEF IInv, TypeOK
<1>3. /\ r.user \in Users /\ r.url \in Urls /\ r.todo \in Seq(Tags) /\ r.todo # <<>>
      /\ Head(r.todo) \in Tags /\ tx[p].tags \subseteq Tags /\ tx[p].deletes = {}
  BY <1>1, BuildingFacts
<1>4. s \in RequestStates /\ s.at = "link" /\ s.todo = r.todo
  BY <1>3, NewRequests DEF CreateStages
<1>5. new \subseteq Tags /\ tx[p].tags \subseteq new /\ Head(r.todo) \in tags \cup new
  BY <1>3
<1> HIDE DEF new
<1>6. /\ t \in Transactions /\ t.row = tx[p].row /\ t.tags = new
      /\ t.links = tx[p].links /\ t.deletes = {}
  BY <1>2, <1>3, <1>5 DEF Transactions
<1>7. Building(r, tx[p], nextId, tags, wanted)
  BY <1>1 DEF IInv, Shapes, Shape
<1> HIDE DEF r, s, t
<1>8. Building(s, t, nextId, tags, wanted)
  BY <1>4, <1>5, <1>6, <1>7 DEF Building
<1>9. Shape(s, t, nextId, tags, wanted)
  BY <1>3, <1>4, <1>5, <1>6, <1>8 DEF Shape
<1>10. SafeDelete(s, t)
  BY <1>4 DEF SafeDelete
<1> QED BY <1>1, <1>2, <1>4, <1>6, <1>9, <1>10, LocalStep

\* The tag is visible, so the link is made, and one tag fewer is left to do.
LEMMA InsertLinkStep == ASSUME IInv, NEW p \in Requests, InsertLink(p) PROVE IInv'
<1> DEFINE r == req[p]
           tag == Head(r.todo)
           s == Creating(TagsNext(Tail(r.todo)), r.user, r.url, Tail(r.todo))
           more == {<<c.id, x>> : c \in tx[p].row, x \in {tag} \cap VisibleTags(p)}
           t == [tx[p] EXCEPT !.links = tx[p].links \cup more]
<1>1. /\ r.at = "link" /\ Goto(p, s)
      /\ tx' = [tx EXCEPT ![p].links = tx[p].links \cup more]
      /\ UNCHANGED <<dbVars, nextId, wanted>>
  BY DEF InsertLink, At
<1>2. tx \in [Requests -> Transactions] /\ tx' = [tx EXCEPT ![p] = t]
  BY <1>1 DEF IInv, TypeOK
<1>3. /\ r.user \in Users /\ r.url \in Urls
      /\ tag \in Tags /\ tag \in VisibleTags(p) /\ Tail(r.todo) \in Seq(Tags)
      /\ Range(r.todo) = {tag} \cup Range(Tail(r.todo))
      /\ tx[p].links \subseteq Ids \X Tags /\ tx[p].deletes = {}
  BY <1>1, BuildingFacts
<1>4. PICK b \in tx[p].row :
        /\ tx[p].row = {b} /\ b.id \in Ids /\ b.id < nextId
        /\ \A l \in tx[p].links : l[1] = b.id /\ l[2] \in VisibleTags(p)
        /\ {l[2] : l \in tx[p].links} \cup Range(r.todo) = wanted[b.id]
  BY <1>1, BuildingFacts
<1>5. more = {<<b.id, tag>>}
  BY <1>3, <1>4
<1>6. /\ s \in RequestStates /\ s.at = TagsNext(Tail(r.todo)) /\ s.todo = Tail(r.todo)
      /\ s.at \in {"tag", "commit"}
      /\ s.at = "tag" => s.todo # <<>>
      /\ s.at = "commit" => s.todo = <<>>
  <2> DEFINE rest == Tail(r.todo)
             stage == TagsNext(rest)
  <2>1. /\ stage \in {"tag", "commit"} /\ stage \in CreateStages
        /\ stage = "tag" => rest # <<>>
        /\ stage = "commit" => rest = <<>>
    BY TagsNextStage DEF CreateStages
  <2>2. s = Creating(stage, r.user, r.url, rest) /\ rest \in Seq(Tags)
    BY <1>3
  <2>3. r.user \in Users /\ r.url \in Urls
    BY <1>3
  <2> HIDE DEF s, stage, rest, r
  <2>4. s \in RequestStates /\ s.at = stage /\ s.todo = rest
    BY <2>1, <2>2, <2>3, NewRequests
  <2> QED BY <2>1, <2>4 DEF stage, rest
<1> HIDE DEF more
<1>7. /\ t \in Transactions /\ t.row = tx[p].row /\ t.tags = tx[p].tags
      /\ t.links = tx[p].links \cup {<<b.id, tag>>} /\ t.deletes = {}
  <2>1. <<b.id, tag>> \in Ids \X Tags
    BY <1>3, <1>4
  <2>2. tx[p].links \cup more \in SUBSET (Ids \X Tags)
    BY <1>3, <1>5, <2>1
  <2>3. tx[p] \in Transactions
    BY <1>2
  <2> HIDE DEF tag, r
  <2> QED BY <1>3, <1>5, <2>2, <2>3 DEF Transactions
<1> HIDE DEF r, s, t, tag
<1>8. \A l \in t.links : l[1] = b.id /\ l[2] \in tags \cup t.tags
  BY <1>3, <1>4, <1>7 DEF VisibleTags
<1>9. {l[2] : l \in t.links} \cup Range(s.todo) = wanted[b.id]
  <2>1. {l[2] : l \in t.links} = {l[2] : l \in tx[p].links} \cup {tag}
    <3>1. <<b.id, tag>>[2] = tag
      OBVIOUS
    <3> QED BY <1>7, <3>1, Zenon
  <2> QED BY <1>3, <1>4, <1>6, <2>1
<1>10. Building(s, t, nextId, tags, wanted)
  BY <1>4, <1>7, <1>8, <1>9 DEF Building
<1>11. Shape(s, t, nextId, tags, wanted)
  BY <1>6, <1>10 DEF Shape
<1>12. SafeDelete(s, t)
  BY <1>6 DEF SafeDelete
<1> QED BY <1>1, <1>2, <1>6, <1>7, <1>11, <1>12, LocalStep

-----------------------------------------------------------------------------
(* Steps that others see *)

\* A request that draws its id is one less to draw one.
LEMMA OneInsertsLess ==
  ASSUME IsFiniteSet(Requests), NEW p \in Requests, At(p, "insert")
  PROVE  /\ p \in Inserting /\ Cardinality(Inserting) \in Nat
         /\ Cardinality(Inserting \ {p}) \in Nat
         /\ Cardinality(Inserting \ {p}) = Cardinality(Inserting) - 1
<1>1. p \in Inserting
  BY DEF Inserting
<1>2. IsFiniteSet(Inserting) /\ Cardinality(Inserting) \in Nat
  BY FS_Subset, FS_CardinalityType DEF Inserting
<1>3. /\ IsFiniteSet(Inserting \ {p})
      /\ Cardinality(Inserting \ {p}) = Cardinality(Inserting) - 1
  BY <1>1, <1>2, FS_RemoveElement
<1>4. Cardinality(Inserting \ {p}) \in Nat
  BY <1>3, FS_CardinalityType
<1> QED BY <1>1, <1>2, <1>3, <1>4

\* The INSERT that is refused: an id is drawn that nobody will ever have.
LEMMA InsertConflictsStep == ASSUME IInv, NEW p \in Requests, InsertConflicts(p) PROVE IInv'
<1> DEFINE s == Answered(409, 0)
<1>1. /\ req[p].at = "insert" /\ nextId' = nextId + 1
      /\ tx' = [tx EXCEPT ![p] = NoWrites] /\ req' = [req EXCEPT ![p] = s]
      /\ rows' = rows /\ tags' = tags /\ links' = links /\ wanted' = wanted
  BY DEF InsertConflicts, RolledBack, At, Goto, dbVars
<1>2. /\ req \in [Requests -> RequestStates] /\ tx \in [Requests -> Transactions]
      /\ wanted \in [Ids -> SUBSET Tags]
      /\ TypeOK /\ Shapes /\ IdsSuffice /\ KeysAreUnique /\ BookmarksAreWhole /\ DeletesAreSafe
  BY DEF IInv, TypeOK
<1>3. /\ MaxId \in Nat /\ IsFiniteSet(Requests)
      /\ nextId \in Nat /\ nextId >= 1 /\ nextId <= MaxId + 1
      /\ \A c \in rows : c.id \in Nat
  BY <1>2, Types
<1>4. s \in RequestStates /\ s.at = "answered" /\ s.status # 204
  BY NewRequests DEF Statuses
<1> HIDE DEF s
<1>5. /\ req' \in [Requests -> RequestStates] /\ req'[p] = s
      /\ \A q \in Requests \ {p} : req'[q] = req[q]
  BY <1>1, <1>2, <1>4
<1>6. tx' = tx /\ tx[p] = NoWrites
  <2>1. tx[p] = NoWrites
    BY <1>1, <1>2 DEF Shapes, Shape
  <2> QED BY <1>1, <1>2, <2>1
<1>7. IdsSuffice' /\ nextId' \in 1 .. MaxId + 1
  <2>1. /\ p \in Inserting /\ Cardinality(Inserting) \in Nat
        /\ Cardinality(Inserting \ {p}) \in Nat
        /\ Cardinality(Inserting \ {p}) = Cardinality(Inserting) - 1
    BY <1>1, <1>3, OneInsertsLess DEF At
  <2>2. Inserting' = Inserting \ {p}
    BY <1>4, <1>5 DEF Inserting, At
  <2> QED BY <1>1, <1>2, <1>3, <2>1, <2>2 DEF IdsSuffice
<1>8. TypeOK'
  BY <1>1, <1>2, <1>5, <1>6, <1>7 DEF TypeOK
<1>9. Shapes'
  <2>1. Shape(s, NoWrites, nextId', tags', wanted')
    BY <1>4 DEF Shape
  <2>2. ASSUME NEW q \in Requests
        PROVE  Shape(req[q], tx[q], nextId', tags', wanted')
    <3>1. /\ Shape(req[q], tx[q], nextId, tags, wanted)
          /\ req[q] \in RequestStates /\ tx[q] \in Transactions
      BY <1>2 DEF Shapes
    <3>2. /\ nextId' \in Nat /\ nextId <= nextId' /\ tags \subseteq tags'
          /\ \A i \in Ids : i < nextId => wanted'[i] = wanted[i]
      BY <1>1, <1>3
    <3> QED BY <1>3, <3>1, <3>2, ShapeLasts
  <2> QED BY <1>5, <1>6, <2>1, <2>2 DEF Shapes
<1>10. KeysAreUnique'
  BY <1>1, <1>2, <1>3, <1>6 DEF KeysAreUnique
<1>11. BookmarksAreWhole'
  BY <1>1, <1>2 DEF BookmarksAreWhole
<1>12. DeletesAreSafe'
  <2>1. \A i : NotPending(i) => NotPending(i)'
    BY <1>1, <1>3, <1>6 DEF NotPending
  <2>2. \A x, y : SafeDelete(x, y) => SafeDelete(x, y)'
    BY <1>1, <2>1 DEF SafeDelete, NoRow
  <2>3. SafeDelete(s, NoWrites)
    BY <1>4 DEF SafeDelete
  <2> QED BY <1>2, <1>5, <1>6, <2>2, <2>3 DEF DeletesAreSafe
<1> QED BY <1>7, <1>8, <1>9, <1>10, <1>11, <1>12 DEF IInv

\* The first INSERT: nobody has its URL or its id, neither in a row nor in one
\* still to be committed.
LEMMA InsertBookmarkStep == ASSUME IInv, NEW p \in Requests, InsertBookmark(p) PROVE IInv'
<1> DEFINE r == req[p]
           s == Creating(TagsNext(r.todo), r.user, r.url, r.todo)
           b == Row(nextId, r.url, r.user)
           t == [NoWrites EXCEPT !.row = {b}]
<1>1. /\ r.at = "insert" /\ WaitsFor(p) = {} /\ ~UrlTaken(r.url)
      /\ tx' = [tx EXCEPT ![p].row = {b}]
      /\ nextId' = nextId + 1
      /\ wanted' = [wanted EXCEPT ![nextId] = Range(r.todo)]
      /\ req' = [req EXCEPT ![p] = s]
      /\ rows' = rows /\ tags' = tags /\ links' = links
  BY DEF InsertBookmark, At, Goto, dbVars
<1>2. /\ req \in [Requests -> RequestStates] /\ tx \in [Requests -> Transactions]
      /\ wanted \in [Ids -> SUBSET Tags]
      /\ rows \subseteq Rows /\ tags \subseteq Tags /\ links \subseteq Ids \X Tags
      /\ TypeOK /\ Shapes /\ IdsSuffice /\ KeysAreUnique /\ BookmarksAreWhole /\ DeletesAreSafe
  BY DEF IInv, TypeOK
<1>3. /\ MaxId \in Nat /\ IsFiniteSet(Requests)
      /\ nextId \in Nat /\ nextId >= 1 /\ nextId <= MaxId + 1
      /\ \A c \in rows : c \in Rows /\ c.id \in Ids
      /\ \A q \in Requests : \A c \in tx[q].row : c \in Rows /\ c.id \in Ids
      /\ \A i \in Ids : i \in Nat /\ i >= 1 /\ i <= MaxId
  BY <1>2, Types
<1>4. r.user \in Users /\ r.url \in Urls /\ r.todo \in Seq(Tags)
  BY <1>1, <1>2, RequestFields DEF CreateStages
<1>5. /\ p \in Inserting /\ Cardinality(Inserting) \in Nat
      /\ Cardinality(Inserting \ {p}) \in Nat
      /\ Cardinality(Inserting \ {p}) = Cardinality(Inserting) - 1
  BY <1>1, <1>3, OneInsertsLess DEF At
<1>6. nextId \in Ids
  BY <1>2, <1>3, <1>5 DEF IdsSuffice, Ids
<1>7. /\ s \in RequestStates /\ s.at = TagsNext(r.todo) /\ s.todo = r.todo
      /\ s.at \in {"tag", "commit"}
      /\ s.at = "tag" => s.todo # <<>>
      /\ s.at = "commit" => s.todo = <<>>
  <2> DEFINE stage == TagsNext(r.todo)
  <2>1. /\ stage \in {"tag", "commit"} /\ stage \in CreateStages
        /\ stage = "tag" => r.todo # <<>>
        /\ stage = "commit" => r.todo = <<>>
    BY TagsNextStage DEF CreateStages
  <2>2. s = Creating(stage, r.user, r.url, r.todo)
    OBVIOUS
  <2> HIDE DEF s, stage, r
  <2>3. s \in RequestStates /\ s.at = stage /\ s.todo = r.todo
    BY <1>4, <2>1, <2>2, NewRequests
  <2> QED BY <2>1, <2>3 DEF stage
<1>8. b \in Rows /\ b.id = nextId /\ b.url = r.url
  BY <1>4, <1>6 DEF Row, Rows
<1> HIDE DEF r, s, b
<1>9. tx' = [tx EXCEPT ![p] = t]
  <2>1. tx[p] = NoWrites
    BY <1>1, <1>2 DEF Shapes, Shape, r
  <2> QED BY <1>1, <1>2, <2>1
<1>10. /\ t \in Transactions /\ t.row = {b} /\ t.tags = {} /\ t.links = {} /\ t.deletes = {}
  BY <1>8 DEF NoWrites, Transactions
<1> HIDE DEF t
<1>11. /\ req' \in [Requests -> RequestStates] /\ req'[p] = s
       /\ \A q \in Requests \ {p} : req'[q] = req[q]
  BY <1>1, <1>2, <1>7
<1>12. /\ tx' \in [Requests -> Transactions] /\ tx'[p] = t
       /\ \A q \in Requests \ {p} : tx'[q] = tx[q]
  BY <1>2, <1>9, <1>10
<1>13. Range(r.todo) \subseteq Tags
  BY <1>4, RangeOfTodo
<1>14. /\ wanted' \in [Ids -> SUBSET Tags] /\ wanted'[nextId] = Range(r.todo)
       /\ \A i \in Ids : i < nextId => wanted'[i] = wanted[i]
  BY <1>1, <1>2, <1>3, <1>6, <1>13
<1>15. TypeOK'
  <2>1. nextId' \in 1 .. MaxId + 1
    BY <1>1, <1>3, <1>6
  <2> QED BY <1>1, <1>2, <1>11, <1>12, <1>14, <2>1 DEF TypeOK
<1>16. Shapes'
  <2>1. Shape(s, t, nextId', tags', wanted')
    <3>1. Building(s, t, nextId', tags', wanted')
      <4>1. b.id < nextId'
        BY <1>1, <1>3, <1>8
      <4>2. {l[2] : l \in t.links} \cup Range(s.todo) = wanted'[b.id]
        BY <1>7, <1>8, <1>10, <1>14
      <4> QED BY <1>10, <4>1, <4>2 DEF Building
    <3> QED BY <1>7, <3>1 DEF Shape
  <2>2. ASSUME NEW q \in Requests \ {p}
        PROVE  Shape(req[q], tx[q], nextId', tags', wanted')
    <3>1. /\ Shape(req[q], tx[q], nextId, tags, wanted)
          /\ req[q] \in RequestStates /\ tx[q] \in Transactions
      BY <1>2 DEF Shapes
    <3>2. nextId' \in Nat /\ nextId <= nextId' /\ tags \subseteq tags'
      BY <1>1, <1>3
    <3> QED BY <1>3, <1>14, <3>1, <3>2, ShapeLasts
  <2> QED BY <1>11, <1>12, <2>1, <2>2 DEF Shapes
<1>17. IdsSuffice'
  <2>1. Inserting' = Inserting \ {p}
    BY <1>7, <1>11 DEF Inserting, At
  <2> QED BY <1>1, <1>2, <1>3, <1>5, <2>1 DEF IdsSuffice
<1>18. KeysAreUnique'
  <2>1. \A c \in rows : c.id < nextId /\ c.id # nextId
    BY <1>2, <1>3 DEF KeysAreUnique
  <2>2. \A q \in Requests : \A c \in tx[q].row : c.id # nextId
    <3> SUFFICES ASSUME NEW q \in Requests, NEW c \in tx[q].row PROVE c.id # nextId
      OBVIOUS
    <3>1. Shape(req[q], tx[q], nextId, tags, wanted) /\ req[q] \in RequestStates
      BY <1>2 DEF Shapes
    <3>2. Building(req[q], tx[q], nextId, tags, wanted)
      <4>1. tx[q] # NoWrites /\ tx[q].row # {}
        BY DEF NoWrites
      <4> QED BY <3>1, <4>1, RequestFields DEF Shape, CreateStages, DeleteStages
    <3>3. c.id < nextId
      BY <3>2 DEF Building
    <3> QED BY <1>3, <3>3
  <2>3. \A c \in rows : c.url # b.url
    BY <1>1, <1>8 DEF UrlTaken
  <2>4. \A q \in Requests \ {p} : \A c \in tx[q].row : c.url # b.url
    BY <1>1, <1>8 DEF WaitsFor, At, UrlHolders, r
  <2>5. \A a \in rows' : a.id < nextId'
    BY <1>1, <1>3, <2>1
  <2>6. \A q \in Requests : \A c \in tx'[q].row, a \in rows' : a.id # c.id /\ a.url # c.url
    BY <1>1, <1>2, <1>8, <1>10, <1>12, <2>1, <2>3 DEF KeysAreUnique
  <2>7. \A q, o \in Requests : q # o =>
          \A a \in tx'[q].row, c \in tx'[o].row : a.id # c.id /\ a.url # c.url
    <3> SUFFICES ASSUME NEW q \in Requests, NEW o \in Requests, q # o,
                        NEW a \in tx'[q].row, NEW c \in tx'[o].row
                 PROVE  a.id # c.id /\ a.url # c.url
      OBVIOUS
    <3>1. CASE q = p
      BY <1>8, <1>10, <1>12, <2>2, <2>4, <3>1
    <3>2. CASE o = p
      BY <1>8, <1>10, <1>12, <2>2, <2>4, <3>2
    <3>3. CASE q # p /\ o # p
      BY <1>2, <1>12, <3>3 DEF KeysAreUnique
    <3> QED BY <3>1, <3>2, <3>3
  <2> QED BY <1>1, <1>2, <2>5, <2>6, <2>7 DEF KeysAreUnique
<1>19. BookmarksAreWhole'
  <2>1. \A c \in rows : wanted'[c.id] = wanted[c.id]
    BY <1>2, <1>3, <1>14 DEF KeysAreUnique
  <2> QED BY <1>1, <1>2, <2>1 DEF BookmarksAreWhole
<1>20. DeletesAreSafe'
  <2>1. ASSUME NEW i, NotPending(i) PROVE NotPending(i)'
    <3>1. i \in 1 .. nextId' - 1 /\ i # nextId
      <4>1. i \in 1 .. nextId - 1
        BY <2>1 DEF NotPending
      <4> QED BY <1>1, <1>3, <4>1
    <3> QED BY <1>8, <1>10, <1>12, <2>1, <3>1 DEF NotPending
  <2>2. \A x, y : SafeDelete(x, y) => SafeDelete(x, y)'
    BY <1>1, <2>1 DEF SafeDelete, NoRow
  <2>3. SafeDelete(s, t)
    BY <1>7 DEF SafeDelete
  <2> QED BY <1>2, <1>11, <1>12, <2>2, <2>3 DEF DeletesAreSafe
<1> QED BY <1>15, <1>16, <1>17, <1>18, <1>19, <1>20 DEF IInv

\* The commit of a POST: its row appears with all of its tags.
LEMMA CommitCreateStep == ASSUME IInv, NEW p \in Requests, CommitCreate(p) PROVE IInv'
<1>1. /\ req[p].at = "commit"
      /\ rows' = rows \cup tx[p].row
      /\ tags' = tags \cup tx[p].tags
      /\ links' = links \cup tx[p].links
      /\ tx' = [tx EXCEPT ![p] = NoWrites]
      /\ nextId' = nextId /\ wanted' = wanted
  BY DEF CommitCreate, At
<1>2. /\ req \in [Requests -> RequestStates] /\ tx \in [Requests -> Transactions]
      /\ wanted \in [Ids -> SUBSET Tags] /\ nextId \in 1 .. MaxId + 1
      /\ rows \subseteq Rows /\ tags \subseteq Tags /\ links \subseteq Ids \X Tags
      /\ TypeOK /\ Shapes /\ IdsSuffice /\ KeysAreUnique /\ BookmarksAreWhole /\ DeletesAreSafe
  BY DEF IInv, TypeOK
<1>3. /\ tx[p] \in Transactions
      /\ tx[p].tags \subseteq Tags /\ tx[p].links \subseteq Ids \X Tags
  BY <1>1, BuildingFacts
<1>4. PICK b \in tx[p].row :
        /\ tx[p].row = {b} /\ b \in Rows /\ b.id \in Ids /\ b.id < nextId
        /\ \A l \in tx[p].links : l[1] = b.id /\ l[2] \in VisibleTags(p)
        /\ {l[2] : l \in tx[p].links} = wanted[b.id]
  <2>1. Range(req[p].todo) = {}
    BY <1>1, BuildingFacts
  <2>2. PICK b \in tx[p].row :
          /\ tx[p].row = {b} /\ b \in Rows /\ b.id \in Ids /\ b.id < nextId
          /\ \A l \in tx[p].links : l[1] = b.id /\ l[2] \in VisibleTags(p)
          /\ {l[2] : l \in tx[p].links} \cup Range(req[p].todo) = wanted[b.id]
    BY <1>1, BuildingFacts
  <2> QED BY <2>1, <2>2
<1> DEFINE s == Answered(201, b.id)
<1>5. s \in RequestStates /\ s.at = "answered" /\ s.status = 201
  BY <1>4, NewRequests DEF Statuses
<1>6. req' = [req EXCEPT ![p] = s]
  BY <1>4 DEF CommitCreate, Goto
<1> HIDE DEF s
<1>7. /\ req' \in [Requests -> RequestStates] /\ req'[p] = s
      /\ \A q \in Requests \ {p} : req'[q] = req[q]
  BY <1>2, <1>5, <1>6
<1>8. NoWrites \in Transactions /\ NoWrites.row = {}
  BY DEF NoWrites, Transactions
<1>9. /\ tx' \in [Requests -> Transactions] /\ tx'[p] = NoWrites
      /\ \A q \in Requests \ {p} : tx'[q] = tx[q]
  BY <1>1, <1>2, <1>8
<1>10. rows' = rows \cup {b}
  BY <1>1, <1>4
<1>11. TypeOK'
  BY <1>1, <1>2, <1>3, <1>4, <1>7, <1>9, <1>10 DEF TypeOK
<1>12. Shapes'
  <2>1. Shape(s, NoWrites, nextId', tags', wanted')
    BY <1>5 DEF Shape
  <2>2. ASSUME NEW q \in Requests \ {p}
        PROVE  Shape(req[q], tx[q], nextId', tags', wanted')
    <3>1. /\ Shape(req[q], tx[q], nextId, tags, wanted)
          /\ req[q] \in RequestStates /\ tx[q] \in Transactions
      BY <1>2 DEF Shapes
    <3>2. /\ nextId \in Nat /\ nextId' \in Nat /\ nextId <= nextId' /\ tags \subseteq tags'
          /\ \A i \in Ids : i < nextId => wanted'[i] = wanted[i]
      BY <1>1, <1>2, Types
    <3> QED BY <3>1, <3>2, ShapeLasts
  <2> QED BY <1>7, <1>9, <2>1, <2>2 DEF Shapes
<1>13. IdsSuffice'
  <2>1. Inserting' = Inserting
    BY <1>1, <1>5, <1>7 DEF Inserting, At
  <2> QED BY <1>1, <1>2, <2>1 DEF IdsSuffice
<1>14. KeysAreUnique'
  <2>1. \A a \in rows : a.id # b.id /\ a.url # b.url
    BY <1>2, <1>4 DEF KeysAreUnique
  <2>2. \A q \in Requests \ {p} : \A c \in tx[q].row : c.id # b.id /\ c.url # b.url
    BY <1>2, <1>4 DEF KeysAreUnique
  <2>3. \A a \in rows' : a.id < nextId'
    BY <1>1, <1>2, <1>4, <1>10 DEF KeysAreUnique
  <2>4. \A a, c \in rows' : a.id = c.id \/ a.url = c.url => a = c
    BY <1>2, <1>10, <2>1 DEF KeysAreUnique
  <2>5. \A q \in Requests : \A c \in tx'[q].row, a \in rows' : a.id # c.id /\ a.url # c.url
    BY <1>2, <1>8, <1>9, <1>10, <2>2 DEF KeysAreUnique
  <2>6. \A q, o \in Requests : q # o =>
          \A a \in tx'[q].row, c \in tx'[o].row : a.id # c.id /\ a.url # c.url
    BY <1>2, <1>8, <1>9 DEF KeysAreUnique
  <2> QED BY <2>3, <2>4, <2>5, <2>6 DEF KeysAreUnique
<1>15. BookmarksAreWhole'
  <2>1. \A l \in links : \E a \in rows : a.id = l[1]
    BY <1>2 DEF BookmarksAreWhole
  <2>2. \A a \in rows : a.id # b.id
    BY <1>2, <1>4 DEF KeysAreUnique
  <2>3. {l[2] : l \in {k \in links' : k[1] = b.id}} = wanted'[b.id]
    <3>1. {k \in links' : k[1] = b.id} = tx[p].links
      BY <1>1, <1>4, <2>1, <2>2
    <3> QED BY <1>1, <1>4, <3>1
  <2>4. ASSUME NEW a \in rows
        PROVE  {l[2] : l \in {k \in links' : k[1] = a.id}} = wanted'[a.id]
    <3>1. {k \in links' : k[1] = a.id} = {k \in links : k[1] = a.id}
      BY <1>1, <1>4, <2>2
    <3> QED BY <1>1, <1>2, <3>1 DEF BookmarksAreWhole
  <2>5. \A l \in links' : l[2] \in tags' /\ \E a \in rows' : a.id = l[1]
    BY <1>1, <1>2, <1>4, <1>10 DEF BookmarksAreWhole, VisibleTags
  <2> QED BY <1>10, <2>3, <2>4, <2>5 DEF BookmarksAreWhole
<1>16. DeletesAreSafe'
  <2>1. ASSUME NEW i, NotPending(i) PROVE NotPending(i)' /\ i # b.id
    BY <1>1, <1>4, <1>8, <1>9, <2>1 DEF NotPending
  <2>2. \A x, y : SafeDelete(x, y) => SafeDelete(x, y)'
    BY <1>10, <2>1 DEF SafeDelete, NoRow
  <2>3. SafeDelete(s, NoWrites)
    BY <1>5 DEF SafeDelete
  <2> QED BY <1>2, <1>7, <1>9, <2>2, <2>3 DEF DeletesAreSafe
<1> QED BY <1>11, <1>12, <1>13, <1>14, <1>15, <1>16 DEF IInv

\* The commit of a DELETE: the row goes, with its links; with 204 it stays gone.
LEMMA CommitDeleteStep == ASSUME IInv, NEW p \in Requests, CommitDelete(p) PROVE IInv'
<1> DEFINE r == req[p]
           gone == tx[p].deletes
           s == Answered(204, r.id)
<1>1. /\ r.at = "commitDelete"
      /\ rows' = {b \in rows : b.id \notin gone}
      /\ links' = {l \in links : l[1] \notin gone}
      /\ tx' = [tx EXCEPT ![p] = NoWrites]
      /\ req' = [req EXCEPT ![p] = s]
      /\ tags' = tags /\ nextId' = nextId /\ wanted' = wanted
  BY DEF CommitDelete, At, Goto
<1>2. /\ req \in [Requests -> RequestStates] /\ tx \in [Requests -> Transactions]
      /\ rows \subseteq Rows /\ links \subseteq Ids \X Tags
      /\ TypeOK /\ Shapes /\ IdsSuffice /\ KeysAreUnique /\ BookmarksAreWhole /\ DeletesAreSafe
  BY DEF IInv, TypeOK
<1>3. r.id \in Ids
  BY <1>1, <1>2, RequestFields DEF DeleteStages
<1>4. s \in RequestStates /\ s.at = "answered" /\ s.status = 204 /\ s.id = r.id
  BY <1>3, NewRequests DEF Statuses
<1>5. gone \subseteq {r.id}
  BY <1>1, <1>2 DEF Shapes, Shape
<1>6. NotPending(r.id) /\ (gone = {} => NoRow(r.id))
  BY <1>1, <1>2 DEF DeletesAreSafe, SafeDelete
<1> HIDE DEF r, gone, s
<1>7. /\ req' \in [Requests -> RequestStates] /\ req'[p] = s
      /\ \A q \in Requests \ {p} : req'[q] = req[q]
  BY <1>1, <1>2, <1>4
<1>8. NoWrites \in Transactions /\ NoWrites.row = {}
  BY DEF NoWrites, Transactions
<1>9. /\ tx' \in [Requests -> Transactions] /\ tx'[p] = NoWrites
      /\ \A q \in Requests \ {p} : tx'[q] = tx[q]
      /\ \A q \in Requests : tx'[q].row \subseteq tx[q].row
  BY <1>1, <1>2, <1>8
<1>10. rows' \subseteq rows /\ links' \subseteq links
  BY <1>1
<1>11. TypeOK'
  BY <1>1, <1>2, <1>7, <1>9, <1>10 DEF TypeOK
<1>12. Shapes'
  <2>1. Shape(s, NoWrites, nextId', tags', wanted')
    BY <1>4 DEF Shape
  <2>2. \A q \in Requests : Shape(req[q], tx[q], nextId', tags', wanted')
    BY <1>1, <1>2 DEF Shapes
  <2> QED BY <1>7, <1>9, <2>1, <2>2 DEF Shapes
<1>13. IdsSuffice'
  <2>1. Inserting' = Inserting
    BY <1>1, <1>4, <1>7 DEF Inserting, At, r
  <2> QED BY <1>1, <1>2, <2>1 DEF IdsSuffice
<1>14. KeysAreUnique'
  BY <1>1, <1>2, <1>9, <1>10 DEF KeysAreUnique
<1>15. BookmarksAreWhole'
  <2>1. ASSUME NEW b \in rows'
        PROVE  {l[2] : l \in {k \in links' : k[1] = b.id}} = wanted'[b.id]
    <3>1. b \in rows /\ b.id \notin gone
      BY <1>1
    <3>2. {k \in links' : k[1] = b.id} = {k \in links : k[1] = b.id}
      BY <1>1, <3>1
    <3> QED BY <1>1, <1>2, <3>1, <3>2 DEF BookmarksAreWhole
  <2>2. \A l \in links' : l[2] \in tags' /\ \E b \in rows' : b.id = l[1]
    BY <1>1, <1>2 DEF BookmarksAreWhole
  <2> QED BY <2>1, <2>2 DEF BookmarksAreWhole
<1>16. DeletesAreSafe'
  <2>1. \A i : (NotPending(i) => NotPending(i)') /\ (NoRow(i) => NoRow(i)')
    BY <1>1, <1>9, <1>10 DEF NotPending, NoRow
  <2>2. \A x, y : SafeDelete(x, y) => SafeDelete(x, y)'
    BY <1>10, <2>1 DEF SafeDelete
  <2>3. \A i : i = r.id => NotPending(i)' /\ NoRow(i)'
    <3>1. CASE gone = {}
      BY <1>6, <2>1, <3>1
    <3>2. CASE gone = {r.id}
      BY <1>1, <1>6, <2>1, <3>2 DEF NoRow
    <3> QED BY <1>5, <3>1, <3>2
  <2>4. ASSUME NEW x, x = s PROVE SafeDelete(x, NoWrites)'
    BY <1>4, <2>3, <2>4 DEF SafeDelete
  <2>5. ASSUME NEW q \in Requests, NEW x, NEW y, x = req'[q], y = tx'[q]
        PROVE  SafeDelete(x, y)'
    <3>1. CASE q = p
      BY <1>7, <1>9, <2>4, <2>5, <3>1
    <3>2. CASE q # p
      BY <1>2, <1>7, <1>9, <2>2, <2>5, <3>2 DEF DeletesAreSafe
    <3> QED BY <3>1, <3>2
  <2> QED BY <2>5 DEF DeletesAreSafe
<1> QED BY <1>11, <1>12, <1>13, <1>14, <1>15, <1>16 DEF IInv

-----------------------------------------------------------------------------
(* The theorems *)

LEMMA InitIInv == Init => IInv
<1> SUFFICES ASSUME Init PROVE IInv
  OBVIOUS
<1> USE DEF Init
<1>1. MaxId \in Nat /\ IsFiniteSet(Requests)
  BY BookmarkWritesAssumption
<1>2. NoWrites \in Transactions /\ NoWrites.row = {}
  BY DEF NoWrites, Transactions
<1>3. TypeOK
  BY <1>1, <1>2, NewRequests DEF TypeOK
<1>4. Shapes
  BY NewRequests DEF Shapes, Shape
<1>5. IdsSuffice
  <2>1. Inserting = {}
    BY NewRequests DEF Inserting, At
  <2> QED BY <1>1, <2>1, FS_EmptySet DEF IdsSuffice
<1>6. KeysAreUnique
  BY <1>2 DEF KeysAreUnique
<1>7. BookmarksAreWhole
  BY DEF BookmarksAreWhole
<1>8. DeletesAreSafe
  BY NewRequests DEF DeletesAreSafe, SafeDelete
<1> QED BY <1>3, <1>4, <1>5, <1>6, <1>7, <1>8 DEF IInv

LEMMA NextIInv == IInv /\ [Next]_vars => IInv'
<1> SUFFICES ASSUME IInv, [Next]_vars PROVE IInv'
  OBVIOUS
<1>1. ASSUME NEW p \in Requests,
             StartCreate(p) \/ StartDelete(p) \/ Step(p) \/ Leave(p) \/ Crash(p)
      PROVE  IInv'
  BY <1>1, StartCreateStep, StartDeleteStep, LeaveStep, CrashStep, RefusalsStep, InsertConflictsStep,
     SelectOwnerStep, DeleteRowStep, InsertTagStep, InsertLinkStep, InsertBookmarkStep,
     CommitCreateStep, CommitDeleteStep
  DEF Step
<1>2. CASE UNCHANGED vars
  <2>1. UNCHANGED <<rows, tags, links, nextId, req, tx, wanted>>
    BY <1>2 DEF vars, dbVars
  <2>2. TypeOK' /\ Shapes' /\ KeysAreUnique' /\ BookmarksAreWhole'
    BY <2>1 DEF IInv, TypeOK, Shapes, KeysAreUnique, BookmarksAreWhole
  <2>3. IdsSuffice'
    <3>1. Inserting' = Inserting
      BY <2>1 DEF Inserting, At
    <3> QED BY <2>1, <3>1 DEF IInv, IdsSuffice
  <2>4. DeletesAreSafe'
    BY <2>1 DEF IInv, DeletesAreSafe, SafeDelete, NotPending, NoRow
  <2> QED BY <2>2, <2>3, <2>4 DEF IInv
<1> QED BY <1>1, <1>2 DEF Next

THEOREM Invariance == Spec => []IInv
  BY InitIInv, NextIInv, PTL DEF Spec

\* Every variable keeps its type; in particular the ids suffice for the requests
\* that StartCreate lets in.
THEOREM TypeCorrect == Spec => []TypeOK
<1>1. IInv => TypeOK
  BY DEF IInv
<1> QED BY Invariance, <1>1, PTL

\* No id and no URL is ever used twice, by bookmarks that are committed or about to
\* be, although an identity value is never given back and a URL may be taken again.
THEOREM UniqueKeys == Spec => []KeysAreUnique
<1>1. IInv => KeysAreUnique
  BY DEF IInv
<1> QED BY Invariance, <1>1, PTL

\* main.py:480, "one transaction": however requests that share tags interleave, a
\* bookmark that exists has every tag it was posted with.
THEOREM WholeBookmarks == Spec => []BookmarksAreWhole
<1>1. IInv => BookmarksAreWhole
  BY DEF IInv
<1> QED BY Invariance, <1>1, PTL

\* main.py:511-527: nobody is told 204 while the bookmark is there, not the second
\* of two DELETEs either, and not when the first has died before its commit.
THEOREM DeletedStaysDeleted == Spec => []DeletedIsGone
<1>1. IInv => DeletedIsGone
  BY DEF IInv, DeletesAreSafe, SafeDelete, NoRow, DeletedIsGone, At
<1> QED BY Invariance, <1>1, PTL

\* main.py:513-517: the owner that the first statement of a DELETE read is the
\* owner of the row that its commit removes.
THEOREM OwnersDelete == Spec => OnlyOwnersDelete
<1>1. ASSUME IInv, [Next]_vars, NEW b \in rows \ rows'
      PROVE  \E p \in Requests :
               At(p, "commitDelete") /\ req[p].user = b.owner /\ req[p].id = b.id
  <2>1. ASSUME NEW p \in Requests, ~CommitDelete(p),
               StartCreate(p) \/ StartDelete(p) \/ Step(p) \/ Leave(p) \/ Crash(p)
        PROVE  FALSE
    BY <1>1, <2>1
    DEF StartCreate, StartDelete, Step, Leave, Crash, InsertBookmark, InsertConflicts,
        InsertTag, InsertLink, CommitCreate, SelectOwner, SelectRefused, DeleteRow,
        DeadlockDetected, Refuse, RolledBack, dbVars
  <2>2. PICK p \in Requests : CommitDelete(p)
    BY <1>1, <2>1 DEF Next, vars, dbVars
  <2>3. At(p, "commitDelete") /\ b.id \in tx[p].deletes
    BY <1>1, <2>2 DEF CommitDelete
  <2>4. b.id = req[p].id
    BY <1>1, <2>3 DEF IInv, Shapes, Shape, At
  <2>5. b.owner = req[p].user
    BY <1>1, <2>3, <2>4 DEF IInv, DeletesAreSafe, SafeDelete, At
  <2> QED BY <2>3, <2>4, <2>5
<1>2. IInv /\ [Next]_vars =>
        [\A b \in rows \ rows' :
           \E p \in Requests :
             At(p, "commitDelete") /\ req[p].user = b.owner /\ req[p].id = b.id]_vars
  BY <1>1
<1> QED BY Invariance, <1>2, PTL DEF Spec, OnlyOwnersDelete

-----------------------------------------------------------------------------
(* The refinement *)

\* A committed row as BookmarkSet has it, and all of them.
Image(b) == [id |-> b.id, url |-> b.url, owner |-> b.owner, tags |-> TagsOf(b.id)]
Stored == {Image(b) : b \in rows}

\* The commit of a POST adds one bookmark, whole, under an id and a URL of its own.
LEMMA CommitAdds ==
  ASSUME IInv, NEW p \in Requests, CommitCreate(p)
  PROVE  \E c \in Store!Bookmarks :
           /\ \A a \in Stored : c.id # a.id /\ c.url # a.url
           /\ Stored' = Stored \cup {c}
<1>1. /\ req[p].at = "commit"
      /\ rows' = rows \cup tx[p].row /\ links' = links \cup tx[p].links
  BY DEF CommitCreate, At
<1>2. TypeOK /\ KeysAreUnique /\ BookmarksAreWhole /\ IInv'
  BY CommitCreateStep DEF IInv
<1>3. PICK b \in tx[p].row :
        /\ tx[p].row = {b} /\ b \in Rows /\ b.id \in Ids
        /\ \A l \in tx[p].links : l[1] = b.id
  BY <1>1, BuildingFacts
<1>4. \A a \in rows : a.id # b.id /\ a.url # b.url
  BY <1>2, <1>3 DEF KeysAreUnique
<1>5. \A a \in rows : TagsOf(a.id)' = TagsOf(a.id)
  <2> SUFFICES ASSUME NEW a \in rows PROVE TagsOf(a.id)' = TagsOf(a.id)
    OBVIOUS
  <2>1. {k \in links' : k[1] = a.id} = {k \in links : k[1] = a.id}
    BY <1>1, <1>3, <1>4
  <2> QED BY <2>1 DEF TagsOf
<1> DEFINE c == Image(b)'
<1>6. c \in Store!Bookmarks /\ c.id = b.id /\ c.url = b.url
  <2>1. links' \subseteq Ids \X Tags
    BY <1>2 DEF IInv, TypeOK
  <2>2. TagsOf(b.id)' \subseteq Tags
    BY <2>1 DEF TagsOf
  <2>3. b.id \in 1 .. MaxId /\ b.url \in Urls /\ b.owner \in Users
    BY <1>3 DEF Rows, Ids
  <2> QED BY <2>2, <2>3 DEF Image, Store!Bookmarks
<1>7. \A a \in rows : Image(a)' = Image(a)
  BY <1>5 DEF Image
<1>8. Stored' = Stored \cup {c}
  BY <1>1, <1>3, <1>7 DEF Stored
<1>9. \A a \in Stored : c.id # a.id /\ c.url # a.url
  BY <1>4, <1>6 DEF Stored, Image
<1> QED BY <1>6, <1>8, <1>9

\* The commit of a DELETE removes one bookmark, or nothing at all.
LEMMA CommitRemoves ==
  ASSUME IInv, NEW p \in Requests, CommitDelete(p)
  PROVE  Stored' = Stored \/ \E c \in Stored : Stored' = Stored \ {c}
<1> DEFINE gone == tx[p].deletes
           i == req[p].id
<1>1. /\ req[p].at = "commitDelete"
      /\ rows' = {b \in rows : b.id \notin gone}
      /\ links' = {l \in links : l[1] \notin gone}
  BY DEF CommitDelete, At
<1>2. gone \subseteq {i}
  BY <1>1 DEF IInv, Shapes, Shape
<1> HIDE DEF gone, i
<1>3. \A b \in rows : b.id \notin gone => Image(b)' = Image(b)
  <2> SUFFICES ASSUME NEW b \in rows, b.id \notin gone PROVE Image(b)' = Image(b)
    OBVIOUS
  <2>1. {k \in links' : k[1] = b.id} = {k \in links : k[1] = b.id}
    BY <1>1
  <2> QED BY <2>1 DEF Image, TagsOf
<1>4. CASE \E b \in rows : b.id \in gone
  <2>1. PICK b \in rows : b.id \in gone
    BY <1>4
  <2>2. b.id = i /\ gone = {i}
    BY <1>2, <2>1
  <2>3. \A a \in rows : a.id \in gone <=> a = b
    BY <2>2 DEF IInv, KeysAreUnique
  <2>4. rows' = rows \ {b}
    BY <1>1, <2>3
  <2>5. \A a \in rows \ {b} : Image(a)' = Image(a) /\ Image(a) # Image(b)
    BY <1>3, <2>2, <2>3 DEF Image
  <2>6. Stored' = Stored \ {Image(b)} /\ Image(b) \in Stored
    BY <2>4, <2>5 DEF Stored
  <2> QED BY <2>6
<1>5. CASE ~\E b \in rows : b.id \in gone
  <2>1. rows' = rows
    BY <1>1, <1>5
  <2> QED BY <1>3, <1>5, <2>1 DEF Stored
<1> QED BY <1>4, <1>5

\* Every other step leaves what is committed alone.
LEMMA OthersStutter ==
  ASSUME [Next]_vars, ~\E p \in Requests : CommitCreate(p) \/ CommitDelete(p)
  PROVE  Stored' = Stored
<1>1. rows' = rows /\ links' = links
  <2>1. ASSUME NEW p \in Requests,
               StartCreate(p) \/ StartDelete(p) \/ Step(p) \/ Leave(p) \/ Crash(p)
        PROVE  rows' = rows /\ links' = links
    BY <2>1
    DEF StartCreate, StartDelete, Step, Leave, Crash, InsertBookmark, InsertConflicts,
        InsertTag, InsertLink, SelectOwner, SelectRefused, DeleteRow, DeadlockDetected,
        Refuse, RolledBack, dbVars
  <2> QED BY <2>1 DEF Next, vars, dbVars
<1> QED BY <1>1 DEF Stored, Image, TagsOf

\* Posts and deletes, as transactions that interleave statement by statement, change
\* the committed state one whole bookmark at a time, as BookmarkSet does.
THEOREM Implementation == Spec => ImplementsBookmarkSet
<1>1. Init => Store!SetInit
  BY DEF Init, Store!SetInit
<1>2. IInv /\ [Next]_vars =>
        [Store!Add \/ Store!Remove]_({[id |-> b.id, url |-> b.url, owner |-> b.owner,
                                       tags |-> TagsOf(b.id)] : b \in rows})
  <2> SUFFICES ASSUME IInv, [Next]_vars
               PROVE  Store!Add \/ Store!Remove \/ Stored' = Stored
    BY DEF Stored, Image
  <2>1. ASSUME NEW p \in Requests, CommitCreate(p) PROVE Store!Add
    BY <2>1, CommitAdds DEF Store!Add, Stored, Image
  <2>2. ASSUME NEW p \in Requests, CommitDelete(p) PROVE Store!Remove \/ Stored' = Stored
    BY <2>2, CommitRemoves DEF Store!Remove, Stored, Image
  <2> QED BY <2>1, <2>2, OthersStutter
<1> QED BY Invariance, <1>1, <1>2, PTL DEF Spec, ImplementsBookmarkSet, Store!SetSpec
=============================================================================
