# Formal model of the bookmarks backend

The repository is a course. What runs in it is one small system in two languages:
a bookmarks HTTP API (`Code/Lesson_14_code` in Python, `Code/js/Lesson_14_code` in
TypeScript) over PostgreSQL and Redis, scaled out behind a proxy, with a release
step that migrates the database. This directory holds TLA+ modules of the parts of
that system whose correctness depends on the order in which several actors act,
the TLC configurations that check them on small instances, and TLAPS proofs of the
properties that matter most for instances of every size.

All source paths below are relative to `src/Code/` unless they start with `src/`.

## 1. Inventory

### 1.1 Components

| Component | Code | State it keeps | Operations | Modelled in |
|---|---|---|---|---|
| Shared login limiter | `Lesson_14_code/rate_limit.py` `redis_limiter`, `js/…/rateLimit.ts` `redisLimiter` | one Redis counter per client address, with an expiry | INCR, and EXPIRE by the first | `RedisLimiter` over `FixedWindow` |
| Release step | `migrate.py`, `migrate.ts`, `migrations/*.sql` | `schema_migrations`, the schema | create the table, read the versions, run each missing file and record it | `Migrate` over `MigrationLog` |
| Bookmark writes | `create_bookmark`, `delete_bookmark` in `main.py`, the same routes of `server.ts` | `bookmarks`, `tags`, `bookmark_tags` | POST, DELETE | `BookmarkWrites` over `BookmarkSet` |
| Pool of the Python API | `main.py`: `lifespan`, every `pool.connection()`, `pool_timeout_handler` | `pool_max_size` connections, a queue | check out, wait, give back, time out | `PoolPy` over `Pool`; `Pools` |
| Pool of the TypeScript API | `server.ts`: `withAcquireTimeout`, every `pool.query`/`pool.connect` | as above, plus what timed-out requests left behind | as above | `PoolTs` over `Pool`; `Pools` |
| Search cache | `search_bookmarks` in `main.py`; `Lesson_11_code/cache.py` | Redis entries with a TTL | GET, SELECT, SET EX | `SearchCache` |
| Accounts and sessions | `register`, `login`, `token`, `current_user`, `logout`, `logout_everywhere`; `security.py` (since Lesson 8) | `users`, `sessions`; tokens are not stored | each of them | `Sessions` |
| Local limiter, round-robin proxy | `rate_limit.py` `local_limiter`, `round_robin_proxy.py` and their twins | a dictionary of timestamps per instance; the next backend | attempt; forward; stop and restart | `LocalLimiter`; with the shared one, `LoginLimit` |
| Visit counter | `Lesson_6_code/lost_update.py`, `orm_increment.py`, `js/…/lost_update.js` | `bookmarks.visit_count` | four ways to add one | `VisitCounter` over `Counter` |
| TLS proxy and origin | `Lesson_15_code/tls_proxy.py`, `origin.py` and their twins | one connection | shake hands, read a request, forward it, answer | `TlsProxy`, in part |
| DNS server, caching resolver | `toy_dns_server.py`, `caching_resolver.py` | a zone; a cache file | resolve | not modelled |
| Observability | `observability.py`, the middleware of `main.py` | counters, a context variable | count, time, log | not modelled |
| Reads | `list_bookmarks`, `get_bookmark`, `healthz` | none | one SELECT | not modelled |
| First servers, benchmarks, demos, conformance tests, prose | Lessons 1 to 7, `bench_*.py`, `diagnose.py`, `conformance/`, `*.md` | none of the system's | | not modelled |

### 1.2 How they interact

* Any number of **instances** of the API run against one PostgreSQL and one Redis.
  Each instance has a pool of its own; nothing else is shared inside the process
  except the local limiter's dictionary. The models therefore quantify over
  *requests*, not over processes: two requests of one instance and two of different
  instances meet in the same way everywhere except in the pool.
* A **request** runs one statement at a time and awaits each. Between two awaits any
  other request, the clock of Redis, or the end of the process may intervene. A
  request that writes has passed `current_user`, which used a connection of its own.
* **Release steps** run beside the API and beside each other. A Python and a
  TypeScript one share `schema_migrations` (`migrate.ts:6-7`).
* No component takes an application-level lock. What serialises them is PostgreSQL's
  own: unique indexes, row locks, locks on the objects DDL creates, the deadlock
  check. Those are modelled as far as the handlers meet them, and marked external.

### 1.3 What is hard about it, and what makes each part correct

| Component | Hard | Correct means |
|---|---|---|
| Shared limiter | two commands that are not atomic; the key may expire between them; a death between them | a client gets at most `LOGIN_ATTEMPT_LIMIT` attempts per window of at least the stated length; nobody prolongs a window; a window ends |
| Release step | a stale set of applied versions; two deploys at once; a file that fails; death before COMMIT; savepoints taken for transactions | statements and record agree, once and in order; one migrator at a time; success means migrated; nobody waits for ever |
| Bookmark writes | tags that other transactions create meanwhile; equal URLs; circular waits; an owner read before the DELETE that relies on it | a committed bookmark is whole; ids and URLs are unique; 204 means gone; only the owner deletes; every request is answered |
| Pools | exceptions and timeouts racing a hand-over; requests that need two connections; answers given while the work goes on | connections are conserved; none idles beside a waiter; a request told 503 has committed nothing, and trying again can succeed |
| Local limiter, proxy | attempts spread over instances that stop and start again, a proxy that does not know which of them run | in any window an address gets the limit once for each instance and restart, and no more |
| Accounts, sessions | bcrypt between the statements of a handler; logouts, logins and registrations of the same account at once; two clocks | the account belongs to whoever was told 201; a session that was logged out stays so; it lives as long as it was given |
| Visit counter | lost updates; a retry loop without a limit; a lock whose holder is gone | nothing is lost but by the first strategy; retries are paid for by commits; every worker ends |
| TLS proxy | a client that stops or ends anywhere; timeouts that cover part of the wait; an origin that dies | a worker ends; "created" means that what was forwarded has arrived |
| Search cache | a result stored after a write superseded it; an old result over a newer one | an answer is never staler than a known bound; a stale entry goes |

`PROJECT.json` lists every such hazard at its line, with the properties that cover it
or the reason why none does yet.

## 2. The modules

### 2.1 `LoginPolicy`, `FixedWindow`, `RedisLimiter`, `LocalLimiter`, `LoginLimit`: the login limiters

`LoginPolicy` holds what both limiters are given: the limit, the window, and the
comparison of line 33 and line 51.

`FixedWindow` is the promise to one client: `Open`, `Grant` (up to `ATTEMPT_LIMIT`),
`Age`, and `Close`, which may not happen before `WINDOW` ticks.

`RedisLimiter` is the code. `count[c]` and `ttl[c]` are the key
`login_attempts:{c}` in Redis; `req[p]` is where a request stands.

| Action | Code |
|---|---|
| `Incr(p, c)` | `await redis.incr(key)`: creates a missing key at 1, leaves the life of an existing one alone |
| `Expire(p)` | `if count == 1: await redis.expire(key, …)`, then the return |
| `Return(p)` | the return of every other request |
| `Abort(p)` | the process, or the connection to Redis, ends at either await |
| `Tick` | a tick of Redis's clock; keys at the end of their life go |

`age`, `granted` and `recent` are history variables for the properties; `recent[c][a]` is
how many attempts were let through at most `a` ticks ago. The Redis
clients of both programs (redis-py's asyncio client and node-redis, in the pinned
versions and as configured) do not send a command again after a lost connection,
so no duplicated INCR or EXPIRE is modelled.

* `OneOpener`, proved but not run: a key without an end of life has exactly one request
  that will give it one; no two requests believe they created the same key.
* `BurstBound`: at most `2 * ATTEMPT_LIMIT` attempts are let through in any `WINDOW`
  ticks, the known boundary burst of a fixed window and no more.
* `WindowNeverRestarts`: what `rate_limit.py:44-46` says.
* `StartedWindowsEnd`: a window whose EXPIRE was sent ends, however often its
  client tries meanwhile.
* `ImplementsFixedWindow`: `[](step of FixedWindow)` for every client. The clock
  moves all clients' windows in one `Tick`, so the refinement is stated client by client
  over one common step.
* `WindowsEnd` is what "a fixed window" promises and **does not hold**: finding 1.

`LocalLimiter` is the other backend: `local_limiter` in each instance, behind
`round_robin_proxy.py`. The proxy copies bytes and adds no header, so all logins that
come through it have its own address and the module needs one key only. `attempts[i][a]`
is how many entries of instance `i`'s list are at most `a` ticks old, `turn` is the
proxy's cycle, `conn[c]` the instance that connection `c` was given.

| Action | Code |
|---|---|
| `Pick(c)` | `next(_next_backend)`, once for each connection, whether the backend is up or not |
| `Refuse(c)` | `open_connection` raises; no other backend is tried |
| `Attempt(c)` | `local_limiter`: drop what is older than the window, append, compare. A refused attempt is kept like any other |
| `Hangup(c)` | either side closes, `pump` ends |
| `Stop(i)`, `Restart(i)` | an instance ends, its dictionary and connections with it, and is started again |
| `LocalTick` | `time.monotonic()` |

* `SpreadBound`: `rate_limit.py:3-6` calls this limiter "silently wrong behind more than
  one" instance. The property says how wrong: in any `WINDOW` ticks an address is allowed
  `ATTEMPT_LIMIT * (BACKENDS + restarts within them)` attempts, and never more. It is
  tight, and it is a sliding window: unlike `BurstBound` there is no factor two.

`LoginLimit` is the handler that chooses: `settings.rate_limit_backend` is read once,
and every login then takes steps of one limiter and leaves the other alone. Its run
checks the properties of both.

### 2.2 `MigrationLog`, `Migrate`: the release step

`MigrationLog` is a set that only grows, to a longer prefix of `1 .. Last`.

`Migrate` runs any mix of `migrate.py` and `migrate.ts`. Committed state is `table`,
`applied` (the rows of `schema_migrations`) and `schema` (how often each file's
statements took effect: the count exists so that a double application can be seen).
Each runner has a program counter, the size of its directory `files[r]` (an older
release has fewer files), the versions it read (`known`), its position (`next`), what
it printed (`reported`), and its open transaction (`creating`, `ddl`, `rows`).

| Action | Code |
|---|---|
| `Start` | a deploy runs the program, for the first time or again, with any directory |
| `CreateTable`, `CreateResumes`, `CreateFails`, `CommitCreate` | `CREATE TABLE IF NOT EXISTS` and its commit; it waits for a transaction creating the same name and fails when that one commits, because IF NOT EXISTS looks for committed tables only |
| `ReadApplied` | the SELECT, outside of any transaction that follows in `migrate.ts`, inside the one that `migrate.py` never ends |
| `Skip`, `Execute`, `ExecuteFails`, `Record` | the loop body: the file's statements, then the INSERT |
| `ReleaseSavepoint` (Python), `CommitMigration` (TypeScript) | the end of one migration, and the printed line |
| `Finish` | the loop is over; leaving `with psycopg.connect(…)` commits |
| `Crash` | the process or its connection is lost anywhere: stage "lost", where a failing statement leads to "failed" |

`Execute` waits for another runner that has executed the same file in an open
transaction (`Unlocked`), and fails when that file's objects exist. That every file
creates or alters a named object, so that running it twice fails and running it
concurrently waits, is read off `migrations/0001` to `0007`.

* `RecordMatchesSchema`: rows and statements agree, and each statement took effect
  once. That they are a prefix (`AppliedInOrder`) is proved, and part of `ImplementsLog`.
* `OneMigrator`, proved: two runners never both have migrations in flight, though no lock is
  taken in the code. It follows from the order of the files and PostgreSQL's locks.
* `ExitMeansMigrated`, `TsReportsAreDurable`, `EveryRunEnds`, `ImplementsLog`.
* `OneTransactionEach`, what `migrate.py:9-10` says of a run in which a migration fails,
  **does not hold**: finding 2. It asks nothing of a runner that is lost.

### 2.3 `BookmarkSet`, `BookmarkWrites`, `MCBookmarkWrites`: POST and DELETE

`BookmarkSet` is a set of whole bookmarks with unique ids and URLs, from which one
bookmark at a time appears or disappears.

`BookmarkWrites` is the two handlers, statement by statement, against PostgreSQL at
READ COMMITTED. `rows`, `tags`, `links` and `nextId` are the committed tables and the
identity sequence; `tx[p]` is what a request's open transaction has written; `req[p]` is
where the request stands and the tags it has left to do.

| Action | Code |
|---|---|
| `InsertBookmark`, `InsertConflicts` | `INSERT INTO bookmarks … RETURNING id`; UniqueViolation, 409. Both draw from the sequence, and nothing is put back |
| `InsertTag`, `InsertLink` | the two statements of the loop over the tags; `InsertLink` is an `INSERT … SELECT`, so a tag that is not visible gives no row and no error |
| `CommitCreate` | the end of the `async with` |
| `SelectOwner`, `SelectRefused` | the owner check: 404, 403 |
| `DeleteRow`, `CommitDelete` | the DELETE by id, without the owner; the cascade; 204 |
| `DeadlockDetected` | PostgreSQL ends a circular wait; nobody catches the error, 500 |
| `Leave`, `Crash` | the answer leaves; the process dies first |

A statement waits (`WaitsFor`) for a transaction that has inserted the same key or
deleted the same row; `Deadlocked` is the transitive closure of that relation.

* `BookmarksAreWhole`: every committed bookmark has the tags that were asked for, also
  when another request created the tag between this transaction's start and its
  INSERT … SELECT. This depends on READ COMMITTED; the mutant takes one snapshot per
  transaction and loses links.
* `ImplementsBookmarkSet`: among other things, ids and URLs stay unique; a create that
  does not wait for the index of the URL breaks it.
* `DeletedIsGone`, `OnlyOwnersDelete`: about the two racing DELETEs, and the gap between
  the owner check and the DELETE, in which the bookmark may go and its URL may be taken
  by somebody else. The ids of the sequence are what makes the gap harmless.
* `EveryRequestEnds`: also when two creates wait for each other.

`MCBookmarkWrites` defines the tag lists: none, one tag twice, two tags in either order.

### 2.4 `Pool`, `PoolPy`, `Pools`: the pool of the Python API

`Pool` declares the constants of both pools, `Requests` and `Size`. Each API's module has
its own state and actions: the idle connections (`free`, `tsFree`), those who wait
(`queue`, `tsQueue`), where each request is (`at`, `tsAt`) and what is special to it;
names that both need carry the prefix `Py` or `Ts`. `Pools` is one instance of the API: it
is started as one `program` or the other, and every step is a step of that program's
pool. Its run checks the properties of both.

A request makes one or two checkouts, one after the other (`current_user` or
`_authenticate` first, the handler's own block after that). `PyGiveBack` hands a
connection to the first waiter. `Commit` and `PyFail` are the two ways an
`async with` block ends; `PyFail` may come from a connection lost in its COMMIT, which
may have taken effect. `PyTimeout` is PoolTimeout and its 503. The module begins where a
handler first asks for a connection: the limiter in front of a login (`main.py:255-261`)
is `LoginLimit`'s.

* `PyConserved`: the accounting. `NoIdleWhileWaiting`, proved: the queue is exactly those who
  wait, and nobody waits beside an idle connection.
* `RefusedCommittedNothing`: a request told 503 and "try again shortly" (`main.py:85-93`)
  has committed nothing to PostgreSQL, because it writes in its last block only and a 503
  is given before a block. It says nothing about Redis: a login has spent an attempt
  before its first checkout, and each retry spends another (listed as a hazard).
* `EveryRequestAnswered`: even without timeouts, because no request holds a connection
  while it waits for the next. The mutant nests the blocks and deadlocks. The safety
  half of it, `PyWaitersHaveHolders`, is proved: whoever waits does so for somebody who
  does not.

### 2.5 `PoolTs`: the pool of the TypeScript API

The same pool with a timer of its own: `withAcquireTimeout` races an operation against
a timer and cannot take the operation back. A request's plan is a sequence of
`pool.query`, the last of which may be a `pool.connect`. `TsTimeout` may strike a request
that waits or whose query runs; what it leaves behind is an operation in the queue whose
owner is `Nobody`, or an *orphan* query. An orphan's connection comes back
(`OrphanEnds`). A client delivered to `Nobody` is never released (`leaked`), because
the `finally` belongs to a `try` block that was not entered.

* `TsConserved`: idle + in use + orphans + leaked = size, wherever the timer cuts in.
* `TsQueueInv`, proved: the requests that wait and the operations in the queue that have an
  owner are one to one, and nobody waits beside an idle connection.
* `WaitersAreServed`: as long as a connection is left. `TsStopsByLeaksOnly`, proved: who
  waits while no connection is in use waits because all have leaked.
* `RetriesCanSucceed`, what the 503's text promises, **does not hold**: finding 3.

What an abandoned INSERT or DELETE later writes is not in this module: `server.ts:80-83`
documents that it happens.

### 2.6 `SearchCache`: the cache of the search route

One key (keys do not interact). `entry` is the cached copy: whether it is current, for
how many ticks it has been superseded (`stale`), and the life it has left. A search is
`Hit`, or `Miss`, `Query`, `Store`, with `Abort` at either await. `Write` is any change
of the table, by the API or by hand, and supersedes every copy there is. `Tick` is
Redis's clock.

* `StalenessBound`: an answer was superseded less than `TTL + MaxLag` ticks ago, where
  `MaxLag` is the slowest gap between a SELECT and its SET. Not `TTL` alone, as
  `src/GLOSSARY.md:77-78` says (section 5): the TTL starts with the SET. The bound is tight.
* `StaleEntriesGo`: whatever is read and written meanwhile.

### 2.7 `Sessions`, `MCSessions`: accounts, sessions and tokens

The handlers came with Lesson 8 (`Lesson_8_code/main.py`, `js/Lesson_8_code/src/server.ts`),
which the map names; the later lessons keep the same statements and put the login limiter
and the acquire timeout (section 2.5) in front of them. A handler awaits bcrypt (in a thread) and the database, so
`req[p]` says between which two awaits a request stands and what it holds there.

| Action | Code |
|---|---|
| `Register`, `InsertUser`, `CommitUser` | hash first, then the INSERT, which waits for an uncommitted one of the same email and raises UniqueViolation (409) when that commits; 201 |
| `Authenticate` | the SELECT and bcrypt; whoever does not know the password gets 401 and changes nothing |
| `NewSession`, `InsertSession` | the id and the end, by the clock of the instance; then, in a block of its own, the row |
| `IssueToken` | a signed token; nothing is stored, so nothing can be deleted |
| `Logout(i)` | one DELETE by id, of a session that lives or not |
| `StartEverywhere`, `DeleteEverywhere`, `CommitEverywhere` | `current_user`, with a cookie or a token; the DELETE, which sees the rows committed before it; its commit |
| `Crash`, `Tick` | a process or connection ends at any await; the database's clock |

A password is the person who knows it, so that "who may act for this account" can be
compared with "who was told 201". `Live` is `SESSION_SQL`, by the database's clock;
`TokenLives` is `verify_token`, by the clock of whatever instance is asked.

* `AccountsKeepTheirOwner`: people who register one address at once; the mutant looks the
  address up instead of relying on the unique index.
* `EndedSessionsStayEnded`: "One DELETE ends the session everywhere, at once", also
  beside logins and other logouts. A login that has passed `_authenticate` when a
  `logout_everywhere` begins inserts its session afterwards and survives it: the property
  is about the sessions that were there. The mutant sends an INSERT again after a lost
  reply and brings a session back.
* `SessionsServeTheirTerm`: neither cut short nor prolonged by more than the skew,
  however long the login waited for a connection between computing the end and writing it.

Of tokens there is nothing to check that is not in the definition of `TokenLives`; they
are there because a token is one of the two ways to call `logout_everywhere`.

### 2.8 `Counter`, `VisitCounter`: four ways to count a visit

`Counter` adds one at a time. `VisitCounter` is `lost_update.py`, its JavaScript twin and
the ORM version of Lesson 6: `Threads` workers, `BUMPS` transactions each, all with the
strategy that `run()` was given, against one row with its lock. A transaction has read a
value (`HasRead`, and whether a commit has made it stale) or has updated the row
(`HasWritten`, and holds the lock).

| Action | Code |
|---|---|
| `SelectCount`, `SelectForUpdate` | the two SELECTs; the second takes the lock |
| `WriteBack`, `UpdateInPlace` | the two UPDATEs; both take the lock |
| `Refused` | SerializationFailure at REPEATABLE READ: the row changed since the snapshot. The loop begins a new transaction |
| `Commit`, `Crash` | the end of the block; a connection lost anywhere, which ends the worker |

* `ImplementsCounter`: the file's claim, that only the first strategy loses updates.
* `RetriesAreEarned`: the loop at line 65 has no limit. A commit refuses each other
  thread at most once, so the retries never exceed `(threads - 1) * commits`.
* `EveryWorkerEnds`: `run()` joins the threads without a timeout.

### 2.9 `TlsProxy`: one connection through the TLS proxy of Lesson 15

A request is `HEAD` units of head and as many of body as it declares. `client` may stop
sending, or end, anywhere; `worker` is where `handle_connection` (or the listener of
`tlsProxy.ts`) stands; `got` is what it has read and `length` what it took for the
Content-Length; `origin` is the handler at the other end, which may die.

The two proxies are one program except for what ends a wait, and `proxy` says which one
runs. In Python `settimeout(5.0)` comes after the handshake and holds for the client's
socket only. In Node a timer covers the socket's whole life, and the end of the client's
side closes the connection.

| Action | Code |
|---|---|
| `Handshake`, `HandshakeRefused`, `HandshakeEnds` | `wrap_socket`: done, refused with SSLError, or given up by the client |
| `ReadHead`, `HeadEnds` | `_read_request_head`: a recv that ends anywhere, or returns nothing; then 413 or the body. The Python proxy goes on with a head that was cut (`HeadCut`), whose Content-Length may be smaller, missing or no number, which closes the connection |
| `ReadBody`, `BodyEnds` | the loop of lines 111 to 116; a body that ends early is forwarded as it is |
| `Timeout` | the timer, where there is one (`Timed`) |
| `Forward`, `ConnectFails` | `create_connection` and `sendall` |
| `OriginAnswers`, `OriginDies` | `do_POST` reads what the head declares, `do_GET` reads nothing and may so provoke a reset |
| `Deliver`, `DeliverCut`, `DeliverReset`, `HangUp` | the response, its cut form, an error instead of it, a client that has gone |

* `CreatedMeansReceived`: an upload is reported as created only when the origin has received
  every byte that the head, as forwarded, declares. The proxy forwards a short body under
  the full Content-Length and never checks; it is the origin that waits for the rest, and
  the mutant lets it answer short. That is the client's whole upload with one exception,
  `HeadCut`: a client of the Python proxy that closes its side inside its own head may get
  "created" for a shorter one, which is the one its cut head declares.
* `NoEndlessRead`: what the timeouts do achieve, in both languages: a client that has
  shaken hands cannot stall a worker in the middle of a request.
* `WholeRequestsEnd`: a client that sends its whole request gets its worker to the end. The
  worker waits for the end of the connection and the origin for the end of the body; that
  these do not wait for each other depends on the origin counting bytes, and the mutant,
  which reads to the end of the connection, makes them.
* `NodeWorkersEnd`: every connection of the TypeScript proxy is closed, whatever its client
  does. Of the Python proxy the comment on line 84, "must not hang a worker forever", says
  as much, and it (`WorkersEnd`) **does not hold**: finding 4.

What a cut response (`DeliverCut`) means to a client no property says.

## 3. The runs

Every passing run checks its module's type invariant as well. `P` passes, `V` is a run
that shows a violation. State counts are distinct states.

| Run | | Instance | States | Question |
|---|---|---|---|---|
| `login_limit` | P | Redis: 2 requests, 2 clients, limit 2, window 3, counter to 3, 1 death. Local: 2 instances, 2 connections, 1 restart | 490 698 | do both limiters keep what they can keep? |
| `redis_limiter_abort` | V | `RedisLimiter` alone, as above, window 2 | | does every window end? |
| `migrate` | P | 1 Python and 1 TypeScript runner, 3 migrations of which 2 and 3 may fail, any directory | 15 511 | does a release step leave log and schema right, whoever runs beside it? |
| `migrate_py` | V | as above | | does `migrate.py` keep what it reported? |
| `bookmark_writes` | P | 2 requests, 2 users, 2 URLs, 2 tags, 4 tag lists, 2 ids | 78 489 | is what is committed always a set of whole bookmarks? |
| `pools` | P | 3 requests, 2 connections. Python: 2 checkouts. TypeScript: 2 operations, queue of 2 | 25 205 | does a pool lose or withhold connections, is everyone served, is a 503 honest? |
| `pool_ts_leak` | V | `PoolTs` alone, as above | | can a request that was told to try again be served? |
| `search_cache` | P | 3 searches, TTL 3, gap 2 | 23 510 | how stale can an answer be? |
| `sessions` | P | 2 people, 1 address, 2 requests, 2 session ids, TTLs 2 and 1, skew 1, time to 5 | 452 193 | who owns an account, and when is a session over? |
| `visit_counter` | P | 3 threads, 3 increments each, 1 lost connection, each strategy | 82 437 | who loses updates, and does everybody end? |
| `tls_proxy` | P | head of 2, body up to 2 allowed and 3 declared, 1 dead origin, both proxies | 1 178 | which clients can hold a worker, and is "created" true? |
| `tls_proxy_workers` | V | as above, head of 1 | | does every worker end? |

**Why the bounds are enough.**

* *Limiter.* Two requests are all that can disagree on one key; two clients show that
  keys do not interact; a limit of 2 has a first, a last and a refused attempt; three
  ticks let a window have a start, a middle and an end. `MaxCount` saturates the counter
  above the limit, where the code no longer tells values apart. `MaxAborts = 1` is
  enough to strand a key, and a death does nothing else.
* *Release step.* Three migrations are needed for one that is applied, one in flight and
  one to come. Runners restart without bound. The proofs cover more runners.
* *Bookmarks.* Two transactions form the shortest circular wait, two ids a bookmark that
  takes a dead one's URL. `MaxId` bounds inserts, the refused ones too, which
  draw an id; deletes, crashes and reads are not bounded. A third id, for what a create
  does after a refused one, takes TLC beyond a few minutes; the proofs have any number.
* *Pools.* Two connections are where two nested requests deadlock, and where a leak can be
  partial; a third request waits behind them. In `PoolTs` `MaxQueue`
  caps a queue that in the code is not capped: once every connection has leaked nothing else can happen, which is why that configuration does not check
  for deadlock; of the Python pool `EveryRequestAnswered` says that it does not stop.
* *Cache.* Three searches: one that stores, one that overwrites it with an older result,
  one that reads. TTL and gap differ so that a bound that mixes them up is seen.
* *Local limiter.* Two instances are what `BACKENDS` lists; two connections can be at one
  instance or at two; one restart shows what a restart adds.
* *Sessions.* One address is what people compete for; two requests are a login or a
  registration and the logout or registration that crosses it; two ids are a session that
  is ended and one that survives. The clock passes the end of a session, with the skew,
  and a second session after it.
* *Visit counter.* Three threads are a winner and two that are refused by one commit, which
  two would not show; three increments let a thread be refused twice. `MaxCrashes = 1`
  is enough to leave a lock behind.
* *TLS proxy.* A head of 2 can be cut; a declared body of 3 is above `MAX_BODY`, one of 2
  can be whole, short or missing.

Only `sessions`, which checks invariants alone, uses symmetry; the other runs check
liveness, for which it is not sound. The clock of `sessions` stops at its bound,
and so may everything in `visit_counter` and the runs of `TlsProxy` when the work is done:
these do not check for deadlock.

## 4. Fairness

| Module | Assumed | Why |
|---|---|---|
| `RedisLimiter`, `LoginLimit` | weak: `Tick`, `Expire(p)` | the clock runs; a request that nobody kills sends its command. None for `Incr`, `Abort` |
| `Migrate` | strong: each runner's `Step` | programs run on; a released PostgreSQL lock goes to the longest waiter, so a wait whose condition comes and goes ends. None for `Start`, `Crash` |
| `BookmarkWrites` | strong: each request's `Step` | the same. None for arrivals and crashes |
| `PoolPy` | weak: `Checkout \/ PyWait`, `Commit \/ PyFail` | handlers run on and their blocks end. None for `PyTimeout`: nobody needs it |
| `PoolTs` | weak: `OrphanEnds`, `Finish \/ TsFail`, `Release` | PostgreSQL answers the queries it has. None for the timer |
| `SearchCache` | weak: `Tick`, `Store \/ Abort` | the clock runs; a request that has its rows stores them or fails |
| `VisitCounter` | weak: each thread's `Work` | the operating system runs every thread; PostgreSQL hands on a lock that is free. Weak is enough: fewer threads compete for the lock with every commit |
| `TlsProxy` | weak: `Worker`, `OriginAnswers` | threads run, a timer that is set goes off, an origin that has its request answers. None for the client, nor for the handshake, which needs the client |
| `Sessions` | none | safety only |

Safety properties do not use fairness. Two of the violations (`OneTransactionEach`,
`RetriesCanSucceed`) are finite traces; the other two (`WindowsEnd`, `WorkersEnd`) are
behaviours of a `FairSpec`.

## 5. Findings

1. **A login window may never end** (`rate_limit.py:50`, `rateLimit.ts:54-57`; run
   `redis_limiter_abort`). INCR and EXPIRE are two commands. If the process or the
   connection ends between them, the key has no expiry; every later INCR returns more
   than 1, so no later request sends EXPIRE; after `LOGIN_ATTEMPT_LIMIT` attempts the
   client is refused for ever.
2. **`migrate.py` does not use one transaction each** (`migrate.py:38`, against its
   docstring, lines 9-10; run `migrate_py`). Its SELECT opens a transaction that nothing
   ends, so `conn.transaction()` is a savepoint in it. When a later migration fails, those
   printed as "applied" are rolled back; in the trace the second of two fails. The
   database stays consistent (all the invariants of run `migrate` hold for Python runners too); the report does not.
   `migrate.ts` keeps its word.
3. **`pool.connect()` leaks behind the acquire timeout** (`server.ts:512`; run
   `pool_ts_leak`). When the timer wins, the queued connect is later given a client that
   nobody releases. After `poolMaxSize` such timeouts no request that needs the database
   is ever served again.

4. **A silent probe holds a worker of `tls_proxy.py` for ever** (`tls_proxy.py:83`, against
   the comment on line 84, "a stalled or bare TLS probe must not hang a worker forever";
   run `tls_proxy_workers`). The timeout is set on what `wrap_socket` returns, after the
   handshake it was to limit. Node limits the handshake.
   `WorkersEnd` fails in a second way, which TLC does not report because the first is
   shorter: a client that closes its side inside its body has the short body forwarded
   under its full Content-Length (lines 113-114); the origin waits for the rest, and the
   worker for the origin, on a socket without a timeout (line 131). Under
   `FairSpec` and with that run's constants, `client = "ended" ~> worker = "closed"`
   fails with this trace.

One sentence of the documentation is corrected by a property that holds:
`src/GLOSSARY.md:77-78` gives the cost of a TTL as "a stale read for up to one TTL after
every write". The TTL starts with the SET, and a search that had read its rows before the
write may SET after it, so the bound of `StalenessBound` is the TTL and the time between a
search's SELECT and its SET; no smaller one holds.

## 6. Proofs

The proofs hold for every value of the constants that satisfies the modules' named
assumptions, all of which TLC evaluates on the runs:

| Assumption | Asks for | Because |
|---|---|---|
| `RedisLimiterAssumption`, `LocalLimiterAssumption` | a positive limit and window, a cap of the counter above the limit, at least one instance | the constants of `rate_limit.py` are positive; the cap is a bound of the model |
| `MigrateAssumption` | disjoint kinds of runners, `Last` a natural number, any `Faulty` | a runner is one program or the other |
| `BookmarkWritesAssumption` | finitely many requests, `MaxId` a natural number, lists of tags | only `MaxId` is a bound; that ids suffice for the requests in flight is counted |
| `PoolAssumption`, `PoolPyAssumption`, `PoolTsAssumption` | finitely many requests, at least one connection, checkout and operation; `Nobody` is no request | `config.py:30` demands a connection; who has one is counted |
| `SearchCacheAssumption` | a positive TTL, any gap | Redis refuses EX 0 |
| `SessionsAssumption` | positive times to live, any skew | `config.py:41-43` demands a minute at least |
| `VisitCounterAssumption` | finitely many threads | who is refused is counted |
| `TlsProxyAssumption` | a head that is not empty | a request has at least a request line |

The sets of requests, clients, runners, people, users, URLs, tags, session ids and threads
may otherwise have any size. Every safety invariant and every action property of the
passing runs is proved, the four refinements among them.

**`LoginLimitProofs`** proves what run `login_limit` checks but for its liveness. Its parts:

* *Redis.* `IInv == TypeOK /\ OneOpener /\ KeyInv /\ RecentInv`. `KeyInv` adds what the
  properties do not say: a missing key has no life, age or grants (`MissingKey`), so
  INCR's 1 really opens a window; the grants are the count up to the limit
  (`GrantsFollowCount`), so no `Grant` exceeds it; and `ttl + age >= WINDOW` (`FullLife`),
  so a key that expires has lived a whole window, which is `Close`'s guard. `RecentInv` is
  the reason for the factor two of `BurstBound`: of the attempts let through lately,
  those younger than the window are its grants, and the rest is what one earlier window
  may have granted at most, since a key that goes is as old as the sliding window
  is long.
* *Local.* `SpreadBound` bounds a sum over instances, which a proof would have to unfold
  by induction. The invariant `CreditInv` says instead that a ledger exists:
  `credit[k]` is what the first `k` instances may still allow. It grows with `k` by what
  each instance's list leaves of the limit, and what has been allowed and all the credit
  together are one limit for each instance and each restart. An attempt spends
  credit and a restart brings a limit of its own (`ShiftedLedger`), a stopped instance
  leaves its credit unused, and a tick hands each age the ledger of the one before.
  There is one ledger for each age, because `SpreadBound` is about a sliding window.
* *The handler.* A step of `LoginNext` is a step of one limiter and leaves the other alone
  (`LoginStep`), so both invariants hold of it.

**`MigrateProofs`** proves `TypeOK`, `RecordMatchesSchema /\ AppliedInOrder`,
`OneMigrator`, `ExitMeansMigrated`, `TsReportsAreDurable` and `ImplementsLog`. The five
safety properties are not inductive together; each runner's `RunnerInv` ties them to its
program counter: what its transaction executed and what it inserted agree up to the
migration in hand (`TxShape`); nothing in flight is committed, and nothing in flight has
a gap below it (`TxExtends`); the loop has dealt with everything below `next`
(`LoopCovers`); what it read is still applied (`KnownIsApplied`). The heart is the lemma
`ExecuteAlone`: if `r` executes migration `v` while another runner has migrations in flight,
then `v` is in no open transaction and not applied, but the other's migrations leave no
gap and `r` has covered everything below `v`, so they are all committed, which
`TxExtends` excludes. Hence `OneMigrator`, and from it that a commit appends to the log
(`CommitExtends`).

**`SearchCacheProofs`** proves `TypeOK` and `StalenessBound`. A copy that waits to be
stored is not staler than it is old (`FetchedInv: stale <= lag`), and of an entry's
staleness whatever exceeds the gap has been taken from its life
(`EntryInv: stale + ttl <= TTL + MaxLag`), so while it lives (`ttl >= 1`) it is below the
bound.

**`BookmarkWritesProofs`** proves `TypeOK`, `BookmarksAreWhole`, `DeletedIsGone`,
`OnlyOwnersDelete` and `ImplementsBookmarkSet`. The invariant adds to these what the
handlers know between their statements:

* `Shapes`: what an open transaction has written at each stage. While a POST works on its
  tags (`Building`), the links it has and the tags it has left to do are together those
  that were asked for, and the tag it is about to link is visible, its own or committed:
  `InsertTag` waits for another's uncommitted one, and no tag is ever removed. So the
  INSERT … SELECT never comes back empty, and a POST at its COMMIT is whole.
* `KeysAreUnique`: neither ids nor URLs collide, among committed rows or rows to be
  committed; the ids below `nextId` are used up.
* `DeletesAreSafe`: the row that a DELETE refers to has the owner its SELECT saw, or is
  gone, and no row will come under its id (`NotPending`). This is where the gap between
  the two statements is harmless: the URL may come back, the id may not.
* `IdsSuffice`: the bound `MaxId` is not overrun by the requests that are about to insert.

A step that writes only what its own request knows is dealt with once (`LocalStep`). The
refinement needs only the two commits: one adds its row with all its links
(`CommitAdds`), the other removes one row (`CommitRemoves`), and all else leaves the set
alone. Nothing of this depends on which waits `Deadlocked` calls circular; that PostgreSQL
finds the circles matters to `EveryRequestEnds` alone.

**`PoolProofs`** proves the invariants of both pools, and of `Pools`, whose steps are steps of
one of them (`InstanceIsSafe`). For the Python one `PyIInv` adds
`PyAtWork` to the run's invariants: a request at work has a block to come and has
committed nothing, which is why a 503 at any checkout is honest. For the TypeScript one
`TsIInv` adds `TsQueueInv`: the timer's rewriting of the queue keeps waiting requests and owned
operations one to one, so a connection is never handed to a request that does not wait for it.
`PyConserved` and `TsConserved` are equations between numbers and cardinalities; each
action moves one request in or out of the set of those with a connection (`Counting`), and
a connection that comes back is dealt with once for each pool (`PyReturnStep`, `TsReturnStep`). From the
equations follow the two facts that stand in for deadlock freedom, `PyNoDeadlock` and
`TsNoDeadlock`: with no connection idle, leaked or in use there would be none at all.

**`SessionsProofs`** proves `TypeOK` and the three properties of `Sessions`. They speak of
rows, and what makes them hold is in the handlers that are about to write one.
`AccountInv`: a handler that has inserted a user is the only one with that address, which
has no owner yet; one that has authenticated acts for the owner. `FreshIds`: an id about
to be inserted is no other handler's, has no row, and no logout has covered it.
`CoveredIds`: what a `logout_everywhere` will answer for is in its own DELETE or gone,
and is nobody's to insert. `TermInv`: the end a handler has computed is off by the skew at
most.

**`VisitCounterProofs`** proves `TypeOK`, `ImplementsCounter` and `RetriesAreEarned`. Who
commits holds the lock and has written `count + 1` (`WriteInv`); the strategies differ in
why the value they read is the committed one: because the reader holds the lock
(`LockInv`), because the read is not stale (`ReadInv`), or because nothing was read. For
the retries the invariant `StaleInv` counts the transactions that will be refused: with
the refusals so far they never exceed one for each other thread and commit. This needs a
finite set of threads, and the cardinality of the set of stale ones.

**`TlsProxyProofs`** proves `TypeOK` and `CreatedMeansReceived`: a worker past the head
either has read it whole and knows what it declares, or has one that its client cut
(`HeadKnown` in `HeadInv`); an origin that has answered an upload has received what that
head declares (`AnsweredInv`), and with a whole head that is everything.

**Model-checked only.** The liveness properties, which are out of the prover's reach:
`StartedWindowsEnd`, `EveryRunEnds`, `EveryRequestEnds`, `EveryRequestAnswered`,
`WaitersAreServed`, `StaleEntriesGo`, `EveryWorkerEnds`, `NodeWorkersEnd`, `NoEndlessRead`
and `WholeRequestsEnd`.

## 7. Not modelled, and why

* *Reads, health check, ETags*: single SELECTs without state.
* *Observability*: counters and log lines that no other part reads.
* *DNS server and caching resolver*: a stand-alone demo that no other part calls. Its two
  races on the cache file are in the list of hazards.
* *Of the TLS proxy*: the choice of a certificate, the rewriting of headers, a
  Content-Length that is negative or sent malformed, a request line that is cut, bytes behind
  the body, a head that drips
  in for ever, and timeouts of `sendall`.
* *First servers, benchmarks, demos, conformance tests, prose*: earlier versions of the
  same API, clients, and text.
* *Login as one handler*: `LoginLimit` ends where `_authenticate` begins and `Sessions`
  begins there. They share no state: the limiter decides, and the rest runs or does not.
* *The teaching variants* `login-leaky` and `login-blocking`: they differ in time and
  change nothing.
* *The other copies of the same program*: Lessons 8 to 14 carry the API along. All of
  Lesson 12's `main.py` is Lesson 14's, and so are 345 of the 355 lines of Lesson 8's and
  9's, 421 of 427 of Lesson 10's and 404 of 475 of Lesson 11's; the TypeScript copies are
  alike. A definition is mapped to one place of one copy: where two languages do the
  same, `Next` (or `Work`) names the whole handler in one and the single actions name
  their statements in the other.
* *Inside PostgreSQL, Redis, psycopg_pool and node-postgres*: modelled from how the code
  meets them, marked external in the map.

## 8. Plan

Done, in this order because the first holds the system's most stated promise and the
others follow by how much depends on them: `RedisLimiter`, `Migrate`, `BookmarkWrites`,
the pools, `SearchCache`; then `LocalLimiter` with `LoginLimit`, `Sessions`,
`VisitCounter` and `TlsProxy`.

The proofs followed in the same order.

Next:

1. The rest of `TlsProxy`: bodies longer than declared, and a head that never ends.
2. `Resolver`: the cache file shared by processes that truncate and write it.
