# Verification of isched

isched is a multi-tenant GraphQL server in C++23 (Boost.Beast, SQLite). This directory
holds TLA+ models of the parts of it where concurrency, failure and long sequences of
calls meet, the TLC runs that check them on small instances, and proofs that TLAPS checks.
`PROJECT.json` is the index: components, runs, mutants, the map from definitions to source
lines, findings, hazards and theorems.

Source paths below are relative to `src/src/main/cpp/isched/backend/`.

## 1. The system

| Part | State it keeps | Operations | Talks to |
|---|---|---|---|
| `Server` (`isched_Server.*`) | status, io_context, listeners, pool of io threads, publisher thread | `start`, `stop`, destructor, `adapt_pool`, `execute_graphql` | owns everything below |
| `HttpListener`/`HttpSession` | one request at a time | accept, read, answer | `Server::execute_graphql` |
| `WsListener`/`WsSession` | graphql-transport-ws session: operation ids, write queue | `handle_message`, `handle_subscribe`, `enqueue_raw`, `close_terminate` | `GqlExecutor`, `SubscriptionBroker`, auth |
| `SubscriptionBroker` | vector of subscriptions, three indices, auth-session table | `subscribe`, `unsubscribe`, `disconnect_session`, `publish`, `register/unregister/revoke_auth_session` | calls handlers, close callbacks and the count callback (`adapt_pool`) |
| `GqlExecutor` | schema AST, resolvers, role gates, query cache, pending schema change | `execute`, `load_schema`, resolvers | `DatabaseManager`, broker, auth, metrics |
| `DatabaseManager` | one `ConnectionPool` per tenant, system database, config-snapshot database | tables for users, roles, organisations, data sources, sessions, schema documents, snapshots | SQLite |
| `AuthenticationMiddleware` | JWT secret, sessions, login lock-out windows | `validate_request`, `create_session`, `record_failed_attempt` | `DatabaseManager` |
| `MetricsCollector` | counters per tenant, since startup and per interval | `record_request`, `get_*_metrics`, `set_interval_minutes` | `Server`, resolvers, publisher thread |
| `RateLimiter` | one token bucket per key | `allow` | called by `createPlatformAdmin` |
| `OrgManager`, `ConfigManager` | tenants, providers | | nobody: the server constructs neither |
| grammar, `CryptoUtils`, `RestDataSource`, `UiAssetRegistry`, `srv_main`, web UI | none of interest | | |

**What is hard.** Requests run on a pool of threads that grows while it runs. Several parts
do their state change under a lock and their callbacks after it (the broker), or check in
one call into the store and write in another (the resolvers). A pool of connections is
shared by threads that may hold two. `stop` joins threads that need the lock it holds.
SQLite statements fail, `COMMIT` too; a process dies between two of them. The `hazards`
list of `PROJECT.json` names each at its line.

**What makes the parts correct.**
- Broker: the indices describe the vector exactly; a call takes effect at one instant; a
  revocation finds its own socket and closes no other; the lock is given back.
- Server: nothing runs in a stopped server; the pool stays within its bounds; `stop` ends
  (it need not: section 3 has what it can wait for in vain).
- Connection pool: no connection is leaked, lent twice or left idle beside a waiter;
  `acquire` returns.
- Configuration: at most one active snapshot, never none where there was one, through
  failures and restarts; the loaded schema follows; the conflict gate holds.
- WebSocket session: messages leave in the order they were queued, none is left behind,
  the object outlives its handlers and goes when its connection does.
- Sessions and login: a refused session stays refused, every revocation catches what it
  should and reaches the broker, the lock-out counts failures and locks out nobody else.
- System database: how many first administrators there can be, no lost update of an
  organisation, settings in order, a tenant database for each organisation.
- Tenant database: a success is in the database, an error leaves nothing there, no upload
  overwrites another unasked.
- Execution of requests: each request runs on the parse of its own text, for its own caller
  and organisation, behind the gates of the field; a field that is denied or whose resolver
  fails stops no other.
- Metrics: totals are exact, an interval counts nothing older than itself.

## 2. Modules

| Module | Models | Kind |
|---|---|---|
| `SubscriptionBroker` | `isched_SubscriptionBroker.cpp` | detailed specification |
| `SubscriptionRegistry` | what its header promises | abstract specification |
| `SubscriptionBrokerProofs` | | theorems |
| `ServerLifecycle` | `Server::start`, `stop`, `~Impl`, `adapt_pool`, listeners, publisher | detailed specification |
| `ConnectionPool` | `ConnectionPool` and `initialize_tenant` of `isched_DatabaseManager.cpp` | detailed specification |
| `ConfigSnapshots` | snapshot store, `applyConfiguration`, `activateSnapshot`, `rollbackConfiguration`, `load_schema`, tail of `execute_graphql` | detailed specification |
| `ConfigSnapshotsProofs` | | theorems |
| `WsSession` | `WsSession` of `isched_Server.cpp` with the broker as it sees it | detailed specification |
| `WsSessionProofs` | | theorems |
| `AuthSessions` | lock-out, tokens and sessions of `isched_AuthenticationMiddleware.cpp`, the sessions table, `login`, `logout`, `revokeSession`, `revokeAllSessions`, `terminateAllSessions` | detailed specification |
| `AuthSessionsProofs` | | theorems |
| `PlatformTables` | the system database and its resolvers, both ways to the first administrator, `updateTenantConfig`, `RateLimiter` | detailed specification |
| `PlatformTablesProofs` | | theorems |
| `TenantTables` | users, data sources and schema documents of one tenant and their resolvers | detailed specification |
| `TenantTablesProofs` | | theorems |
| `RequestExecution` | `HttpSession`, `Server::execute_graphql`, `GqlExecutor::execute`, top-level fields of `resolve_field_selection_details` | detailed specification |
| `RequestExecutionProofs` | | theorems |
| `MetricsCollector` | `isched_MetricsCollector.cpp` | detailed specification |
| `ServerProofs` | | theorems about `ServerLifecycle`, `ConnectionPool` and `MetricsCollector` |
| `MC...` | | symmetry sets for TLC; `MCRequestExecution` also has the documents, callers and requests of its run |

Operators whose comment begins with "Mutant:" are faulty versions of the definition that
follows them; no specification uses them. `PROJECT.json` pairs each with the property that
must catch it.

### SubscriptionBroker

Variables carry the names of the members of `Impl`. A method is one action for each stretch
it runs under `Impl::mutex` and one for each callback it makes after; `call[t]` is where
thread `t` is in between. Only `disconnect_session` keeps the lock over several steps (one
per round of its loop), so only there `mutex` names a holder. The id of a subscription is
taken from the atomic counter before the lock (`SubscribeBegin`, then `SubscribeCommit`).
`revoke_auth_session` is `RevokeAuthSession` (the record is taken out), `RevokeDisconnect`
(a call of `disconnect_session`, with the socket to close carried along) and `RevokeClose`.
The count callback returns (`NotifyCount`) or throws what `adapt_pool` throws when no thread can
be had (`NotifyThrows`): out of a revocation the resolver's caller catches it
(`ThrowSwallowed`, `isched_GqlExecutor.cpp:3256`), out of any other call nobody does, and the
process ends (`ProcessEnded`). Two histories say what the table went through: `shared`, the auth
sessions that two sockets were registered for at once, and `rejoined`, the revocations whose
socket registered again after they had taken it out.
Index vectors are sets: their order decides only in which order handlers are called and
records removed, and the model allows all orders. Payloads are left out.
`count_cb_mutex`, taken for the copy of one function object, is left out too.

`SubscriptionRegistry` has a set of live subscriptions and, for each thread, the handlers a
publish has still to call. The refinement mapping hides the session that a
`disconnect_session` is removing: its records are gone at the instant the lock is taken.

### ServerLifecycle

Callers use the `Server` object, workers are the threads of the io pool, sockets are
WebSocket sessions. Each statement of `start`, `stop` and `~Impl` that another thread can
observe is an action; the caller's `pc` is between two of them. `m_status_mutex` is held
for the whole of `start` and `stop`; `io_threads_mutex` has its holder. A worker is between
handlers, in a handler, in the count callback, waiting for the mutex, or about to add threads. A
handler begins while the io_context runs (`HandlerBegin`) and may accept, subscribe, complete or
lose its connection, and so call back, after `stop` has stopped the io_context: `handle_subscribe`
executes a query first (`isched_Server.cpp:257`). New threads take a set of unused names, the same
whenever it is asked for (`Fresh`), since nothing tells names apart. `StartThrows` and `AdaptThrows` are the refusal of a thread by the system. `std::terminate`
is a state in which nothing runs (`Terminate`). A session lives in a handler of the
io_context and dies with its connection or with the io_context. Left out here: an exception of the
count callback in a revocation by a resolver, which is swallowed and leaves a pool that is smaller
than asked for (`SubscriptionBroker` has it), or in a session that dies inside `start`; and settings
that `set_configuration` takes unchecked (`isched_Server.cpp:993`): the assumption has
`min_threads <= max_threads`, which `start` does not test.

### ConnectionPool

`acquire` from its predicate to its end, and the locked part of `return_connection`, are one
action each; waiting and `notify_one` are separate. Deadlines may pass at any moment and
spurious wake-ups happen. Two callers are modelled: a query (acquire, use, return) and
`initialize_tenant`, which keeps its own connection while four `ensure_*_table` calls
acquire a second. `IoErrors` lets SQLite fail to open and to execute.

### ConfigSnapshots

`snaps` is the table as the one open connection sees it and `durable` what is committed:
they differ while a transaction is left open (`txn`). Every call into the store is atomic
(`config_db_mutex_`); a request is a sequence of them, with `set_pending_schema_change`,
`register_resolver` and the published event as further steps, and ends with the tail of
`execute_graphql` (`GetPending`, `ClearPending`, `LoadBegin`, `LoadSchema`), unless it came
over a WebSocket (`AnswerOverSocket`). A snapshot has a kind instead of an SDL: only types,
a field that nothing resolves, a field with its binding, or a binding with a member that is no
string (`"mistyped"`). A request that answers with an error behind a change remembers the row
(`hides`). The initial tables are a constant (`Stores`), so that a small run can begin with a
history of saves. `load_schema` is not locked;
two loads that overlap may lose one (the data race as a choice of outcomes). Versions are
drawn from a small set, `created_at` is a clock in whole seconds.

### WsSession

One session. Its handlers run on the strand one after the other, so a handler is one action;
only `handle_subscribe` is two, because other threads see the time between the query's
execution and `broker_->subscribe` (`registering`). The broker is the set of the session's
subscriptions and its entry in the auth table, changed in atomic steps, which is what
`BrokerSafety` shows. A publish collects its handlers in one step and calls each in another;
a revocation takes the entry out, disconnects and calls the close callback in three.
`reading`, `writing`, `posted` and `registering` are what keeps the object alive
(`shared_from_this` in the handlers); the callbacks held by the broker are weak. `sent` and
`wire` record what was queued and what the client received. The stream is external:
`async_close` waits for the write in flight and makes every later write fail, and a
connection may be lost at any moment. Frames that are not JSON or have an unknown type
change nothing and are left out. An exception that leaves a handler ends the process
(`ProcessEnds`): of a frame that is valid JSON and no object or has a member of another type
(`isched_Server.cpp:195`), of an argument that does not convert, or of the count callback in
`subscribe` or in the destructor. In a revocation the same exception is swallowed and the close
callback not called (`RevokeThrows`, `RevokeAbandoned`).

### AuthSessions

A request is on one thread; every access to the lock-out state and every SQL statement is an
action. `LoginBegin` tests the lock-out; `LoginFails` and `LoginVerified` come after the slow
password hash and record the outcome; `IssueToken` signs the token (a session is its number
in the order of signing) and `PersistSession` writes the row, or fails to. `row[i]` is
what the sessions table says of session `i`; `validate_token(i)` is what the middleware
answers for its token. A statement of any of the four ways to end sessions may fail. The
histories `alone`, `cut` and `told` record the sessions ended one by one, those that a
`revokeAllSessions` met whose statement succeeded, and those the broker heard of. `fails[a]` is the
queue of failures that `record_failed_attempt` keeps, which drops old ones from its front;
`failed[a]`, a history, has all of them since the last success. `LockoutIsEarned` speaks of
the history: an attempt that was past the test when the lock began fails under it, and may
push out of the queue some of the failures that earned it. Time counts in units in which the
window, the token's life and the lock are whole.

### PlatformTables

A function of `DatabaseManager` is one action (`system_db_mutex_`), a resolver one for each
call it makes. `BootstrapAdmin` and `CreateAdmin` are the two ways to an administrator after
their gates; `seeded` counts those let in by a gate since the last deactivation, `blind` says
that a gate was passed on a listing that failed or was cut short (the loop at
`isched_DatabaseManager.cpp:1702` ends at the first step that is not a row). An update of an
organisation carries the revision it was given; `edits` and `life` are histories of what happened to the row.
`updateTenantConfig` reads and writes three settings one by one; `mixed` holds the
organisations whose updates overlapped, failed or were cut off by a restart. The bucket of
the limiter counts in exact fractions instead of floats; `allowed`, a history, has the times
at which it let a request through since the last start.

### TenantTables

One row per table, whose value is the number of the request that wrote it last: `db` is what
is committed, `view` what the connection inside an open transaction sees. A function takes
any connection, so every statement chooses between the clean ones and the open one. The open
transaction holds the write lock: no other connection writes or makes a table beside it, and
a table made on it (`made`) is its own and lost at a restart. Histories say which requests were
granted, which refused and whose writes were applied, which updates had their user deleted
between their statements (`missed`) and then made again before they read it back (`reborn`),
how often the data source was made and deleted; `poisoned` that a `COMMIT` has failed.

### RequestExecution

A connection of `HttpSession` is idle, being served or being written to. A request goes from
its arrival through the CSRF gate, the two thread-local slots (`tl_resolver_ctx`,
`tl_gql_variables`), the cache (`Lookup` under the shared lock, `Parse` under none, `Insert`
under the exclusive one), the limits and its fields to the counters at the end. `heap` holds
the parsed queries that some `shared_ptr` still owns. A document is a sequence of paths, a
constant of the model, in which a nested path comes after the top-level field it is below; one
entry of it may stand for a definition that is not executable, at which execution ends
(`StopAtDefinition`). Constants say what a text writes for the organisation of a field (a literal
or a variable, `Written`) and which fields have an argument that does not convert (`Unreadable`).
Such an argument throws before the gates and past every catch (`ArgumentThrows`); `terminated` is
the end of the process. `SocketOperation` is the overload of `execute` a WebSocket uses, which
leaves the context slot alone and is not counted. `get_resolver` at
`isched_GqlExecutor.cpp:3239`, also outside the `try`, throws only if the resolver has gone since
`has_resolver`, and nothing removes one.

### MetricsCollector

Every operation on an atomic is an action, in program order, but for `CheckInterval`, which loads
the start and the length of the interval at once (its comment says why nothing is lost); the map
of tenants is guarded by its mutex. The moving average is the set of the samples folded into it, so that a lost sample
is visible. `since` counts what was recorded after the current interval began.

## 3. Runs

Passing runs:

| Run | Bounds | Shows |
|---|---|---|
| `BrokerSafety` | 2 threads, 2 sessions, 2 topics, 2 auth sessions, 3 subscriptions; symmetry | index consistency; a revocation finds its own socket and closes no other, but for two cases; the broker implements `SubscriptionRegistry` |
| `BrokerLiveness` | 2 subscriptions, 1 topic, 1 auth session, weak fairness, no symmetry | the loop ends; a revocation terminates its socket unless the count callback throws |
| `Lifecycle` | 2 callers, 4 threads (pool 1..2), 2 sockets, one start, refused threads, weak fairness | quiet when stopped, pool bounded, a join in vain waits for a thread that wants the mutex of `stop`, and for nothing else |
| `Pool` | 2 threads, 2 connections, I/O errors, weak fairness | accounting, wake-ups, `acquire` returns |
| `WsSession` | 2 operations, 3 frames, 1 event, distinct live ids, weak fairness | queue order and nothing stuck (`QueueInv`), the object outlives its handlers, `complete` ends its operation, lost sessions go, and revoked ones whose writes end and whose callbacks return |
| `ConfigStore` | 2 requests over HTTP and WebSocket, empty tables with up to 2 rows added or 3 rows of different seconds, clock to 2, 1 fault, 1 restart; symmetry | one active snapshot, a configured tenant stays configured, what an error answer can have changed; loaded schema and rollback target where nothing overlaps |
| `AuthSessions` | 2 threads, a user and a platform_admin, 2 sessions, 4 logins, 2 attempts per window of 1, clock to 2; symmetry | lock-out bounded and earned; what each way to end sessions catches and misses; nothing revives a session; the broker is told |
| `PlatformTables` | 2 threads, 3 emails, 2 organisations, 4 requests, buckets of 2, minutes of 3, clock to 2, 1 fault, 1 restart; symmetry | number of first administrators, no lost update, settings in order, limiter, provisioning |
| `TenantTables` | 2 threads, 6 requests, 1 fault, 1 restart; symmetry | what success and error say of the database, no silent overwrite |
| `Requests` | 2 threads, 2 connections, 3 requests of 17 kinds, cache of 1 entry, depth 2, complexity 3; symmetry | cache, isolation of callers, complete answers and counters, the one way the process ends |
| `Metrics` | 2 threads, 2 tenants, 3 records, 1 report or change of length, clock to 2; symmetry | exact totals and samples, fresh intervals, consistent reports |

Several invariants are conjunctions of named parts about one piece of state (`PoolInv` of
`ServerLifecycle`, `QueueInv`, `StoreInv`, `LockoutInv`, `SessionsInv`, `OrganizationsInv`,
`SuccessInv`, `CacheInv`, `IsolationInv`, `AnswersInv`, `CountersInv`); the type invariant of
a module is a conjunct of one of them. Each part has its own comment in the module.

Why the bounds are enough: swap-with-last needs a removed, a moved and a bystander record
(three subscriptions), in one or two sessions and topics. Two threads exhaust a pool of two
connections when each holds one and waits for another; that wake-ups are kept for any number
of threads is proved. The pool growth needs a second subscription above the threshold of a
pool of one. On a WebSocket, `connection_init`, `subscribe` and `complete` (three frames) and
one event meet in every order, with a revocation among them. Two attempts past the lock-out
test while the limit is reached need two threads and four logins; a window that slides needs
a clock of two. A seed race needs two threads at the gate, a bucket of two, since both gates may be
that of `createPlatformAdmin`, and a third e-mail for a late administrator; with a bucket of two
and a minute of three, a token is back after two units of time, so that three requests pass within
one minute, which is all that the bound allows; an update that meets a deleted and recreated organisation takes four requests;
a user deleted and recreated under an update, with a document beside it, six. A rollback with a
choice needs two inactive rows beside the active one: three rows, which are activated in turn. An eviction
under an executing request needs one cache entry and two texts; a stale slot needs a second
request on the same thread; three requests put both together. A boundary between two
intervals met by two threads needs three records. All counters that would grow for ever have
a named bound (`MaxSubs`, `MaxFrames`, `MaxEvents`, `MaxStarts`, `MaxSnapshots`, `MaxTime`,
`MaxAdded`, `MaxFaults`, `MaxRestarts`, `MaxSessions`, `MaxLogins`, `MaxRequests`, `MaxRecords`,
`MaxReads`). The `Pool`, `WsSession` and `ConfigStore` runs check for deadlock: with a
bound used up, other calls go on. `CHECK_DEADLOCK FALSE` is used where behaviours end: in the
broker with the process, by an exception of the count callback; in `ServerLifecycle` with the destructor (or with the deadlock `LifecycleStop` is about), in
`AuthSessions`, `PlatformTables`, `TenantTables`, `Requests` and `Metrics` with the last of a
bounded number of requests; in none of these five does a thread wait for one that waits itself.

Fairness: a thread that is inside a call keeps being scheduled (weak fairness of the actions
that continue a call), a deadline that was set passes, a handler ends (`HandlerEnd`: its query is
executed), and the close handshake of a WebSocket and the read of a lost one end (with the peer, or
with the timeout of the handshake that `do_accept` sets on the stream). A write need not end: a
client that sends but does not read leaves it in flight, and what it sends keeps the idle timer
from firing. `RevokedSessionGoes` has that as an exception, beside the callback that throws and
the end of the process. In the broker the count callback is assumed to return or to throw: that it
may wait for ever is what `Lifecycle` is about. Nobody is obliged to begin a call, clients may stay
silent, and no mutex is assumed to be fair.

### Disagreements between code and documentation

`LifecycleStop` states what `isched_Server.hpp:208` says ("@post Server status becomes
STOPPED") and ends in a counterexample: `stop` joins threads while it holds the mutex that one
of them waits for.

The models contain further behaviour that a reader of the comments would not expect, which no
run is spent on.

Server, broker, WebSocket:

- a second `start` assigns to the publisher thread of the first, which is still joinable, and
  ends the process (`StartPublisher` with `MaxStarts = 2`; `isched_Server.cpp:1101`); before that
  it has destroyed the io_context of the first, whose sessions report through `adapt_pool` as they
  go: threads are added before the ports are open, and a port that cannot be opened then leaves
  them behind (`StartBegin`; `isched_Server.cpp:1030`);
- `register_auth_session` keeps one socket per auth session: a second one replaces the first,
  which no revocation finds any more, and once the first is destroyed or registers for another
  auth session neither is the second (`RegisterAuthSession`, `ForgetAuth`;
  `isched_SubscriptionBroker.hpp:138` says "Revoke all WebSocket connections");
- a socket that registers for another auth session (`isched_Server.cpp:197`) after a revocation
  has taken it out and before its close callback is closed for the old one (`RevokeClose`);
  `RevocationHitsItsOwner` states this and the former as its two exceptions;
- when `adapt_pool` can have no thread (`isched_Server.cpp:936`), its exception leaves
  `disconnect_session` before the close callback: the resolver's caller swallows it and the revoked
  socket stays open (`NotifyThrows`, `ThrowSwallowed`); out of any other call it ends the process;
- a frame that is valid JSON and no object, or has a member of another type, ends the process
  (`ProcessEnds`; `isched_Server.cpp:195`);
- a client that sends but reads nothing keeps a revoked session alive: the close waits behind the
  write in flight (`WriteDone`, which no fairness obliges);
- the broker reports its count after the lock is released, so that two reports can arrive
  in the opposite order (`NotifyCount`; `isched_Server.cpp:1022` says "in sync");
- `revoke_auth_session` removes subscriptions before it closes the socket, which can
  subscribe in between (`RevokeDisconnect`, `RevokeClose`);
- `stop` returns true on a server in ERROR, which stays in ERROR (`StopNotRunning`);
- after a stop, sessions left in handlers die with the old io_context inside the next
  `start`, and their count reports add threads before the pool is built (`StartBegin`);
- the destructor frees the broker before the io_context whose handlers keep sessions, and
  with them calls of the broker (`DtorMembers`, `DtorFree`);
- a client that reuses the id of a live operation overwrites the subscription id kept for it,
  and the first subscription ends with the session only (`Subscribe` of `WsSession`; with
  `ReuseIds = TRUE` TLC refutes `CompleteEndsOperation`);
- an event collected before a `complete` is sent after the answer to it (`Deliver`,
  `RunPosted`);
- `connection_terminate` is queued and the close started behind the write in flight, so that
  with a message in flight the close overtakes the terminate frame (`RunPosted`, `CloseSent`).

Configuration:

- two requests share one pending schema change, which is read, cleared and loaded in three
  steps: the loaded schema can stay behind the active snapshot (`GetPending`, `ClearPending`;
  `isched_Server.cpp:1425`); `LoadedIsActive` is stated for requests that do not overlap;
- a rollback goes by creation time, in whole seconds, not by activation (`RollbackTarget`;
  `isched_GqlExecutor.cpp:1245` against the comment at line 1209);
- an activation over a WebSocket is not followed by a load (`AnswerOverSocket`); the check of
  `expectedVersion` and the save can be separated by another request (`ApplyCheck`,
  `ApplySave`; `isched_GqlExecutor.cpp:1032`); a rollback publishes no event (`QueueSchema`);
- an activation answered with an error has taken place when its field had a resolver already,
  when a member of its binding is no string (`json::type_error`; `isched_GqlExecutor.cpp:1187`
  catches `parse_error` only) or when its COMMIT failed: `FailureChangesNothing` says that there is
  no fourth way;
- a snapshot whose SDL `load_schema` refuses becomes the active one (`LoadSchema`).

Logins and sessions:

- requests and `connection_init` call `validate_request` (`isched_Server.cpp:1395` and 205),
  which checks the signature and never the sessions table; `validate_token`, which does, is
  called by tests only, although the comment at `isched_GqlExecutor.cpp:1501` relies on it.
  The theorems about `validate_token` say what it would give its callers;
- `revokeAllSessions` and `terminateAllSessions` answer true when their statement fails, and the
  sessions stay (`isched_GqlExecutor.cpp:1500`, 1524): `LoggedOutEverywhere` speaks of statements
  that succeed;
- logins of platform administrators have no row in any sessions table;
- `revokeSession` of a session that `revokeAllSessions` ended answers "not found", and the
  broker is not told: a socket of that session stays open;
- `validate_token` counts a revoked token as a success and as a failure; it accepts a token
  when `get_session` fails (`isched_AuthenticationMiddleware.cpp:304`).

System and tenant databases:

- a listing of administrators that fails counts as seed mode (`isched_GqlExecutor.cpp:2276`), and
  one that a failing step cuts short as complete (`isched_DatabaseManager.cpp:1702`);
  overlapping requests can make one first administrator each; `platformBootstrapStatus` says
  "allowed" while there are inactive administrators only, and the bootstrap refuses;
- an organisation that is deleted and made again starts its revisions again, so that an old
  `expectedRevision` fits; the tenant database of a deleted organisation stays;
- a failed, interrupted or overlapping `updateTenantConfig` leaves `min_threads` above
  `max_threads` (`SettingsOrdered` excludes exactly these);
- the limiter lets nearly twice its capacity through in one minute (`isched_RateLimiter.hpp:80`);
- `initialize_tenant` reports success without its tables when its own connection uses up the
  pool (`EnsureTable`, `AfterCall`);
- a `replace_schema_document` whose COMMIT fails gives its connection back inside the
  transaction: later requests write into it and are lost with it (`UploadCommitFails`);
- an `updateUser` that met no row answers with success when the user was made again before it
  is read back (`reborn`, the exception of `SuccessIsCommitted`);
- `organizations` divides by a page size of 0 and takes a page number of 0 or less as a negative
  index (`isched_GqlExecutor.cpp:1842`, 1846): arithmetic on one request's arguments, not modelled.

Execution and metrics:

- a WebSocket operation runs with the context that the last HTTP request left on its thread
  (`SocketOperation`; `isched_Server.cpp:257` against `isched_GqlExecutor.hpp:67`), and is
  counted nowhere: `IsolationInv` speaks of the caller for requests over HTTP only;
- a request refused by the CSRF gate is counted neither as success nor as error;
- an integer literal beyond 64 bits throws out of `execute` (`isched_GqlExecutor.cpp:2976`) and out
  of the io thread, before the role of the caller is looked at: the process ends, and the requests
  under way are neither answered nor counted (`ArgumentThrows`);
- each HTTP request's time is folded into the server's average twice, by a load and a store
  between which other samples are lost (`isched_Server.cpp:1260`);
- `isched_MetricsCollector.hpp:38` says that the interval reset is serialised by the mutex; it
  is lock-free: a request counted between the winning exchange and the two stores of 0 is lost
  from the interval, and errors of an interval can exceed its requests;
- `set_interval_minutes` makes a tenant's entry, which `tenantCount` then counts; nothing
  increments `active_connections`.

## 4. Proofs

The proof modules are about the `Spec` of the module they extend, for all values of the
constants that satisfy its named assumption. The assumptions say that the bounds are natural
numbers, that "none" values are outside their sets and, where something is counted per
thread, that there are finitely many threads; what else one says is given below. The
inductive invariants were checked with TLC on the instances of the runs before they were proved.

**`SubscriptionBrokerProofs`**. `IndexConsistent` is not inductive by itself:
`SubscribeCommit` appends a record under an id that no other record may have, and one round
of the loop of `disconnect_session` may only meet other threads that do not touch the
indices. `BrokerInv` adds `FreshIds` (ids handed out and not yet committed are distinct and
unused) and `LockDiscipline` (the lock is held exactly by the thread in the loop). The heart
is the lemma about `eraseSubscriptionAt`: removal of a record and renaming of the last one
leave all three indices exact. From it: `BrokerInvariant`, `TypeCorrect`, `IndexCorrect`.
`RevocationOwner` is a separate induction over the auth table: `RevocationHitsItsOwner` is
inductive together with the types, because every writer of `ws_to_auth[w]` first forgets
the entry that `w` had, and because an auth session that had two sockets, or a socket that
registered again while a revocation was about to close it, is noted. `BrokerImplementsRegistry` is the refinement: under `BrokerInv` every
action is an action of `SubscriptionRegistry` or a stutter. The step that begins a
`disconnect_session` is the abstract one, and the rounds of the loop stutter, because the
mapping hides the records of the session whose removal holds the lock.

**`ServerProofs`** is about the three modules whose state the server's threads share. So that one
module can extend all three, `ConnectionPool` and `MetricsCollector` have their specification
under names of their own (`ConnSpec`, `MetricsSpec`).

*Life cycle* (any callers, threads and sessions). The bound of the pool rests on the mutex: what
`adapt_pool` computed is still free when it adds threads, because a thread about to do so holds
`io_threads_mutex` (`Pooled`), and `start` fills a pool that is empty. `QuietWhenStopped` needs every
thread that runs to be in the vector that `stop` joins (`Pooled` again), what `start` has opened and
`stop` has closed so far (`Built`), and one call at a time, none beside the destructor (`Excludes`).
A handler that is under way changes none of it until it calls back. `LInv` is these for the first life of the object (`starts <= 1`), and the types always. The
restriction is the code's, not the proof's: TLC refutes `QuietWhenStopped` in the second life (the
disagreement above), which ends the process in any case. Theorems: `LifecyclePool`,
`LifecycleQuiet`.

*Connections* (any pool size). `PoolAccounting` needs `LeasesMatch`, which ties
the set of leases to where each thread is, so that a return always finds the lease it removes.
`NoLostWakeup` needs the accounting: with a waiter, all connections exist, and what is in the
queue is at most the number of threads that were woken or are about to notify. The lemmas
classify a step by what it does to the pool (`StillStep`, `LendStep`, `ReturnStep`,
`NotifyStep`) and `ConnStep` assigns each action to one. Theorems: `PoolInvariant`,
`PoolAccounts`, `PoolWakesWaiters`.

*Counters* (any threads, tenants and lengths of an interval). `MInv` says what each atomic counts:
the requests whose thread is past its `fetch_add` (`Counted`), which takes requests with numbers of
their own (`Numbered`) and threads that know theirs and have a tenant in the map (`Known`,
`Blank`). The average is a set of samples and loses none because a thread exchanges only what it
loaded. A counter that is ahead of its interval has a thread about to zero it (`Zeroed`); two
threads at one boundary cannot both be, since one exchange fails. A report in the making is
covered by the totals that it has still to load, and those only grow (`Summed`): with the loads in
another order it would not be inductive, nor true. Theorems: `MetricsExact`, `MetricsFresh`,
`MetricsReports`.

**`ConfigSnapshotsProofs`**. `CInv` has the shape of rows and requests, `Single` for both views
of the table (at most one active row of a tenant), equality of the two views unless a
transaction was left open, and that every error in the making that hides a row is one of the three
kinds (`Explained`), which is `FailureChangesNothing` before the answer is given. Equality is what carries an activation
over to disk; that a row to be activated exists is needed because the switch deactivates the
others first, and holds for a rollback because of two listed rows one is inactive
(`TargetExists`, with `MinIsMember`, a least element by well-foundedness). `TInv` adds the types;
that the table keeps within `MaxSnapshots` takes the saves in progress into account
(`WithinBound`). `LInv` is about what is loaded: while nothing disturbs the store there is one
request at a time, and the active row of a tenant is loaded already or on its way (queued, about
to be, or read from the queue). `RInv` is about rollbacks under the same conditions: the row
activated last is active, and a rollback that is about to write has the target of a listing of
the table as it still is. A listing shows every row once (`ListingIsComplete`, an injection
between finite sets of one size), so that with rows activated in the order of their creation the
active row comes first and the one before it second (`NextIsPrevious`). Theorems:
`ConfigInvariant`, `ActiveIsUnique`, `ConfiguredForGood`, `ErrorsChangeNothing`, `StoreIsSound`,
`ActiveIsLoaded`, `RollbackIsPrevious`.

**`AuthSessionsProofs`**. A login signs a token and inserts its row later, with revocations in
between. `RowsAreIssued` keeps rows to signed tokens, `PersistIsFirst` says that an insert under
way is the first word on its session (nobody revoked it, no other insert has it), and
`CutIsDead` that a row `revokeAllSessions` met is revoked. Without the second, a late insert
could revive a session. Theorems: `SessionsInvariant`, `SessionsEndAsAsked`, `BrokerIsTold`,
`NoSessionRevives`. `LockoutHolds` needs the history of failures: the queue is an end of it,
and what has left the queue is older than the window (`QueueIsRecent`); a full queue is under a
lock that lasts a window beyond its last failure (`FullIsLocked`), so that nobody new gets past
the test; those who are past it already are counted with the failures (`WithinBudget`).

**`WsSessionProofs`**. `InOrder` and the rule that an open stream with messages is being written
(`NothingStuckYet`, stated from the handshake on, because accepting opens the stream) are
inductive with the types; that subscription ids stay in their bound needs the frames that paid
for them (`IdsWithinFrames`). The end of the process changes nothing of the session. `QueueCorrect` and `HandlersKeepAlive` hold for any client.
`CompleteEnds` assumes `ReuseIds = FALSE`: the client does not reuse the id of an operation that
is live, without which the property is false (section 3).

**`TenantTablesProofs`**. Requests are numbered, and `Numbered` says that the number of one that
has still to write is in no row and was not refused: an error answer therefore leaves nothing
(`ErrorIsTrue`). `Isolated` confines what an open transaction sees to its connection, `Replacing`
says that an upload about to replace asked to and found a document (`NoOverwriteUnasked`).
`Counted`, `Known` and `Honest` hold while no `COMMIT` has failed: creations and deletions account
for the data source, and an update on its way to read the user back has written, or was noted when
its user was deleted (`missed`) and again when it was made once more (`reborn`). Theorems:
`SuccessIsTrue`, `ErrorIsTrue`, `NoOverwriteUnasked`.

**`PlatformTablesProofs`**. The invariant has one part for each group of tables, and a step of one
group leaves the others' state alone (`Moves`, `Steady`). `LimiterInv`: for every earlier moment
`s`, the tokens taken since `s` and those left are at most a full bucket and what was refilled
since `s`; `LimiterHolds` is the case of one minute. `SeedInv` counts those who are past a gate
with those who were let in, and `SettingsInv` says what the one update in progress has prepared.
Theorems: `LimiterSound`, `SeedingSound`, `SettingsSound`,
`UpdatesAreNotLost`, `OrganizationsSound`.

**`RequestExecutionProofs`** (assumption `ExecutionAssumption`: a document is a sequence of paths,
each below a top-level field before it or one itself). A parsed query is known by the number of
the request that parsed it: `Numbered` keeps numbers apart, `EntriesAreSound` ties cache entries to
their text, and with both `ParseIsOwn` survives evictions, because a query is freed only when
neither the cache nor a request refers to it. `SlotsAreOwn` says that a thread's slots hold what
its present request brought, `GatesHold` that a resolver in progress passed both gates under
these slots; `IsolationInv` follows. `RequestInv` adds, for the cache, that it holds only what could
be parsed and that a full one loses an entry before it gains one; for the answers, `Progress`:
a request has answered every top-level field before the one it is at and nothing that its
document does not have, so that at the end nothing is missing up to a definition that is not
executable; for the end of the process, that it came at a field whose argument does not convert; for connections, `Serving`: the
requests over HTTP and the connections being served belong together one to one. That the limits
bound every path rests on `Max` being the greatest of finitely many lengths, an induction written
as the least counterexample (`FamilyBounded`). Theorems: `ExecutionInvariant`,
`CallersAreIsolated`, `ParsesAreOwn`, `RequestInvariant`, `CacheIsCorrect`, `AnswersAreComplete`.

**Only model-checked**:
- liveness (`LockIsReleased`, `RevocationCompletes`, `AcquireReturns`, `JoinEndsUnlessAdapting`,
  `LostSessionGoes`, `RevokedSessionGoes`): it rests on fairness, which the prover does not
  handle. Every invariant and every action property that a run checks is a theorem.

## 5. Not modelled

- The grammar and the AST, introspection, argument and literal conversion (but for an argument
  that throws) and the nested selections of a query: parsing and tree walking on strings. `RequestExecution` has the
  fields of a document as a constant.
- `SchemaMigrator`, `generate_schema`, `execute_query` and `execute_transaction` of
  `DatabaseManager`: they build SQL text and no resolver calls them.
- The session map in memory of `AuthenticationMiddleware` (an older interface that nothing in
  the server uses) and the signing of tokens; `CryptoUtils`.
- `OrgManager` and the configuration loader under `shared/config`: the server constructs
  neither. AST visitors and file-system helpers, `RestDataSource`, `UiAssetRegistry` and the
  main program keep no state of interest; the web UI is a client.
- The cutting of lists into pages, and validation of a request's own arguments that throws before
  anything is changed.
- `total_requests_` of the pool is incremented outside its mutex
  (`isched_DatabaseManager.cpp:116`); it only feeds statistics. A `start` that is refused a
  thread leaves its listeners and threads behind in ERROR until the destructor:
  `QuietWhenStopped` speaks of ERROR only after a port could not be opened.

## 6. Plan

All modules of section 2 are done, and every safety property of the runs is proved. What is left
is liveness, when the prover can handle fairness, and the parts of section 5.
