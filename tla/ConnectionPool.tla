--------------------------- MODULE ConnectionPool ---------------------------
(***************************************************************************)
(* ConnectionPool of isched_DatabaseManager.cpp, one tenant's pool, and    *)
(* the two ways DatabaseManager uses it.  A query acquires a connection,   *)
(* runs and returns it.  initialize_tenant acquires one, writes the        *)
(* metadata table and then, still holding it, acquires a second one for    *)
(* each ensure_*_table call in turn.                                       *)
(*                                                                         *)
(* pool_mutex_ is held from the predicate to the end of acquire, and over  *)
(* the first part of return_connection, so each is one action; waiting on  *)
(* pool_cv_ and notify_one are actions of their own.                       *)
(***************************************************************************)
EXTENDS Naturals, FiniteSets

CONSTANTS Borrowers,        \* the threads that use the pool
          MaxConnections,   \* max_connections_
          IoErrors          \* whether SQLite may fail to open or to execute

ASSUME PoolAssumption ==
    /\ IsFiniteSet(Borrowers)
    /\ MaxConnections \in Nat
    /\ IoErrors \in BOOLEAN

\* The ensure_*_table calls of initialize_tenant, in order: users, sessions,
\* data_sources, schema_documents.
NTables == 4

VARIABLES
    available,      \* available_connections_.size()
    active,         \* active_connections_
    created,        \* total_created_
    leases,         \* PooledConnection objects alive: <<thread, which>>
    call,           \* what each thread is doing
    tables          \* tables that exist in the tenant's database

conn_vars == <<available, active, created, leases, call, tables>>

\* job: the caller.  table: 0 while initialize_tenant (or a query) deals with its
\* own connection, k while it is inside the k-th ensure call, NTables + 1 once it
\* is past them.  late: the deadline of this acquire has passed.  ok: the result
\* so far of the job.
Call == [at    : {"idle", "acquire", "wait", "woken", "hold", "release", "notify"},
         job   : {"query", "init"},
         table : 0..(NTables + 1),
         late  : BOOLEAN,
         ok    : BOOLEAN]

Leases == Borrowers \X {"own", "nested"}

ConnTypeOK ==
    /\ available \in Nat /\ active \in Nat /\ created \in Nat
    /\ leases \in SUBSET Leases
    /\ call \in [Borrowers -> Call]
    /\ tables \in SUBSET (1..NTables)

ConnInit ==
    /\ available = 0 /\ active = 0 /\ created = 0
    /\ leases = {}
    /\ call = [t \in Borrowers |->
                 [at |-> "idle", job |-> "query", table |-> 0, late |-> FALSE, ok |-> TRUE]]
    /\ tables = {}

\* Inside an ensure call, and so dealing with a second connection.
Nested(c) == c.table \in 1..NTables

Holding(c) == c.at \in {"hold", "release"}

\* The connection the thread is acquiring or returning.
Lease(t) == <<t, IF Nested(call[t]) THEN "nested" ELSE "own">>

Waiting == {t \in Borrowers : call[t].at = "wait"}

\* The predicate of wait_until.
CanServe == available > 0 \/ active < MaxConnections

-----------------------------------------------------------------------------
(* acquire                                                                 *)

Begin(t, job) ==
    /\ call[t].at = "idle"
    /\ call' = [call EXCEPT ![t] = [at |-> "acquire", job |-> job, table |-> 0,
                                    late |-> FALSE, ok |-> TRUE]]
    /\ UNCHANGED <<available, active, created, leases, tables>>

\* Between calls to the predicate.
Checking(t) == call[t].at \in {"acquire", "woken"}

Wait(t) ==
    /\ Checking(t) /\ ~CanServe /\ ~call[t].late
    /\ call' = [call EXCEPT ![t].at = "wait"]
    /\ UNCHANGED <<available, active, created, leases, tables>>

\* Mutant: a waiting thread is not woken by its deadline.
DeadlineIgnored(t) ==
    /\ call[t].at \in {"acquire", "woken"} /\ ~call[t].late
    /\ call' = [call EXCEPT ![t].late = TRUE]
    /\ UNCHANGED <<available, active, created, leases, tables>>

\* The deadline passes; a thread that is waiting evaluates the predicate again.
Deadline(t) ==
    /\ call[t].at \in {"acquire", "wait", "woken"} /\ ~call[t].late
    /\ call' = [call EXCEPT ![t].late = TRUE,
                            ![t].at = IF @ = "wait" THEN "woken" ELSE @]
    /\ UNCHANGED <<available, active, created, leases, tables>>

Spurious(t) ==
    /\ call[t].at = "wait"
    /\ call' = [call EXCEPT ![t].at = "woken"]
    /\ UNCHANGED <<available, active, created, leases, tables>>

Reuse(t) ==
    /\ Checking(t) /\ available > 0
    /\ available' = available - 1
    /\ active' = active + 1
    /\ leases' = leases \cup {Lease(t)}
    /\ call' = [call EXCEPT ![t].at = "hold"]
    /\ UNCHANGED <<created, tables>>

Create(t) ==
    /\ Checking(t) /\ available = 0 /\ active < MaxConnections
    /\ created' = created + 1
    /\ active' = active + 1
    /\ leases' = leases \cup {Lease(t)}
    /\ call' = [call EXCEPT ![t].at = "hold"]
    /\ UNCHANGED <<available, tables>>

\* On to the next ensure call, or past the last one to the own connection's return.
Advance(c) ==
    [at |-> IF c.table < NTables THEN "acquire" ELSE "release",
     job |-> c.job, table |-> c.table + 1, late |-> FALSE, ok |-> c.ok]

\* The thread is done with a connection, or did not get one.  A query and
\* initialize_tenant return; the result of an ensure call is at most logged.
AfterCall(c, ok) ==
    IF Nested(c)
    THEN Advance(c)
    ELSE [at |-> "idle", job |-> c.job, table |-> 0, late |-> FALSE, ok |-> ok]

\* Mutant: the slot is counted before the connection is known to be open.
CreateFailsCounted(t) ==
    /\ IoErrors
    /\ Checking(t) /\ available = 0 /\ active < MaxConnections
    /\ active' = active + 1
    /\ call' = [call EXCEPT ![t] = AfterCall(@, FALSE)]
    /\ UNCHANGED <<available, created, leases, tables>>

CreateFails(t) ==
    /\ IoErrors
    /\ Checking(t) /\ available = 0 /\ active < MaxConnections
    /\ call' = [call EXCEPT ![t] = AfterCall(@, FALSE)]
    /\ UNCHANGED <<available, active, created, leases, tables>>

PoolExhausted(t) ==
    /\ Checking(t) /\ ~CanServe /\ call[t].late
    /\ call' = [call EXCEPT ![t] = AfterCall(@, FALSE)]
    /\ UNCHANGED <<available, active, created, leases, tables>>

-----------------------------------------------------------------------------
(* Use of a connection                                                     *)

RunQuery(t) ==
    /\ call[t].at = "hold" /\ call[t].job = "query"
    /\ call' = [call EXCEPT ![t].at = "release"]
    /\ UNCHANGED <<available, active, created, leases, tables>>

\* The metadata rows, then the first ensure call; an error returns at once.
WriteMetadata(t) ==
    /\ call[t].at = "hold" /\ call[t].job = "init" /\ call[t].table = 0
    /\ \/ call' = [call EXCEPT ![t] = Advance(@)]
       \/ /\ IoErrors
          /\ call' = [call EXCEPT ![t] = [at |-> "release", job |-> "init", table |-> NTables + 1,
                                          late |-> FALSE, ok |-> FALSE]]
    /\ UNCHANGED <<available, active, created, leases, tables>>

\* CREATE TABLE IF NOT EXISTS; its error is only logged.
EnsureTable(t) ==
    /\ call[t].at = "hold" /\ Nested(call[t])
    /\ \/ tables' = tables \cup {call[t].table}
       \/ IoErrors /\ UNCHANGED tables
    /\ call' = [call EXCEPT ![t].at = "release"]
    /\ UNCHANGED <<available, active, created, leases>>

-----------------------------------------------------------------------------
(* return_connection, called by the destructor of PooledConnection         *)

ReturnConnection(t) ==
    /\ call[t].at = "release"
    /\ active' = IF active > 0 THEN active - 1 ELSE 0
    /\ available' = IF available < MaxConnections THEN available + 1 ELSE available
    /\ leases' = leases \ {Lease(t)}
    /\ call' = [call EXCEPT ![t].at = "notify"]
    /\ UNCHANGED <<created, tables>>

\* Mutant: the waiters are left to their deadlines.
NotifyNobody(t) ==
    /\ call[t].at = "notify"
    /\ call' = [call EXCEPT ![t] = AfterCall(@, call[t].ok)]
    /\ UNCHANGED <<available, active, created, leases, tables>>

\* notify_one, after the mutex is released.
NotifyOne(t) ==
    /\ call[t].at = "notify"
    /\ IF Waiting = {}
       THEN call' = [call EXCEPT ![t] = AfterCall(@, call[t].ok)]
       ELSE \E u \in Waiting :
              call' = [call EXCEPT ![t] = AfterCall(@, call[t].ok), ![u].at = "woken"]
    /\ UNCHANGED <<available, active, created, leases, tables>>

-----------------------------------------------------------------------------

Acquiring(t) ==
    \/ Wait(t) \/ Reuse(t) \/ Create(t) \/ CreateFails(t) \/ PoolExhausted(t)

Using(t) == RunQuery(t) \/ WriteMetadata(t) \/ EnsureTable(t)

Returning(t) == ReturnConnection(t) \/ NotifyOne(t)

Step(t) ==
    \/ Begin(t, "query") \/ Begin(t, "init")
    \/ Acquiring(t) \/ Deadline(t) \/ Spurious(t) \/ Using(t) \/ Returning(t)

ConnNext == \E t \in Borrowers : Step(t)

ConnSpec == ConnInit /\ [][ConnNext]_conn_vars

\* Threads keep running, statements end, and deadlines pass.
ConnFairSpec ==
    /\ ConnSpec
    /\ \A t \in Borrowers : /\ WF_conn_vars(Acquiring(t) \/ Using(t) \/ Returning(t))
                            /\ WF_conn_vars(Deadline(t))

-----------------------------------------------------------------------------
(* Properties                                                              *)

\* Every connection ever opened is lent out or in the queue, there are never more
\* than max_connections_ of them, and active_connections_ is the number of
\* PooledConnection objects alive: nothing leaks when opening fails, when a wait
\* times out or when a thread holds two.
PoolAccounting ==
    /\ active = Cardinality(leases)
    /\ created = active + available
    /\ created <= MaxConnections

\* Threads that a notification has reached, or that owe one.
Alert == {t \in Borrowers : call[t].at \in {"woken", "notify"}}

\* Threads wait only on a fully built and lent-out pool, and no wake-up of
\* notify_one is lost: while a thread waits, every connection in the queue is
\* matched by a thread already woken or a notification still to be made.
NoLostWakeup ==
    Waiting # {} =>
       /\ created = MaxConnections
       /\ available <= Cardinality(Alert)

\* A thread in c has the leases in L that its place calls for.
LeasesOf(t, c, L) ==
    /\ <<t, "own">> \in L <=> Nested(c) \/ Holding(c)
    /\ <<t, "nested">> \in L <=> Nested(c) /\ Holding(c)
    /\ Nested(c) => c.at # "idle"
    /\ c.table = NTables + 1 => c.at \in {"release", "notify"}

\* The connections lent out are those of the threads that are between acquire and
\* return: its own for a whole initialize_tenant, a second one inside an ensure call.
LeasesMatch == \A t \in Borrowers : LeasesOf(t, call[t], leases)

\* acquire returns, with a connection or with an error, whatever the other threads
\* do, even when every connection is held by a thread that waits for a second one.
AcquireReturns ==
    \A t \in Borrowers :
       call[t].at \in {"wait", "woken"} ~> call[t].at \notin {"wait", "woken"}
=============================================================================
