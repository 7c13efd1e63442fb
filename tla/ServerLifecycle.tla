--------------------------- MODULE ServerLifecycle ---------------------------
(***************************************************************************)
(* Server::start, Server::stop, the destructor and the adaptive io pool of *)
(* isched_Server.cpp.  Callers are threads that use the Server object;     *)
(* workers are the threads of the pool, which run io_context handlers and, *)
(* inside them, the count-change callback of the subscription broker, that *)
(* is Impl::adapt_pool.  The WebSocket sessions (sockets) live in handlers *)
(* of the io_context and die with their connection or with the io_context. *)
(***************************************************************************)
EXTENDS Naturals, FiniteSets

CONSTANTS Callers, Workers, Sockets,
          MinThreads, MaxThreads,   \* Configuration::min_threads, max_threads
          ThreadErrors,             \* whether the system may refuse a thread
          MaxStarts,                \* bound on start() calls that get past the status test
          NoOne

\* Configuration::validate, and enough thread names for the pool.
ASSUME LifecycleAssumption ==
    /\ MinThreads \in Nat \ {0} /\ MaxThreads \in Nat /\ MinThreads <= MaxThreads
    /\ IsFiniteSet(Workers) /\ IsFiniteSet(Sockets)
    /\ Cardinality(Workers) >= MaxThreads + Cardinality(Sockets)
    /\ NoOne \notin Callers \cup Workers
    /\ Callers \cap Workers = {}
    /\ MaxStarts \in Nat /\ ThreadErrors \in BOOLEAN

VARIABLES
    status,                      \* Server::m_status
    status_mutex,                \* holder of m_status_mutex
    pc,                          \* where each caller is
    returned,                    \* what its last call returned
    starts,                      \* start() calls so far
    ioc, work_guard,             \* the io_context and its guard
    http_listener, ws_listener,
    io_threads,                  \* the vector of joinable pool threads
    io_threads_mutex,            \* its holder
    worker,                      \* what each pool thread is doing
    socket,                      \* each WebSocket session, and its subscription
    total_active_subscriptions,
    publisher, publisher_stop,   \* metrics_publisher_thread and its flag
    broker,                      \* the broker object: "alive" or "destroyed"
    aborted                      \* std::terminate was called

pool      == <<io_threads, io_threads_mutex, worker, socket, total_active_subscriptions>>
listeners == <<http_listener, ws_listener>>
lifecycle == <<status, status_mutex, pc, returned, starts>>
pub       == <<publisher, publisher_stop>>
vars      == <<lifecycle, ioc, work_guard, listeners, pool, pub, broker, aborted>>

Statuses == {"STOPPED", "STARTING", "RUNNING", "STOPPING", "ERROR"}
Labels   == {"idle", "start_http", "start_ws", "start_pool", "start_publisher",
             "stop_ioc", "stop_lock", "stop_join",
             "dtor_publisher", "dtor_ioc", "dtor_lock", "dtor_join", "dtor_members",
             "dtor_free", "gone"}

\* none: not a thread; run: in io_context::run between handlers; handler: in one,
\* executing a query for instance; callback: in adapt_pool with the new count n; lock:
\* waiting for io_threads_mutex; grow: about to add n threads; exited:
\* io_context::run has returned.
WorkerState == [at : {"none", "run", "handler", "exited"}, n : {0}]
          \cup [at : {"callback", "lock", "grow"}, n : Nat]

TypeOK ==
    /\ status \in Statuses
    /\ status_mutex \in Callers \cup {NoOne}
    /\ pc \in [Callers -> Labels]
    /\ returned \in [Callers -> {"nothing", "start true", "start false", "stop true"}]
    /\ starts \in 0..MaxStarts
    /\ ioc \in {"none", "running", "stopped"}
    /\ work_guard \in BOOLEAN
    /\ http_listener \in {"none", "open", "closed"}
    /\ ws_listener \in {"none", "open", "closed"}
    /\ io_threads \in SUBSET Workers
    /\ io_threads_mutex \in Callers \cup Workers \cup {NoOne}
    /\ worker \in [Workers -> WorkerState]
    /\ socket \in [Sockets -> {"none", "open", "subscribed"}]
    /\ total_active_subscriptions \in Nat
    /\ publisher \in {"none", "running", "exited"}
    /\ publisher_stop \in BOOLEAN
    /\ broker \in {"alive", "destroyed"}
    /\ aborted \in BOOLEAN

At(a)    == [at |-> a, n |-> 0]
Subscribed == Cardinality({s \in Sockets : socket[s] = "subscribed"})
Smaller(a, b) == IF a < b THEN a ELSE b
closed(l) == IF l = "open" THEN "closed" ELSE l

Init ==
    /\ status = "STOPPED"
    /\ status_mutex = NoOne
    /\ pc = [c \in Callers |-> "idle"]
    /\ returned = [c \in Callers |-> "nothing"]
    /\ starts = 0
    /\ ioc = "none" /\ work_guard = FALSE
    /\ http_listener = "none" /\ ws_listener = "none"
    /\ io_threads = {} /\ io_threads_mutex = NoOne
    /\ worker = [w \in Workers |-> At("none")]
    /\ socket = [s \in Sockets |-> "none"]
    /\ total_active_subscriptions = 0
    /\ publisher = "none" /\ publisher_stop = FALSE
    /\ broker = "alive"
    /\ aborted = FALSE

\* Sets of n thread names not in use.  One of them will do for n new threads: nothing
\* tells names apart.
Unused(n) == {W \in SUBSET {w \in Workers : worker[w].at = "none"} : Cardinality(W) = n}
Fresh(n)  == {CHOOSE V \in Unused(n) : TRUE} \cap Unused(n)

Spawned(W) == [w \in Workers |-> IF w \in W THEN At("run") ELSE worker[w]]

\* The destructor has begun.
Gone == \E c \in Callers : pc[c] \in {"dtor_publisher", "dtor_ioc", "dtor_lock", "dtor_join",
                                      "dtor_members", "dtor_free", "gone"}

\* std::terminate
Terminate ==
    /\ aborted' = TRUE
    /\ publisher' = "exited"
    /\ pc' = [d \in Callers |-> "gone"]
    /\ worker' = [w \in Workers |-> At("none")]

\* The caller may begin a call and gets m_status_mutex.
Usable(c) == pc[c] = "idle" /\ status_mutex = NoOne /\ ~Gone

-----------------------------------------------------------------------------
(* Server::start                                                           *)

\* The status test, initialize(), the callback registration and the new io_context.
\* Replacing an old io_context destroys the sessions left in its handlers; the first
\* of them to drop its subscriptions reports the n that remain through adapt_pool,
\* which finds an empty pool and a running io_context.
StartBegin(c) ==
    /\ Usable(c)
    /\ status = "STOPPED" /\ starts < MaxStarts
    /\ starts' = starts + 1
    /\ status' = "STARTING" /\ status_mutex' = c
    /\ pc' = [pc EXCEPT ![c] = "start_http"]
    /\ ioc' = "running" /\ work_guard' = TRUE
    /\ \E n \in 0..(IF Subscribed = 0 THEN 0 ELSE Subscribed - 1) :
         \E W \in Fresh(Smaller(n, MaxThreads)) :
            worker' = Spawned(W) /\ io_threads' = W
    /\ socket' = [s \in Sockets |-> "none"]
    /\ total_active_subscriptions' = IF Subscribed = 0 THEN total_active_subscriptions ELSE 0
    /\ UNCHANGED <<returned, io_threads_mutex, listeners, pub, broker, aborted>>

StartRefused(c) ==
    /\ Usable(c)
    /\ status # "STOPPED"
    /\ returned' = [returned EXCEPT ![c] = "start false"]
    /\ UNCHANGED <<status, status_mutex, pc, starts, ioc, work_guard, listeners, pool, pub,
                   broker, aborted>>

\* A failing start leaves the server in ERROR and returns false.
StartFails(c) ==
    /\ status' = "ERROR" /\ status_mutex' = NoOne
    /\ pc' = [pc EXCEPT ![c] = "idle"]
    /\ returned' = [returned EXCEPT ![c] = "start false"]
    /\ work_guard' = FALSE

StartHttp(c) ==
    /\ pc[c] = "start_http"
    /\ \/ /\ http_listener' = "open"
          /\ pc' = [pc EXCEPT ![c] = "start_ws"]
          /\ UNCHANGED <<status, status_mutex, returned, work_guard>>
       \/ /\ StartFails(c)
          /\ UNCHANGED http_listener
    /\ UNCHANGED <<starts, ioc, ws_listener, pool, pub, broker, aborted>>

StartWs(c) ==
    /\ pc[c] = "start_ws"
    /\ \/ /\ ws_listener' = "open"
          /\ pc' = [pc EXCEPT ![c] = "start_pool"]
          /\ UNCHANGED <<status, status_mutex, returned, work_guard, http_listener, ioc>>
       \/ /\ StartFails(c)
          /\ http_listener' = closed(http_listener)
          /\ ioc' = "stopped"
          /\ UNCHANGED ws_listener
    /\ UNCHANGED <<starts, pool, pub, broker, aborted>>

StartPool(c) ==
    /\ pc[c] = "start_pool" /\ io_threads_mutex = NoOne
    /\ \E W \in Fresh(MinThreads) :
         /\ worker' = Spawned(W)
         /\ io_threads' = io_threads \cup W
    /\ pc' = [pc EXCEPT ![c] = "start_publisher"]
    /\ UNCHANGED <<status, status_mutex, returned, starts, ioc, work_guard, listeners,
                   io_threads_mutex, socket, total_active_subscriptions, pub, broker, aborted>>

\* Assigning a new thread to a std::thread that is still joinable terminates the process.
StartPublisher(c) ==
    /\ pc[c] = "start_publisher"
    /\ status' = "RUNNING"
    /\ publisher_stop' = FALSE
    /\ IF publisher # "none"
       THEN Terminate
       ELSE /\ publisher' = "running"
            /\ pc' = [pc EXCEPT ![c] = "idle"]
            /\ UNCHANGED <<worker, aborted>>
    /\ status_mutex' = NoOne
    /\ returned' = [returned EXCEPT ![c] = "start true"]
    /\ UNCHANGED <<starts, ioc, work_guard, listeners, io_threads, io_threads_mutex, socket,
                   total_active_subscriptions, broker>>

\* A refused thread ends in the outer catch, which leaves everything as it is.
StartThrows(c) ==
    /\ ThreadErrors
    /\ \/ /\ pc[c] = "start_pool" /\ io_threads_mutex = NoOne
          /\ \E n \in 0..(MinThreads - 1) : \E W \in Fresh(n) :
                worker' = Spawned(W) /\ io_threads' = io_threads \cup W
          /\ UNCHANGED publisher_stop
       \/ /\ pc[c] = "start_publisher"
          /\ publisher_stop' = FALSE
          /\ UNCHANGED <<worker, io_threads>>
    /\ status' = "ERROR" /\ status_mutex' = NoOne
    /\ pc' = [pc EXCEPT ![c] = "idle"]
    /\ returned' = [returned EXCEPT ![c] = "start false"]
    /\ UNCHANGED <<starts, ioc, work_guard, listeners, io_threads_mutex, socket,
                   total_active_subscriptions, publisher, broker, aborted>>

-----------------------------------------------------------------------------
(* Server::stop, called on its own or by the destructor                    *)

StopNotRunning(c) ==
    /\ Usable(c)
    /\ status # "RUNNING"
    /\ returned' = [returned EXCEPT ![c] = "stop true"]
    /\ UNCHANGED <<status, status_mutex, pc, starts, ioc, work_guard, listeners, pool, pub,
                   broker, aborted>>

StopBegin(c) ==
    /\ Usable(c)
    /\ status = "RUNNING"
    /\ status' = "STOPPING" /\ status_mutex' = c
    /\ http_listener' = closed(http_listener) /\ ws_listener' = closed(ws_listener)
    /\ work_guard' = FALSE
    /\ pc' = [pc EXCEPT ![c] = "stop_ioc"]
    /\ UNCHANGED <<returned, starts, ioc, pool, pub, broker, aborted>>

\* Mutant: the io_context is left running for its threads to drain it.
StopIocDrains(c) ==
    /\ pc[c] = "stop_ioc"
    /\ pc' = [pc EXCEPT ![c] = "stop_lock"]
    /\ UNCHANGED <<status, status_mutex, returned, starts, ioc, work_guard, listeners, pool, pub,
                   broker, aborted>>

StopIoc(c) ==
    /\ pc[c] = "stop_ioc"
    /\ ioc' = "stopped"
    /\ pc' = [pc EXCEPT ![c] = "stop_lock"]
    /\ UNCHANGED <<status, status_mutex, returned, starts, work_guard, listeners, pool, pub,
                   broker, aborted>>

\* The pool's mutex is taken and then held while every thread is joined.
StopLock(c) ==
    /\ pc[c] = "stop_lock" /\ io_threads_mutex = NoOne
    /\ io_threads_mutex' = c
    /\ pc' = [pc EXCEPT ![c] = "stop_join"]
    /\ UNCHANGED <<status, status_mutex, returned, starts, ioc, work_guard, listeners,
                   io_threads, worker, socket, total_active_subscriptions, pub, broker, aborted>>

AllExited == \A w \in io_threads : worker[w].at = "exited"

\* Every pool thread is joined, the vector cleared and the mutex released.
JoinPool ==
    /\ AllExited
    /\ worker' = [w \in Workers |-> IF w \in io_threads THEN At("none") ELSE worker[w]]
    /\ io_threads' = {} /\ io_threads_mutex' = NoOne
    /\ UNCHANGED <<socket, total_active_subscriptions>>

\* Mutant: the threads are let go instead of joined.
StopJoinDetached(c) ==
    /\ pc[c] = "stop_join"
    /\ io_threads' = {} /\ io_threads_mutex' = NoOne
    /\ status' = "STOPPED" /\ status_mutex' = NoOne
    /\ pc' = [pc EXCEPT ![c] = "idle"]
    /\ returned' = [returned EXCEPT ![c] = "stop true"]
    /\ UNCHANGED <<starts, ioc, work_guard, listeners, worker, socket,
                   total_active_subscriptions, pub, broker, aborted>>

StopJoin(c) ==
    /\ pc[c] = "stop_join"
    /\ JoinPool
    /\ status' = "STOPPED" /\ status_mutex' = NoOne
    /\ pc' = [pc EXCEPT ![c] = "idle"]
    /\ returned' = [returned EXCEPT ![c] = "stop true"]
    /\ UNCHANGED <<starts, ioc, work_guard, listeners, pub, broker, aborted>>

-----------------------------------------------------------------------------
(* The destructor, once no call is in progress.  It has stopped a running  *)
(* server first (StopBegin).                                               *)

DtorStep(c, from, to) ==
    /\ pc[c] = from
    /\ pc' = [pc EXCEPT ![c] = to]
    /\ UNCHANGED <<status, status_mutex, returned, starts, aborted>>

DtorBegin(c) ==
    /\ \A d \in Callers : pc[d] = "idle"
    /\ status # "RUNNING"
    /\ DtorStep(c, "idle", "dtor_publisher")
    /\ publisher_stop' = TRUE
    /\ UNCHANGED <<ioc, work_guard, listeners, pool, publisher, broker>>

DtorPublisher(c) ==
    /\ DtorStep(c, "dtor_publisher", "dtor_ioc")
    /\ publisher # "running"
    /\ publisher' = "none"
    /\ UNCHANGED <<ioc, work_guard, listeners, pool, publisher_stop, broker>>

DtorIoc(c) ==
    /\ DtorStep(c, "dtor_ioc", "dtor_lock")
    /\ http_listener' = closed(http_listener) /\ ws_listener' = closed(ws_listener)
    /\ work_guard' = FALSE
    /\ ioc' = IF ioc = "none" THEN "none" ELSE "stopped"
    /\ UNCHANGED <<pool, pub, broker>>

DtorLock(c) ==
    /\ DtorStep(c, "dtor_lock", "dtor_join")
    /\ io_threads_mutex = NoOne /\ io_threads_mutex' = c
    /\ UNCHANGED <<ioc, work_guard, listeners, io_threads, worker, socket,
                   total_active_subscriptions, pub, broker>>

DtorJoin(c) ==
    /\ DtorStep(c, "dtor_join", "dtor_members")
    /\ JoinPool
    /\ UNCHANGED <<ioc, work_guard, listeners, pub, broker>>

\* Members go in the reverse order of their declaration: the listener and the
\* broker, then the io_context with the sessions its handlers keep.
DtorMembers(c) ==
    /\ DtorStep(c, "dtor_members", "dtor_free")
    /\ broker' = "destroyed"
    /\ UNCHANGED <<ioc, work_guard, listeners, pool, pub>>

DtorFree(c) ==
    /\ DtorStep(c, "dtor_free", "gone")
    /\ ioc' = "none"
    /\ socket' = [s \in Sockets |-> "none"]
    /\ UNCHANGED <<work_guard, listeners, io_threads, io_threads_mutex, worker,
                   total_active_subscriptions, pub, broker>>

-----------------------------------------------------------------------------
(* Pool threads                                                            *)

\* What a handler does outside the pool.
InHandler == UNCHANGED <<lifecycle, ioc, work_guard, listeners, io_threads, io_threads_mutex,
                         total_active_subscriptions, pub, broker, aborted>>

\* A worker between handlers takes another while the io_context runs.
HandlerBegin(w) ==
    /\ worker[w].at = "run" /\ ioc = "running"
    /\ worker' = [worker EXCEPT ![w] = At("handler")]
    /\ UNCHANGED socket
    /\ InHandler

\* What follows is done in a handler that has begun, before or after stop().

Accept(w, s) ==
    /\ worker[w].at = "handler" /\ ws_listener # "none"
    /\ socket[s] = "none"
    /\ socket' = [socket EXCEPT ![s] = "open"]
    /\ UNCHANGED worker
    /\ InHandler

\* A subscription comes or goes: the handler calls back with the new count.
CountChanged(w) ==
    worker' = [worker EXCEPT ![w] = [at |-> "callback", n |-> Subscribed']]

Subscribe(w, s) ==
    /\ worker[w].at = "handler"
    /\ socket[s] = "open"
    /\ socket' = [socket EXCEPT ![s] = "subscribed"]
    /\ CountChanged(w)
    /\ InHandler

\* complete, or a revocation by a resolver.
Complete(w, s) ==
    /\ worker[w].at = "handler"
    /\ socket[s] = "subscribed"
    /\ socket' = [socket EXCEPT ![s] = "open"]
    /\ CountChanged(w)
    /\ InHandler

\* The connection is lost: the session's destructor drops its subscription.
Disconnect(w, s) ==
    /\ worker[w].at = "handler"
    /\ socket[s] # "none"
    /\ socket' = [socket EXCEPT ![s] = "none"]
    /\ IF socket[s] = "subscribed" THEN CountChanged(w) ELSE UNCHANGED worker
    /\ InHandler

HandlerEnd(w) ==
    /\ worker[w].at = "handler"
    /\ worker' = [worker EXCEPT ![w] = At("run")]
    /\ UNCHANGED socket
    /\ InHandler

\* adapt_pool: the count is stored before the mutex is asked for.
AdaptStore(w) ==
    /\ worker[w].at = "callback"
    /\ total_active_subscriptions' = worker[w].n
    /\ worker' = [worker EXCEPT ![w].at = "lock"]
    /\ UNCHANGED <<lifecycle, ioc, work_guard, listeners, io_threads, io_threads_mutex,
                   socket, pub, broker, aborted>>

\* Mutant: the pool grows by the excess without regard to max_threads.
GrowthUnbounded(n) ==
    LET size == Cardinality(io_threads)
        threshold == (3 * size) \div 4
    IN  IF n > threshold /\ ioc # "stopped" THEN n - threshold ELSE 0

\* Threads to add for n subscriptions: none below three quarters of the pool, none
\* once the io_context is stopped, never past max_threads.
Growth(n) ==
    LET size == Cardinality(io_threads)
        threshold == (3 * size) \div 4
        desired == Smaller(size + (n - threshold), MaxThreads)
    IN  IF n > threshold /\ desired > size /\ ioc # "stopped" THEN desired - size ELSE 0

AdaptLock(w) ==
    /\ worker[w].at = "lock" /\ io_threads_mutex = NoOne
    /\ io_threads_mutex' = w
    /\ worker' = [worker EXCEPT ![w] = [at |-> "grow", n |-> Growth(worker[w].n)]]
    /\ UNCHANGED <<lifecycle, ioc, work_guard, listeners, io_threads, socket,
                   total_active_subscriptions, pub, broker, aborted>>

AdaptGrow(w) ==
    /\ worker[w].at = "grow"
    /\ \E W \in Fresh(worker[w].n) :
         /\ worker' = [Spawned(W) EXCEPT ![w] = At("handler")]
         /\ io_threads' = io_threads \cup W
    /\ io_threads_mutex' = NoOne
    /\ UNCHANGED <<lifecycle, ioc, work_guard, listeners, socket,
                   total_active_subscriptions, pub, broker, aborted>>

\* The exception of a refused thread leaves the callback, the handler and
\* io_context::run, and ends the process.
AdaptThrows(w) ==
    /\ ThreadErrors
    /\ worker[w].at = "grow" /\ worker[w].n > 0
    /\ Terminate
    /\ UNCHANGED <<status, status_mutex, returned, starts, ioc, work_guard, listeners,
                   io_threads, io_threads_mutex, socket, total_active_subscriptions,
                   publisher_stop, broker>>

\* io_context::run returns once the io_context is stopped and the handler is over.
WorkerExit(w) ==
    /\ worker[w].at = "run" /\ ioc = "stopped"
    /\ worker' = [worker EXCEPT ![w] = At("exited")]
    /\ UNCHANGED socket
    /\ InHandler

PublisherExit ==
    /\ publisher = "running" /\ publisher_stop
    /\ publisher' = "exited"
    /\ UNCHANGED <<lifecycle, ioc, work_guard, listeners, pool, publisher_stop, broker, aborted>>

-----------------------------------------------------------------------------

CallerProgress(c) ==
    \/ StartHttp(c) \/ StartWs(c) \/ StartPool(c) \/ StartPublisher(c) \/ StartThrows(c)
    \/ StopIoc(c) \/ StopLock(c) \/ StopJoin(c)
    \/ DtorPublisher(c) \/ DtorIoc(c) \/ DtorLock(c) \/ DtorJoin(c)
    \/ DtorMembers(c) \/ DtorFree(c)

CallerStep(c) ==
    \/ StartBegin(c) \/ StartRefused(c) \/ StopNotRunning(c) \/ StopBegin(c)
    \/ DtorBegin(c)
    \/ CallerProgress(c)

WorkerProgress(w) ==
    \/ AdaptStore(w) \/ AdaptLock(w) \/ AdaptGrow(w) \/ AdaptThrows(w)
    \/ HandlerEnd(w) \/ WorkerExit(w)

WorkerStep(w) ==
    \/ HandlerBegin(w)
    \/ \E s \in Sockets : Accept(w, s) \/ Subscribe(w, s) \/ Complete(w, s) \/ Disconnect(w, s)
    \/ WorkerProgress(w)

Next ==
    \/ \E c \in Callers : CallerStep(c)
    \/ \E w \in Workers : WorkerStep(w)
    \/ PublisherExit

Spec == Init /\ [][Next]_vars

\* Threads inside a call, a handler or the publisher loop keep being scheduled.
FairSpec ==
    /\ Spec
    /\ \A c \in Callers : WF_vars(CallerProgress(c))
    /\ \A w \in Workers : WF_vars(WorkerProgress(w))
    /\ WF_vars(PublisherExit)

-----------------------------------------------------------------------------
(* Properties                                                              *)

\* Nothing runs behind the back of a server that reports STOPPED, or ERROR after a
\* port could not be opened (which gives the work guard back): no listener accepts, no
\* pool thread is alive and none was left unjoined, whichever listener start failed on
\* and whatever adapt_pool was doing when stop arrived.
QuietWhenStopped ==
    status = "STOPPED" \/ (status = "ERROR" /\ ~work_guard /\ ~Gone) =>
       /\ http_listener # "open" /\ ws_listener # "open" /\ ~work_guard
       /\ io_threads = {}
       /\ \A w \in Workers : worker[w].at = "none"

\* The pool never outgrows Configuration::max_threads, however the callbacks of
\* concurrent subscribes interleave.
PoolBounded == Cardinality(io_threads) <= MaxThreads

\* A thread that caller c is to join waits for the mutex that c holds.
JoinBlocked(c) == io_threads_mutex = c /\ (\E w \in io_threads : worker[w].at = "lock")

\* The count callback is all that a stop which joins the pool can wait for in vain: it
\* reaches STOPPED unless a thread of the pool, in a handler that was running when the
\* io_context was stopped, comes to wait for the mutex that stop holds.
JoinEndsUnlessAdapting ==
    \A c \in Callers : pc[c] = "stop_join" ~> status = "STOPPED" \/ JoinBlocked(c)

\* isched_Server.hpp:208, "@post Server status becomes STOPPED": a stop under way
\* reaches STOPPED.  stop() joins the pool while holding io_threads_mutex, which a
\* pool thread in adapt_pool is waiting for.
StopCompletes == status = "STOPPING" ~> status = "STOPPED"

\* The threads of the pool, in every state: the types, and the bound that concurrent calls
\* of adapt_pool keep.
PoolInv == TypeOK /\ PoolBounded
=============================================================================
