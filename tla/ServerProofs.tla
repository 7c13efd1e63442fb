---------------------------- MODULE ServerProofs ----------------------------
(***************************************************************************)
(* What the threads of the server share: the life cycle with its io pool,  *)
(* the connections to a tenant's database, and the counters of requests.   *)
(*                                                                         *)
(* Life cycle.  PoolBounded needs the room that adapt_pool computed to be  *)
(* there still when it adds threads, hence that a thread about to do so    *)
(* holds io_threads_mutex (Pooled).  QuietWhenStopped needs every thread   *)
(* that runs to be in the vector that stop joins (Pooled), and how far     *)
(* start has come when a port cannot be opened (Built); both need one call *)
(* at a time (Excludes).  It is the first life of the object: the next     *)
(* start destroys what sessions were left and so calls adapt_pool, which   *)
(* adds threads to a pool that start has not filled yet.                   *)
(*                                                                         *)
(* Connections.  PoolAccounting is not inductive: a lease that is added    *)
(* must be new and one that is removed must be there, which LeasesMatch    *)
(* says; NoLostWakeup needs the accounting in turn, because a thread only  *)
(* waits when every connection is lent out.                                *)
(*                                                                         *)
(* Counters.  A counter counts the requests whose thread is past its       *)
(* fetch_add (Counted), which takes requests with numbers of their own     *)
(* (Numbered) and threads that know their request (Known).  A counter that *)
(* is ahead of its interval has a thread about to zero it (Zeroed).  A     *)
(* report in the making is covered by the totals that it has still to load *)
(* (Summed): that is why the order of its loads matters.                   *)
(***************************************************************************)
EXTENDS ServerLifecycle, ConnectionPool, MetricsCollector, FiniteSetTheorems, TLAPS

-----------------------------------------------------------------------------
(* The life cycle: its invariant                                           *)

\* A caller inside start, inside stop, and from the destructor on.
InStart == {"start_http", "start_ws", "start_pool", "start_publisher"}
InStop == {"stop_ioc", "stop_lock", "stop_join"}
InDtor == {"dtor_publisher", "dtor_ioc", "dtor_lock", "dtor_join", "dtor_members", "dtor_free", "gone"}

\* What the two mutexes and the status say of a caller: one call at a time, none beside
\* the destructor.
Excludes(c) ==
    /\ pc[c] \in InStart \cup InStop => status_mutex = c
    /\ pc[c] \in InStart => status = "STARTING"
    /\ pc[c] \in InStop => status = "STOPPING"
    /\ pc[c] \in InDtor => \A d \in Callers : pc[d] \notin InStart \cup InStop
    /\ pc[c] \in {"stop_join", "dtor_join"} => io_threads_mutex = c

\* What start has built so far and stop has taken down.
Built(c) ==
    /\ pc[c] \in InStart => work_guard
    /\ pc[c] = "start_http" => http_listener # "open"
    /\ pc[c] \in {"start_http", "start_ws"} => ws_listener # "open"
    /\ pc[c] \in {"start_http", "start_ws", "start_pool"} => io_threads = {}
    /\ pc[c] \in InStop => http_listener # "open" /\ ws_listener # "open" /\ ~work_guard

\* A thread that runs is in the vector; one about to add threads holds the mutex, and
\* there is room for what it adds.
Pooled(w) ==
    /\ worker[w].at # "none" => w \in io_threads
    /\ worker[w].at = "grow" =>
         /\ io_threads_mutex = w
         /\ Cardinality(io_threads) + worker[w].n <= MaxThreads

\* Before the first start there is nothing.
Unstarted ==
    starts = 0 => /\ status = "STOPPED"
                  /\ \A s \in Sockets : socket[s] = "none"
                  /\ \A c \in Callers : pc[c] \notin InStart \cup InStop

\* All of it, in the first life.
FirstLife ==
    /\ \A c \in Callers : Excludes(c) /\ Built(c)
    /\ \A w \in Workers : Pooled(w)
    /\ Unstarted /\ PoolBounded /\ QuietWhenStopped

\* The inductive invariant of the life cycle.
LInv == TypeOK /\ (starts <= 1 => FirstLife)

-----------------------------------------------------------------------------
(* Counting threads                                                        *)

\* Sets of threads, and of sessions, can be counted.
LEMMA ThreadSets ==
    /\ \A A \in SUBSET Workers : IsFiniteSet(A) /\ Cardinality(A) \in Nat
    /\ Subscribed \in Nat
    /\ Subscribed' \in Nat
<1>1. \A A \in SUBSET Workers : IsFiniteSet(A) /\ Cardinality(A) \in Nat
  BY LifecycleAssumption, FS_Subset, FS_CardinalityType
<1>2. \A A \in SUBSET Sockets : Cardinality(A) \in Nat
  BY LifecycleAssumption, FS_Subset, FS_CardinalityType
<1> QED
  BY <1>1, <1>2 DEF Subscribed

\* New threads are threads of the pool and run.
LEMMA SpawnTypes ==
    ASSUME TypeOK, NEW n, NEW W \in Fresh(n)
    PROVE  /\ W \subseteq Workers /\ Cardinality(W) = n
           /\ Spawned(W) \in [Workers -> WorkerState]
           /\ \A w \in W : worker[w].at = "none" /\ Spawned(W)[w] = At("run")
           /\ \A w \in Workers \ W : Spawned(W)[w] = worker[w]
<1>1. W \subseteq Workers /\ Cardinality(W) = n /\ \A w \in W : worker[w].at = "none"
  BY DEF Fresh, Unused
<1>2. At("run") \in WorkerState
  BY DEF At, WorkerState
<1> QED
  BY <1>1, <1>2 DEF TypeOK, Spawned

\* New threads add no more than their number.
LEMMA SpawnCounts ==
    ASSUME NEW A \in SUBSET Workers, NEW W \in SUBSET Workers
    PROVE  Cardinality(A \cup W) <= Cardinality(A) + Cardinality(W)
<1>1. IsFiniteSet(A) /\ IsFiniteSet(W)
  BY ThreadSets
<1>2. IsFiniteSet(A \cap W)
  BY <1>1, FS_Intersection
<1>3. Cardinality(A) \in Nat /\ Cardinality(W) \in Nat /\ Cardinality(A \cap W) \in Nat
  BY <1>1, <1>2, FS_CardinalityType
<1>4. Cardinality(A \cup W) = Cardinality(A) + Cardinality(W) - Cardinality(A \cap W)
  BY <1>1, FS_Union
<1> QED
  BY <1>3, <1>4

\* adapt_pool never asks for more than there is room for.
LEMMA GrowthBound ==
    ASSUME TypeOK, NEW n \in Nat
    PROVE  /\ Growth(n) \in Nat
           /\ PoolBounded => Cardinality(io_threads) + Growth(n) <= MaxThreads
<1>1. PICK size \in Nat : size = Cardinality(io_threads)
  BY ThreadSets DEF TypeOK
<1>2. PICK threshold \in Nat : threshold = (3 * size) \div 4
  OBVIOUS
<1>3. PICK desired \in Int : desired = Smaller(size + (n - threshold), MaxThreads) /\ desired <= MaxThreads
  BY LifecycleAssumption DEF Smaller
<1>4. Growth(n) = IF n > threshold /\ desired > size /\ ioc # "stopped" THEN desired - size ELSE 0
  BY <1>1, <1>2, <1>3 DEF Growth
<1>5. MaxThreads \in Nat
  BY LifecycleAssumption
<1> QED
  BY <1>1, <1>3, <1>4, <1>5 DEF PoolBounded

-----------------------------------------------------------------------------
(* Types                                                                   *)

\* The types of the callers, of the server's parts, of the pool and of the flags.
CallerTypes ==
    /\ status \in Statuses
    /\ status_mutex \in Callers \cup {NoOne}
    /\ pc \in [Callers -> Labels]
    /\ returned \in [Callers -> {"nothing", "start true", "start false", "stop true"}]
    /\ starts \in 0..MaxStarts

PartTypes ==
    /\ ioc \in {"none", "running", "stopped"}
    /\ http_listener \in {"none", "open", "closed"}
    /\ ws_listener \in {"none", "open", "closed"}
    /\ publisher \in {"none", "running", "exited"}
    /\ broker \in {"alive", "destroyed"}

PoolTypes ==
    /\ io_threads \in SUBSET Workers
    /\ io_threads_mutex \in Callers \cup Workers \cup {NoOne}
    /\ worker \in [Workers -> WorkerState]
    /\ socket \in [Sockets -> {"none", "open", "subscribed"}]
    /\ total_active_subscriptions \in Nat

FlagTypes == work_guard \in BOOLEAN /\ publisher_stop \in BOOLEAN /\ aborted \in BOOLEAN

\* They are the type invariant.
LEMMA Types == TypeOK <=> CallerTypes /\ PartTypes /\ PoolTypes /\ FlagTypes
  BY Zenon DEF TypeOK, CallerTypes, PartTypes, PoolTypes, FlagTypes

\* Every kind of step.
LEMMA LifecycleSteps ==
    ASSUME [Next]_vars
    PROVE  \/ UNCHANGED vars \/ PublisherExit
           \/ \E c \in Callers : \/ StartBegin(c) \/ StartRefused(c) \/ StartHttp(c) \/ StartWs(c)
                                 \/ StartPool(c) \/ StartPublisher(c) \/ StartThrows(c)
           \/ \E c \in Callers : StopNotRunning(c) \/ StopBegin(c) \/ StopIoc(c) \/ StopLock(c) \/ StopJoin(c)
           \/ \E c \in Callers : \/ DtorBegin(c) \/ DtorPublisher(c) \/ DtorIoc(c) \/ DtorLock(c)
                                 \/ DtorJoin(c) \/ DtorMembers(c) \/ DtorFree(c)
           \/ \E w \in Workers, s \in Sockets :
                 Accept(w, s) \/ Subscribe(w, s) \/ Complete(w, s) \/ Disconnect(w, s)
           \/ \E w \in Workers : \/ AdaptStore(w) \/ AdaptLock(w) \/ AdaptGrow(w) \/ AdaptThrows(w)
                                 \/ HandlerBegin(w) \/ HandlerEnd(w) \/ WorkerExit(w)
  BY Zenon DEF Next, CallerStep, CallerProgress, WorkerStep, WorkerProgress

\* The callers keep their types.
LEMMA CallerTypesKept == ASSUME CallerTypes, [Next]_vars  PROVE CallerTypes'
<1> USE DEF CallerTypes, Statuses, Labels
<1>1. ASSUME NEW c \in Callers, StartBegin(c)  PROVE CallerTypes'
  <2>1. /\ starts < MaxStarts /\ starts' = starts + 1
        /\ status' = "STARTING" /\ status_mutex' = c
        /\ pc' = [pc EXCEPT ![c] = "start_http"] /\ returned' = returned
    BY <1>1 DEF StartBegin
  <2>2. MaxStarts \in Nat
    BY LifecycleAssumption
  <2>3. starts' \in 0..MaxStarts
    <3>1. starts \in 0..MaxStarts /\ starts < MaxStarts /\ starts' = starts + 1
      BY <2>1
    <3> HIDE DEF CallerTypes, Statuses, Labels
    <3> QED
      BY <2>2, <3>1
  <2> QED
    BY <2>1, <2>3
<1>2. ASSUME NEW c \in Callers, StartRefused(c) \/ StartHttp(c) \/ StartWs(c) \/ StartPool(c)  PROVE CallerTypes'
  BY <1>2 DEF StartRefused, StartHttp, StartWs, StartPool, StartFails
<1>3. ASSUME NEW c \in Callers, StartPublisher(c) \/ StartThrows(c)  PROVE CallerTypes'
  BY <1>3 DEF StartPublisher, StartThrows, Terminate
<1>4. ASSUME NEW c \in Callers,
             StopNotRunning(c) \/ StopBegin(c) \/ StopIoc(c) \/ StopLock(c) \/ StopJoin(c)
      PROVE  CallerTypes'
  BY <1>4 DEF StopNotRunning, StopBegin, StopIoc, StopLock, StopJoin
<1>5. ASSUME NEW c \in Callers,
             \/ DtorBegin(c) \/ DtorPublisher(c) \/ DtorIoc(c) \/ DtorLock(c) \/ DtorJoin(c)
             \/ DtorMembers(c) \/ DtorFree(c)
      PROVE  CallerTypes'
  BY <1>5 DEF DtorBegin, DtorPublisher, DtorIoc, DtorLock, DtorJoin, DtorMembers, DtorFree, DtorStep
<1>6. ASSUME NEW w \in Workers, AdaptThrows(w)  PROVE CallerTypes'
  BY <1>6 DEF AdaptThrows, Terminate
<1>7. ASSUME UNCHANGED lifecycle  PROVE CallerTypes'
  BY <1>7 DEF lifecycle
<1>8. ASSUME NEW w \in Workers, NEW s \in Sockets,
             Accept(w, s) \/ Subscribe(w, s) \/ Complete(w, s) \/ Disconnect(w, s)
      PROVE  UNCHANGED lifecycle
  BY <1>8 DEF Accept, Subscribe, Complete, Disconnect, InHandler
<1>9. ASSUME NEW w \in Workers,
             \/ AdaptStore(w) \/ AdaptLock(w) \/ AdaptGrow(w)
             \/ HandlerBegin(w) \/ HandlerEnd(w) \/ WorkerExit(w)
      PROVE  UNCHANGED lifecycle
  BY <1>9 DEF AdaptStore, AdaptLock, AdaptGrow, HandlerBegin, HandlerEnd, WorkerExit, InHandler
<1>10. UNCHANGED vars \/ PublisherExit => UNCHANGED lifecycle
  BY DEF vars, PublisherExit
<1> QED
  BY <1>1, <1>2, <1>3, <1>4, <1>5, <1>6, <1>7, <1>8, <1>9, <1>10, LifecycleSteps

\* So do the parts of the server.
LEMMA PartTypesKept == ASSUME PartTypes, [Next]_vars  PROVE PartTypes'
<1> USE DEF PartTypes, pub, listeners
<1>0. closed(http_listener) \in {"none", "closed"} /\ closed(ws_listener) \in {"none", "closed"}
  BY DEF closed
<1>1. ASSUME NEW c \in Callers, StartBegin(c) \/ StartRefused(c) \/ StartHttp(c) \/ StartPool(c)  PROVE PartTypes'
  BY <1>1 DEF StartBegin, StartRefused, StartHttp, StartPool
<1>2. ASSUME NEW c \in Callers, StartWs(c)  PROVE PartTypes'
  BY <1>0, <1>2 DEF StartWs
<1>3. ASSUME NEW c \in Callers, StartPublisher(c) \/ StartThrows(c)  PROVE PartTypes'
  BY <1>3 DEF StartPublisher, StartThrows, Terminate
<1>4. ASSUME NEW c \in Callers,
             StopNotRunning(c) \/ StopBegin(c) \/ StopIoc(c) \/ StopLock(c) \/ StopJoin(c)
      PROVE  PartTypes'
  BY <1>0, <1>4 DEF StopNotRunning, StopBegin, StopIoc, StopLock, StopJoin
<1>5. ASSUME NEW c \in Callers, DtorBegin(c) \/ DtorPublisher(c) \/ DtorIoc(c) \/ DtorLock(c)  PROVE PartTypes'
  BY <1>0, <1>5 DEF DtorBegin, DtorPublisher, DtorIoc, DtorLock
<1>6. ASSUME NEW c \in Callers, DtorJoin(c) \/ DtorMembers(c) \/ DtorFree(c)  PROVE PartTypes'
  BY <1>6 DEF DtorJoin, DtorMembers, DtorFree
<1>7. ASSUME NEW w \in Workers, AdaptThrows(w)  PROVE PartTypes'
  BY <1>7 DEF AdaptThrows, Terminate
<1>8. ASSUME NEW w \in Workers, NEW s \in Sockets,
             Accept(w, s) \/ Subscribe(w, s) \/ Complete(w, s) \/ Disconnect(w, s)
      PROVE  PartTypes'
  BY <1>8 DEF Accept, Subscribe, Complete, Disconnect, InHandler
<1>9. ASSUME NEW w \in Workers,
             \/ AdaptStore(w) \/ AdaptLock(w) \/ AdaptGrow(w)
             \/ HandlerBegin(w) \/ HandlerEnd(w) \/ WorkerExit(w)
      PROVE  PartTypes'
  BY <1>9 DEF AdaptStore, AdaptLock, AdaptGrow, HandlerBegin, HandlerEnd, WorkerExit, InHandler
<1>10. UNCHANGED vars \/ PublisherExit => PartTypes'
  BY DEF vars, PublisherExit
<1> QED
  BY <1>1, <1>2, <1>3, <1>4, <1>5, <1>6, <1>7, <1>8, <1>9, <1>10, LifecycleSteps

\* So do the flags.
LEMMA FlagTypesKept == ASSUME FlagTypes, [Next]_vars  PROVE FlagTypes'
<1> USE DEF FlagTypes, pub
<1>1. ASSUME NEW c \in Callers, StartBegin(c) \/ StartRefused(c) \/ StartHttp(c) \/ StartWs(c) \/ StartPool(c)  PROVE FlagTypes'
  BY <1>1, Zenon DEF StartBegin, StartRefused, StartHttp, StartWs, StartPool, StartFails
<1>2. ASSUME NEW c \in Callers, StartPublisher(c)  PROVE FlagTypes'
  BY <1>2, Zenon DEF StartPublisher, Terminate
<1>3. ASSUME NEW c \in Callers, StartThrows(c)  PROVE FlagTypes'
  BY <1>3, Zenon DEF StartThrows
<1>4. ASSUME NEW c \in Callers,
             StopNotRunning(c) \/ StopBegin(c) \/ StopIoc(c) \/ StopLock(c) \/ StopJoin(c)
      PROVE  FlagTypes'
  BY <1>4, Zenon DEF StopNotRunning, StopBegin, StopIoc, StopLock, StopJoin
<1>5. ASSUME NEW c \in Callers, DtorBegin(c) \/ DtorPublisher(c) \/ DtorIoc(c) \/ DtorLock(c)  PROVE FlagTypes'
  BY <1>5, Zenon DEF DtorBegin, DtorPublisher, DtorIoc, DtorLock, DtorStep
<1>6. ASSUME NEW c \in Callers, DtorJoin(c) \/ DtorMembers(c) \/ DtorFree(c)  PROVE FlagTypes'
  BY <1>6, Zenon DEF DtorJoin, DtorMembers, DtorFree, DtorStep
<1>7. ASSUME NEW w \in Workers, AdaptThrows(w)  PROVE FlagTypes'
  BY <1>7, Zenon DEF AdaptThrows, Terminate
<1>8. ASSUME NEW w \in Workers, NEW s \in Sockets,
             Accept(w, s) \/ Subscribe(w, s) \/ Complete(w, s) \/ Disconnect(w, s)
      PROVE  FlagTypes'
  BY <1>8, Zenon DEF Accept, Subscribe, Complete, Disconnect, InHandler
<1>9. ASSUME NEW w \in Workers,
             \/ AdaptStore(w) \/ AdaptLock(w) \/ AdaptGrow(w)
             \/ HandlerBegin(w) \/ HandlerEnd(w) \/ WorkerExit(w)
      PROVE  FlagTypes'
  BY <1>9, Zenon DEF AdaptStore, AdaptLock, AdaptGrow, HandlerBegin, HandlerEnd, WorkerExit, InHandler
<1>10. UNCHANGED vars \/ PublisherExit => FlagTypes'
  BY Zenon DEF vars, PublisherExit
<1> QED
  BY <1>1, <1>2, <1>3, <1>4, <1>5, <1>6, <1>7, <1>8, <1>9, <1>10, LifecycleSteps

\* The states a thread is put in.
LEMMA WorkerStates ==
    /\ \A a \in {"none", "run", "handler", "exited"} : At(a) \in WorkerState
    /\ \A a \in {"callback", "lock", "grow"}, n \in Nat : [at |-> a, n |-> n] \in WorkerState
  BY DEF At, WorkerState

\* After std::terminate nobody runs.
LEMMA TerminateEnds ==
    ASSUME Terminate
    PROVE  /\ worker' \in [Workers -> WorkerState]
           /\ \A c \in Callers : pc'[c] = "gone"
           /\ \A w \in Workers : worker'[w].at = "none"
<1>1. pc' = [d \in Callers |-> "gone"] /\ worker' = [w \in Workers |-> At("none")]
  BY DEF Terminate
<1> QED
  BY <1>1, WorkerStates DEF At

\* So do the pool's threads and the sessions.
LEMMA PoolTypesKept == ASSUME TypeOK, [Next]_vars  PROVE PoolTypes'
<1> USE DEF PoolTypes, pool
<1>0. PoolTypes
  BY Types
<1>1. ASSUME NEW n, NEW W \in Fresh(n), worker' = Spawned(W), io_threads' \in {W, io_threads \cup W}
      PROVE  io_threads' \in SUBSET Workers /\ worker' \in [Workers -> WorkerState]
  BY <1>0, <1>1, SpawnTypes
<1>2. ASSUME NEW c \in Callers, StartBegin(c)  PROVE PoolTypes'
  <2>1. PICK n : \E W \in Fresh(Smaller(n, MaxThreads)) : worker' = Spawned(W) /\ io_threads' = W
    BY <1>2 DEF StartBegin
  <2>2. PICK W \in Fresh(Smaller(n, MaxThreads)) : worker' = Spawned(W) /\ io_threads' = W
    BY <2>1
  <2>3. io_threads' \in SUBSET Workers /\ worker' \in [Workers -> WorkerState]
    BY <1>1, <2>2
  <2>4. /\ socket' = [s \in Sockets |-> "none"] /\ io_threads_mutex' = io_threads_mutex
        /\ total_active_subscriptions' \in {total_active_subscriptions, 0}
    BY <1>2 DEF StartBegin
  <2> QED
    BY <1>0, <2>3, <2>4
<1>3. ASSUME NEW c \in Callers, StartRefused(c) \/ StartHttp(c) \/ StartWs(c)  PROVE PoolTypes'
  BY <1>0, <1>3 DEF StartRefused, StartHttp, StartWs
<1>4. ASSUME NEW c \in Callers, StartPool(c)  PROVE PoolTypes'
  <2>1. PICK W \in Fresh(MinThreads) : worker' = Spawned(W) /\ io_threads' = io_threads \cup W
    BY <1>4 DEF StartPool
  <2>2. io_threads' \in SUBSET Workers /\ worker' \in [Workers -> WorkerState]
    BY <1>1, <2>1
  <2> QED
    BY <1>0, <1>4, <2>2 DEF StartPool
<1>5. ASSUME NEW c \in Callers, StartPublisher(c)  PROVE PoolTypes'
  <2>1. worker' \in [Workers -> WorkerState]
    BY <1>0, <1>5, TerminateEnds DEF StartPublisher
  <2> QED
    BY <1>0, <1>5, <2>1 DEF StartPublisher
<1>6. ASSUME NEW c \in Callers, StartThrows(c)  PROVE PoolTypes'
  <2>1. io_threads' \in SUBSET Workers /\ worker' \in [Workers -> WorkerState]
    <3>1. CASE UNCHANGED <<worker, io_threads>>
      BY <1>0, <3>1
    <3>2. CASE \E n \in 0..(MinThreads - 1) : \E W \in Fresh(n) :
                  worker' = Spawned(W) /\ io_threads' = io_threads \cup W
      BY <1>1, <3>2
    <3> QED
      BY <1>6, <3>1, <3>2 DEF StartThrows
  <2> QED
    BY <1>0, <1>6, <2>1 DEF StartThrows
<1>7. JoinPool => PoolTypes'
  <2>1. At("none") \in WorkerState
    BY WorkerStates
  <2> QED
    BY <1>0, <2>1 DEF JoinPool
<1>8. ASSUME NEW c \in Callers,
             StopNotRunning(c) \/ StopBegin(c) \/ StopIoc(c) \/ StopLock(c) \/ StopJoin(c)
      PROVE  PoolTypes'
  BY <1>0, <1>7, <1>8 DEF StopNotRunning, StopBegin, StopIoc, StopLock, StopJoin
<1>9. ASSUME NEW c \in Callers,
             \/ DtorBegin(c) \/ DtorPublisher(c) \/ DtorIoc(c) \/ DtorLock(c) \/ DtorJoin(c)
             \/ DtorMembers(c) \/ DtorFree(c)
      PROVE  PoolTypes'
  BY <1>0, <1>7, <1>9 DEF DtorBegin, DtorPublisher, DtorIoc, DtorLock, DtorJoin, DtorMembers, DtorFree
<1>10. ASSUME NEW w \in Workers, AdaptThrows(w)  PROVE PoolTypes'
  BY <1>0, <1>10, TerminateEnds DEF AdaptThrows
<1>11. ASSUME NEW w \in Workers, CountChanged(w)  PROVE worker' \in [Workers -> WorkerState]
  <2>1. [at |-> "callback", n |-> Subscribed'] \in WorkerState
    BY ThreadSets, WorkerStates
  <2> QED
    BY <1>0, <1>11, <2>1 DEF CountChanged
<1>12. ASSUME NEW w \in Workers, NEW s \in Sockets,
             Accept(w, s) \/ Subscribe(w, s) \/ Complete(w, s) \/ Disconnect(w, s)
      PROVE  PoolTypes'
  <2>1. worker' \in [Workers -> WorkerState]
    BY <1>0, <1>11, <1>12 DEF Accept, Subscribe, Complete, Disconnect
  <2>2. socket' \in [Sockets -> {"none", "open", "subscribed"}]
    BY <1>0, <1>12 DEF Accept, Subscribe, Complete, Disconnect
  <2>3. UNCHANGED <<io_threads, io_threads_mutex, total_active_subscriptions>>
    BY <1>12 DEF Accept, Subscribe, Complete, Disconnect, InHandler
  <2> QED
    BY <1>0, <2>1, <2>2, <2>3
<1>13. ASSUME NEW w \in Workers, worker[w].at \in {"callback", "lock", "grow"}
       PROVE  worker[w].n \in Nat /\ [worker[w] EXCEPT !.at = "lock"] \in WorkerState
  BY <1>0, <1>13 DEF WorkerState
<1>14. ASSUME NEW w \in Workers, AdaptStore(w)  PROVE PoolTypes'
  <2>1. worker' = [worker EXCEPT ![w] = [worker[w] EXCEPT !.at = "lock"]]
    BY <1>0, <1>14 DEF AdaptStore
  <2>2. worker' \in [Workers -> WorkerState] /\ total_active_subscriptions' \in Nat
    BY <1>0, <1>13, <1>14, <2>1 DEF AdaptStore
  <2> QED
    BY <1>0, <1>14, <2>2 DEF AdaptStore
<1>15. ASSUME NEW w \in Workers, AdaptLock(w)  PROVE PoolTypes'
  <2>1. Growth(worker[w].n) \in Nat
    BY <1>13, <1>15, GrowthBound DEF AdaptLock
  <2>2. [at |-> "grow", n |-> Growth(worker[w].n)] \in WorkerState
    BY <2>1, WorkerStates
  <2>3. worker' \in [Workers -> WorkerState]
    BY <1>0, <1>15, <2>2 DEF AdaptLock
  <2> QED
    BY <1>0, <1>15, <2>3 DEF AdaptLock
<1>16. ASSUME NEW w \in Workers, AdaptGrow(w)  PROVE PoolTypes'
  <2>1. PICK W \in Fresh(worker[w].n) :
           worker' = [Spawned(W) EXCEPT ![w] = At("handler")] /\ io_threads' = io_threads \cup W
    BY <1>16 DEF AdaptGrow
  <2>2. W \subseteq Workers /\ Spawned(W) \in [Workers -> WorkerState] /\ At("handler") \in WorkerState
    BY SpawnTypes, WorkerStates
  <2>3. worker' \in [Workers -> WorkerState] /\ io_threads' \in SUBSET Workers
    BY <1>0, <2>1, <2>2
  <2> QED
    BY <1>0, <1>16, <2>3 DEF AdaptGrow
<1>17. ASSUME NEW w \in Workers, HandlerBegin(w) \/ HandlerEnd(w) \/ WorkerExit(w)  PROVE PoolTypes'
  <2>1. worker' \in [Workers -> WorkerState]
    BY <1>0, <1>17, WorkerStates DEF HandlerBegin, HandlerEnd, WorkerExit
  <2> QED
    BY <1>0, <1>17, <2>1 DEF HandlerBegin, HandlerEnd, WorkerExit, InHandler
<1>18. UNCHANGED vars \/ PublisherExit => PoolTypes'
  BY <1>0 DEF vars, PublisherExit
<1> QED
  BY <1>2, <1>3, <1>4, <1>5, <1>6, <1>8, <1>9, <1>10, <1>12, <1>14, <1>15, <1>16, <1>17, <1>18,
     LifecycleSteps

\* The types hold at the start.
LEMMA LifecycleTypes == Init => TypeOK
<1> SUFFICES ASSUME Init  PROVE TypeOK
  OBVIOUS
<1>1. CallerTypes
  BY LifecycleAssumption DEF Init, CallerTypes, Statuses, Labels
<1>2. PartTypes
  BY DEF Init, PartTypes
<1>3. PoolTypes
  BY WorkerStates DEF Init, PoolTypes
<1>4. FlagTypes
  BY Zenon DEF Init, FlagTypes
<1> QED
  BY <1>1, <1>2, <1>3, <1>4, Types

\* Every step keeps them, over any number of starts.
LEMMA LifecycleTypesKept == TypeOK /\ [Next]_vars => TypeOK'
<1> SUFFICES ASSUME TypeOK, [Next]_vars  PROVE TypeOK'
  OBVIOUS
<1>1. CallerTypes /\ PartTypes /\ FlagTypes
  BY Types
<1>2. CallerTypes' /\ PartTypes' /\ PoolTypes' /\ FlagTypes'
  BY <1>1, CallerTypesKept, PartTypesKept, PoolTypesKept, FlagTypesKept
<1> QED
  BY <1>2, Zenon DEF TypeOK, CallerTypes, PartTypes, PoolTypes, FlagTypes

-----------------------------------------------------------------------------
(* The first life of a server                                              *)

\* A step of a pool thread that leaves the vector and its mutex, and changes sessions only
\* when a thread runs.
LEMMA HandlerKeeps ==
    ASSUME FirstLife,
           UNCHANGED <<status, status_mutex, pc, starts, work_guard, http_listener, ws_listener,
                       io_threads, io_threads_mutex>>,
           \A u \in Workers : worker'[u] = worker[u] \/ (worker[u].at # "none" /\ worker'[u].at # "grow"),
           socket' = socket \/ \E u \in Workers : worker[u].at # "none"
    PROVE  FirstLife'
<1>1. \A c \in Callers : Excludes(c)'
  BY DEF FirstLife, Excludes
<1>2. \A c \in Callers : Built(c)'
  BY DEF FirstLife, Built
<1>3. \A w \in Workers : Pooled(w)'
  BY DEF FirstLife, Pooled
<1>4. status = "STOPPED" => \A u \in Workers : worker[u].at = "none"
  BY DEF FirstLife, QuietWhenStopped
<1>5. Unstarted'
  BY <1>4 DEF FirstLife, Unstarted
<1>6. PoolBounded'
  BY DEF FirstLife, PoolBounded
<1>7. QuietWhenStopped'
  <2>1. Gone' <=> Gone
    BY DEF Gone
  <2>2. (\A w \in Workers : worker[w].at = "none") => \A w \in Workers : worker'[w].at = "none"
    OBVIOUS
  <2> QED
    BY <2>1, <2>2 DEF FirstLife, QuietWhenStopped
<1> QED
  BY <1>1, <1>2, <1>3, <1>5, <1>6, <1>7 DEF FirstLife

\* The handlers, the store of the count and the end of a thread.
LEMMA HandlerSteps ==
    ASSUME TypeOK, FirstLife, NEW w \in Workers,
           \/ \E s \in Sockets : Accept(w, s) \/ Subscribe(w, s) \/ Complete(w, s) \/ Disconnect(w, s)
           \/ HandlerBegin(w) \/ HandlerEnd(w) \/ AdaptStore(w) \/ WorkerExit(w)
    PROVE  FirstLife'
<1>1. worker \in [Workers -> WorkerState]
  BY DEF TypeOK
<1>2. worker[w].at # "none"
  BY DEF Accept, Subscribe, Complete, Disconnect, HandlerBegin, HandlerEnd, AdaptStore, WorkerExit
<1>3. UNCHANGED <<status, status_mutex, pc, starts, work_guard, http_listener, ws_listener,
                   io_threads, io_threads_mutex>>
  BY DEF Accept, Subscribe, Complete, Disconnect, HandlerBegin, HandlerEnd, InHandler, AdaptStore,
         WorkerExit, lifecycle, listeners
<1>4. \A u \in Workers : worker'[u] = worker[u] \/ (u = w /\ worker'[u].at # "grow")
  <2>1. CASE CountChanged(w)
    BY <1>1, <2>1 DEF CountChanged
  <2>2. CASE AdaptStore(w)
    <3>1. worker[w] \in WorkerState /\ worker' = [worker EXCEPT ![w] = [worker[w] EXCEPT !.at = "lock"]]
      BY <1>1, <2>2 DEF AdaptStore
    <3>2. [worker[w] EXCEPT !.at = "lock"].at = "lock"
      BY <3>1 DEF WorkerState
    <3> QED
      BY <1>1, <3>1, <3>2
  <2>3. CASE HandlerBegin(w) \/ HandlerEnd(w) \/ WorkerExit(w)
    BY <1>1, <2>3 DEF HandlerBegin, HandlerEnd, WorkerExit, At
  <2>4. CASE UNCHANGED worker
    BY <2>4
  <2> QED
    BY <2>1, <2>2, <2>3, <2>4 DEF Accept, Subscribe, Complete, Disconnect
<1> QED
  BY <1>2, <1>3, <1>4, HandlerKeeps

\* The publisher's end, calls that find nothing to do, and steps of no part of the server.
LEMMA PublisherSteps ==
    ASSUME FirstLife, \/ UNCHANGED vars \/ PublisherExit
                      \/ \E c \in Callers : StartRefused(c) \/ StopNotRunning(c)
    PROVE  FirstLife'
<1>1. UNCHANGED <<status, status_mutex, pc, starts, work_guard, http_listener, ws_listener,
                   io_threads, io_threads_mutex, worker, socket>>
  BY DEF vars, PublisherExit, StartRefused, StopNotRunning, pool, lifecycle, listeners
<1> QED
  BY <1>1, HandlerKeeps

\* adapt_pool takes the mutex and sees how many threads there is room for.
LEMMA AdaptLockStep ==
    ASSUME TypeOK, FirstLife, NEW w \in Workers, AdaptLock(w)
    PROVE  FirstLife'
<1> USE DEF lifecycle, listeners
<1>1. worker \in [Workers -> WorkerState] /\ worker[w].at = "lock" /\ io_threads_mutex = NoOne
      /\ io_threads_mutex' = w
      /\ worker' = [worker EXCEPT ![w] = [at |-> "grow", n |-> Growth(worker[w].n)]]
  BY DEF TypeOK, AdaptLock
<1>2. UNCHANGED <<status, status_mutex, pc, starts, work_guard, http_listener, ws_listener, io_threads, socket>>
  BY DEF AdaptLock
<1>3. NoOne \notin Callers /\ NoOne \notin Workers
  BY LifecycleAssumption
<1>4. worker[w].n \in Nat
  BY <1>1 DEF WorkerState
<1>5. Cardinality(io_threads) + Growth(worker[w].n) <= MaxThreads
  BY <1>4, GrowthBound DEF FirstLife
<1>6. \A c \in Callers : Excludes(c)'
  BY <1>1, <1>2, <1>3 DEF FirstLife, Excludes
<1>7. \A c \in Callers : Built(c)'
  BY <1>2 DEF FirstLife, Built
<1>8. ASSUME NEW u \in Workers  PROVE Pooled(u)'
  <2>1. Pooled(u)
    BY DEF FirstLife
  <2>2. CASE u = w
    <3>1. worker'[u].at = "grow" /\ worker'[u].n = Growth(worker[w].n)
      BY <1>1, <2>2
    <3> QED
      BY <1>1, <1>2, <1>5, <2>1, <2>2, <3>1 DEF Pooled
  <2>3. CASE u # w
    <3>1. worker'[u] = worker[u]
      BY <1>1, <2>3
    <3> QED
      BY <1>1, <1>2, <1>3, <2>1, <3>1 DEF Pooled
  <2> QED
    BY <2>2, <2>3
<1>9. Unstarted' /\ PoolBounded'
  BY <1>2 DEF FirstLife, Unstarted, PoolBounded
<1>10. QuietWhenStopped'
  <2>1. Gone' <=> Gone
    BY <1>2 DEF Gone
  <2> QED
    BY <1>1, <1>2, <2>1 DEF FirstLife, QuietWhenStopped
<1> QED
  BY <1>6, <1>7, <1>8, <1>9, <1>10 DEF FirstLife

\* adapt_pool adds the threads and gives the mutex back.
LEMMA AdaptGrowStep ==
    ASSUME TypeOK, FirstLife, NEW w \in Workers, AdaptGrow(w)
    PROVE  FirstLife'
<1>1. worker \in [Workers -> WorkerState] /\ worker[w].at = "grow" /\ io_threads_mutex' = NoOne
      /\ io_threads \in SUBSET Workers
  BY DEF TypeOK, AdaptGrow
<1>2. UNCHANGED <<status, status_mutex, pc, starts, work_guard, http_listener, ws_listener, socket>>
  BY DEF AdaptGrow, lifecycle, listeners
<1>3. PICK W \in Fresh(worker[w].n) :
         worker' = [Spawned(W) EXCEPT ![w] = At("handler")] /\ io_threads' = io_threads \cup W
  BY DEF AdaptGrow
<1>4. /\ W \subseteq Workers /\ Cardinality(W) = worker[w].n
      /\ Spawned(W) \in [Workers -> WorkerState]
      /\ \A u \in W : worker[u].at = "none" /\ Spawned(W)[u] = At("run")
      /\ \A u \in Workers \ W : Spawned(W)[u] = worker[u]
  BY SpawnTypes
<1>5. Pooled(w) /\ w \in io_threads /\ io_threads_mutex = w
      /\ Cardinality(io_threads) + worker[w].n <= MaxThreads
  BY <1>1 DEF FirstLife, Pooled
<1>6. w \notin Callers /\ \A u \in Workers : worker[u].at = "grow" => u = w
  <2>1. \A u \in Workers : worker[u].at = "grow" => io_threads_mutex = u
    BY DEF FirstLife, Pooled
  <2>2. w \notin Callers
    BY LifecycleAssumption
  <2> QED
    BY <1>5, <2>1, <2>2
<1>7. \A c \in Callers : Excludes(c)'
  BY <1>2, <1>5, <1>6 DEF FirstLife, Excludes
<1>8. \A c \in Callers : Built(c)'
  BY <1>2, <1>5 DEF FirstLife, Built
<1>9. \A u \in Workers : /\ worker'[u].at # "grow"
                         /\ worker'[u].at # "none" => u \in io_threads \cup W
  <2>1. At("run").at = "run" /\ At("handler").at = "handler"
    BY DEF At
  <2>2. \A u \in Workers : Pooled(u)
    BY DEF FirstLife
  <2>3. ASSUME NEW u \in Workers  PROVE /\ worker'[u].at # "grow"
                                        /\ worker'[u].at # "none" => u \in io_threads \cup W
    <3>1. CASE u = w
      BY <1>3, <1>4, <1>5, <2>1, <3>1
    <3>2. CASE u # w /\ u \in W
      BY <1>3, <1>4, <2>1, <3>2
    <3>3. CASE u # w /\ u \notin W
      BY <1>3, <1>4, <1>6, <2>2, <3>3 DEF Pooled
    <3> QED
      BY <3>1, <3>2, <3>3
  <2> QED
    BY <2>3
<1>10. \A u \in Workers : Pooled(u)'
  BY <1>3, <1>9 DEF Pooled
<1>11. PoolBounded'
  <2>1. Cardinality(io_threads \cup W) <= Cardinality(io_threads) + Cardinality(W)
    BY <1>1, <1>4, SpawnCounts
  <2>2. PICK a \in Nat, b \in Nat, d \in Nat :
           a = Cardinality(io_threads) /\ b = Cardinality(W) /\ d = Cardinality(io_threads \cup W)
    BY <1>1, <1>4, ThreadSets
  <2>3. MaxThreads \in Nat
    BY LifecycleAssumption
  <2>4. d <= MaxThreads
    BY <1>4, <1>5, <2>1, <2>2, <2>3
  <2> QED
    BY <1>3, <2>2, <2>4 DEF PoolBounded
<1>12. Unstarted'
  BY <1>2 DEF FirstLife, Unstarted
<1>13. QuietWhenStopped'
  <2>1. Gone' <=> Gone
    BY <1>2 DEF Gone
  <2> QED
    BY <1>1, <1>2, <2>1 DEF FirstLife, QuietWhenStopped
<1> QED
  BY <1>7, <1>8, <1>10, <1>11, <1>12, <1>13 DEF FirstLife

\* std::terminate: nobody is inside a call and no thread runs.
LEMMA TerminateStep ==
    ASSUME FirstLife, Terminate, UNCHANGED <<starts, io_threads, socket>>,
           status' = status \/ (status' = "RUNNING" /\ starts # 0), QuietWhenStopped'
    PROVE  FirstLife'
<1>1. (\A c \in Callers : pc'[c] = "gone") /\ (\A w \in Workers : worker'[w].at = "none")
  BY TerminateEnds
<1>2. \A c \in Callers : Excludes(c)' /\ Built(c)'
  BY <1>1 DEF Excludes, Built, InStart, InStop
<1>3. \A w \in Workers : Pooled(w)'
  BY <1>1 DEF Pooled
<1>4. Unstarted'
  BY <1>1 DEF FirstLife, Unstarted, InStart, InStop
<1>5. PoolBounded'
  BY DEF FirstLife, PoolBounded
<1> QED
  BY <1>2, <1>3, <1>4, <1>5 DEF FirstLife

\* The exception of a refused thread.
LEMMA AdaptThrowsStep ==
    ASSUME FirstLife, NEW w \in Workers, AdaptThrows(w)
    PROVE  FirstLife'
<1>1. Terminate /\ UNCHANGED <<starts, io_threads, socket, status, work_guard>> /\ worker[w].at = "grow"
  BY DEF AdaptThrows
<1>2. Gone => Gone'
  <2>1. \A c \in Callers : pc'[c] = "gone"
    BY <1>1, TerminateEnds
  <2> QED
    BY <2>1 DEF Gone
<1>3. QuietWhenStopped'
  <2>1. ~(status = "STOPPED" \/ (status = "ERROR" /\ ~work_guard /\ ~Gone))
    BY <1>1 DEF FirstLife, QuietWhenStopped
  <2> QED
    BY <1>1, <1>2, <2>1 DEF QuietWhenStopped
<1> QED
  BY <1>1, <1>3, TerminateStep

\* A caller inside start or stop is the only one in a call.
LEMMA OneCall ==
    ASSUME FirstLife, NEW c \in Callers, pc[c] \in InStart \cup InStop
    PROVE  /\ \A d \in Callers : d # c => pc[d] \notin InStart \cup InStop \cup InDtor
           /\ ~Gone /\ starts # 0
<1>1. pc[c] \notin InDtor
  BY DEF InStart, InStop, InDtor
<1>2. \A d \in Callers : d # c => pc[d] \notin InStart \cup InStop \cup InDtor
  BY DEF FirstLife, Excludes
<1> QED
  BY <1>1, <1>2 DEF Gone, InDtor, FirstLife, Unstarted

\* So is one that gets the mutex of the status.
LEMMA NoCall ==
    ASSUME FirstLife, NEW c \in Callers, Usable(c)
    PROVE  \A d \in Callers : pc[d] \notin InStart \cup InStop \cup InDtor
<1>1. NoOne \notin Callers
  BY LifecycleAssumption
<1>2. \A d \in Callers : pc[d] \notin InStart \cup InStop
  BY <1>1 DEF FirstLife, Excludes, Usable
<1>3. \A d \in Callers : pc[d] \notin InDtor
  BY DEF Usable, Gone, InDtor
<1> QED
  BY <1>2, <1>3

\* A step of the only call: what concerns the caller, the threads and the status is left to see.
LEMMA CallStep ==
    ASSUME FirstLife, TypeOK, NEW c \in Callers, NEW l, pc' = [pc EXCEPT ![c] = l],
           \A d \in Callers : d # c => pc[d] \notin InStart \cup InStop \cup InDtor,
           Excludes(c)', Built(c)', \A w \in Workers : Pooled(w)',
           Unstarted', PoolBounded', QuietWhenStopped'
    PROVE  FirstLife'
<1>1. ASSUME NEW d \in Callers, d # c  PROVE Excludes(d)' /\ Built(d)'
  <2>1. pc'[d] \notin InStart \cup InStop \cup InDtor
    BY <1>1 DEF TypeOK
  <2> QED
    BY <2>1 DEF Excludes, Built, InStart, InStop, InDtor
<1> QED
  BY <1>1 DEF FirstLife

\* The first start, on a server that has nothing.
LEMMA StartBeginStep ==
    ASSUME FirstLife, TypeOK, NEW c \in Callers, StartBegin(c), starts' <= 1
    PROVE  FirstLife'
<1>1. starts = 0 /\ starts' = 1
  <2>1. starts' = starts + 1 /\ starts \in 0..MaxStarts /\ MaxStarts \in Nat
    BY LifecycleAssumption DEF StartBegin, TypeOK
  <2> QED
    BY <2>1
<1>2. \A s \in Sockets : socket[s] = "none"
  BY <1>1 DEF FirstLife, Unstarted
<1>3. Subscribed = 0
  <2>1. {s \in Sockets : socket[s] = "subscribed"} = {}
    BY <1>2
  <2> QED
    BY <2>1, FS_EmptySet DEF Subscribed
<1>4. PICK n \in 0..0 : \E W \in Fresh(Smaller(n, MaxThreads)) : worker' = Spawned(W) /\ io_threads' = W
  BY <1>3 DEF StartBegin
<1>5. Smaller(n, MaxThreads) = 0
  BY LifecycleAssumption DEF Smaller
<1>6. PICK W \in Fresh(0) : worker' = Spawned(W) /\ io_threads' = W
  BY <1>4, <1>5
<1>7. W \subseteq Workers /\ Cardinality(W) = 0
  BY <1>6, SpawnTypes
<1>8. W = {}
  <2>1. IsFiniteSet(W)
    BY <1>7, ThreadSets
  <2> QED
    BY <1>7, <2>1, FS_EmptySet
<1>9. http_listener # "open" /\ ws_listener # "open" /\ \A w \in Workers : worker[w].at = "none"
  BY <1>1 DEF FirstLife, Unstarted, QuietWhenStopped
<1>10. io_threads' = {} /\ \A w \in Workers : worker'[w].at = "none"
  BY <1>6, <1>8, <1>9 DEF Spawned
<1>11. /\ pc' = [pc EXCEPT ![c] = "start_http"] /\ status' = "STARTING" /\ status_mutex' = c
       /\ work_guard' /\ http_listener' = http_listener /\ ws_listener' = ws_listener
       /\ Usable(c)
  BY DEF StartBegin, listeners
<1>12. pc'[c] = "start_http"
  BY <1>11 DEF TypeOK
<1>13. Excludes(c)'
  BY <1>11, <1>12 DEF Excludes, InStart, InStop, InDtor
<1>14. Built(c)'
  BY <1>9, <1>10, <1>11, <1>12 DEF Built, InStop
<1>15. \A w \in Workers : Pooled(w)'
  BY <1>10 DEF Pooled
<1>16. Unstarted' /\ QuietWhenStopped'
  BY <1>1, <1>11 DEF Unstarted, QuietWhenStopped
<1>17. PoolBounded'
  BY <1>10, FS_EmptySet, LifecycleAssumption DEF PoolBounded
<1> QED
  BY <1>11, <1>13, <1>14, <1>15, <1>16, <1>17, NoCall, CallStep

\* A step that leaves the pool leaves what holds of its threads.
LEMMA PoolKept ==
    ASSUME FirstLife, UNCHANGED <<io_threads, io_threads_mutex, worker>>
    PROVE  PoolBounded' /\ \A w \in Workers : Pooled(w)'
  BY DEF FirstLife, PoolBounded, Pooled

\* Opening the first port, and what is left when that fails: nothing.
LEMMA StartHttpStep ==
    ASSUME FirstLife, TypeOK, NEW c \in Callers, StartHttp(c)
    PROVE  FirstLife'
<1>1. pc[c] = "start_http" /\ UNCHANGED <<starts, ws_listener, io_threads, io_threads_mutex, worker, socket>>
  BY DEF StartHttp, pool
<1>2. /\ \A d \in Callers : d # c => pc[d] \notin InStart \cup InStop \cup InDtor
      /\ starts # 0
  BY <1>1, OneCall DEF InStart
<1>3. /\ status_mutex = c /\ status = "STARTING" /\ work_guard /\ http_listener # "open"
      /\ ws_listener # "open" /\ io_threads = {}
  BY <1>1 DEF FirstLife, Excludes, Built, InStart
<1>4. \A w \in Workers : worker[w].at = "none"
  BY <1>3 DEF FirstLife, Pooled
<1>5. PoolBounded' /\ \A w \in Workers : Pooled(w)'
  BY <1>1, PoolKept
<1>6. Unstarted'
  BY <1>1, <1>2 DEF Unstarted
<1>7. CASE /\ pc' = [pc EXCEPT ![c] = "start_ws"]
           /\ UNCHANGED <<status, status_mutex, work_guard>>
  <2>1. pc'[c] = "start_ws"
    BY <1>7 DEF TypeOK
  <2>2. Excludes(c)'
    BY <1>3, <1>7, <2>1 DEF Excludes, InStart, InStop, InDtor
  <2>3. Built(c)'
    BY <1>1, <1>3, <1>7, <2>1 DEF Built, InStop
  <2>4. QuietWhenStopped'
    BY <1>3, <1>7 DEF QuietWhenStopped
  <2> QED
    BY <1>2, <1>5, <1>6, <1>7, <2>2, <2>3, <2>4, CallStep
<1>8. CASE StartFails(c) /\ UNCHANGED http_listener
  <2>1. pc'[c] = "idle" /\ pc' = [pc EXCEPT ![c] = "idle"]
    BY <1>8 DEF StartFails, TypeOK
  <2>2. Excludes(c)' /\ Built(c)'
    BY <2>1 DEF Excludes, Built, InStart, InStop, InDtor
  <2>3. QuietWhenStopped'
    BY <1>1, <1>3, <1>4, <1>8 DEF QuietWhenStopped, StartFails
  <2> QED
    BY <1>2, <1>5, <1>6, <2>1, <2>2, <2>3, CallStep
<1> QED
  BY <1>7, <1>8 DEF StartHttp

\* Opening the second port; a failure closes the first again.
LEMMA StartWsStep ==
    ASSUME FirstLife, TypeOK, NEW c \in Callers, StartWs(c)
    PROVE  FirstLife'
<1>1. pc[c] = "start_ws" /\ UNCHANGED <<starts, io_threads, io_threads_mutex, worker, socket>>
  BY DEF StartWs, pool
<1>2. /\ \A d \in Callers : d # c => pc[d] \notin InStart \cup InStop \cup InDtor
      /\ starts # 0
  BY <1>1, OneCall DEF InStart
<1>3. /\ status_mutex = c /\ status = "STARTING" /\ work_guard
      /\ ws_listener # "open" /\ io_threads = {}
  BY <1>1 DEF FirstLife, Excludes, Built, InStart
<1>4. \A w \in Workers : worker[w].at = "none"
  BY <1>3 DEF FirstLife, Pooled
<1>5. PoolBounded' /\ \A w \in Workers : Pooled(w)'
  BY <1>1, PoolKept
<1>6. Unstarted'
  BY <1>1, <1>2 DEF Unstarted
<1>7. CASE /\ pc' = [pc EXCEPT ![c] = "start_pool"]
           /\ UNCHANGED <<status, status_mutex, work_guard>>
  <2>1. pc'[c] = "start_pool"
    BY <1>7 DEF TypeOK
  <2>2. Excludes(c)'
    BY <1>3, <1>7, <2>1 DEF Excludes, InStart, InStop, InDtor
  <2>3. Built(c)'
    BY <1>1, <1>3, <1>7, <2>1 DEF Built, InStop
  <2>4. QuietWhenStopped'
    BY <1>3, <1>7 DEF QuietWhenStopped
  <2> QED
    BY <1>2, <1>5, <1>6, <1>7, <2>2, <2>3, <2>4, CallStep
<1>8. CASE StartFails(c) /\ http_listener' = closed(http_listener) /\ UNCHANGED ws_listener
  <2>1. pc'[c] = "idle" /\ pc' = [pc EXCEPT ![c] = "idle"]
    BY <1>8 DEF StartFails, TypeOK
  <2>2. Excludes(c)' /\ Built(c)'
    BY <2>1 DEF Excludes, Built, InStart, InStop, InDtor
  <2>3. QuietWhenStopped'
    BY <1>1, <1>3, <1>4, <1>8 DEF QuietWhenStopped, StartFails, closed
  <2> QED
    BY <1>2, <1>5, <1>6, <2>1, <2>2, <2>3, CallStep
<1> QED
  BY <1>7, <1>8 DEF StartWs

\* The first threads of an empty pool: they run, are in the vector, and there are not too many.
LEMMA FirstThreads ==
    ASSUME FirstLife, TypeOK, io_threads = {}, NEW n \in Nat, n <= MaxThreads, NEW W \in Fresh(n),
           worker' = Spawned(W), io_threads' = io_threads \cup W
    PROVE  PoolBounded' /\ \A w \in Workers : Pooled(w)'
<1>1. /\ W \subseteq Workers /\ Cardinality(W) = n
      /\ \A u \in W : Spawned(W)[u] = At("run")
      /\ \A u \in Workers \ W : Spawned(W)[u] = worker[u]
  BY SpawnTypes
<1>2. \A w \in Workers : worker[w].at = "none"
  BY DEF FirstLife, Pooled
<1>3. io_threads' = W
  OBVIOUS
<1>4. At("run").at = "run"
  BY DEF At
<1>5. ASSUME NEW w \in Workers  PROVE Pooled(w)'
  <2>1. CASE w \in W
    BY <1>1, <1>3, <1>4, <2>1 DEF Pooled
  <2>2. CASE w \notin W
    BY <1>1, <1>2, <2>2 DEF Pooled
  <2> QED
    BY <2>1, <2>2
<1> QED
  BY <1>1, <1>3, <1>5 DEF PoolBounded

\* start fills the pool.
LEMMA StartPoolStep ==
    ASSUME FirstLife, TypeOK, NEW c \in Callers, StartPool(c)
    PROVE  FirstLife'
<1>1. /\ pc[c] = "start_pool" /\ pc' = [pc EXCEPT ![c] = "start_publisher"]
      /\ UNCHANGED <<starts, socket, status, status_mutex, work_guard>>
  BY DEF StartPool
<1>2. /\ \A d \in Callers : d # c => pc[d] \notin InStart \cup InStop \cup InDtor
      /\ starts # 0
  BY <1>1, OneCall DEF InStart
<1>3. status_mutex = c /\ status = "STARTING" /\ work_guard /\ io_threads = {}
  BY <1>1 DEF FirstLife, Excludes, Built, InStart
<1>4. PICK W \in Fresh(MinThreads) : worker' = Spawned(W) /\ io_threads' = io_threads \cup W
  BY DEF StartPool
<1>5. PoolBounded' /\ \A w \in Workers : Pooled(w)'
  BY <1>3, <1>4, LifecycleAssumption, FirstThreads
<1>6. pc'[c] = "start_publisher"
  BY <1>1 DEF TypeOK
<1>7. Excludes(c)'
  BY <1>1, <1>3, <1>6 DEF Excludes, InStart, InStop, InDtor
<1>8. Built(c)'
  BY <1>1, <1>3, <1>6 DEF Built, InStop
<1>9. Unstarted' /\ QuietWhenStopped'
  BY <1>1, <1>2, <1>3 DEF Unstarted, QuietWhenStopped
<1> QED
  BY <1>1, <1>2, <1>5, <1>7, <1>8, <1>9, CallStep

\* A thread is refused: ERROR with the work guard still held.
LEMMA StartThrowsStep ==
    ASSUME FirstLife, TypeOK, NEW c \in Callers, StartThrows(c)
    PROVE  FirstLife'
<1>1. /\ pc[c] \in {"start_pool", "start_publisher"} /\ pc' = [pc EXCEPT ![c] = "idle"]
      /\ status' = "ERROR" /\ UNCHANGED <<starts, socket, work_guard, io_threads_mutex>>
  BY DEF StartThrows
<1>2. /\ \A d \in Callers : d # c => pc[d] \notin InStart \cup InStop \cup InDtor
      /\ starts # 0
  BY <1>1, OneCall DEF InStart
<1>3. work_guard /\ (pc[c] = "start_pool" => io_threads = {})
  BY <1>1 DEF FirstLife, Built, InStart
<1>4. PoolBounded' /\ \A w \in Workers : Pooled(w)'
  <2>1. CASE pc[c] = "start_pool" /\ \E n \in 0..(MinThreads - 1) : \E W \in Fresh(n) :
                worker' = Spawned(W) /\ io_threads' = io_threads \cup W
    <3>1. PICK n \in 0..(MinThreads - 1) : \E W \in Fresh(n) :
                worker' = Spawned(W) /\ io_threads' = io_threads \cup W
      BY <2>1
    <3>2. PICK W \in Fresh(n) : worker' = Spawned(W) /\ io_threads' = io_threads \cup W
      BY <3>1
    <3>3. n \in Nat /\ n <= MaxThreads
      BY LifecycleAssumption
    <3> QED
      BY <1>3, <2>1, <3>2, <3>3, FirstThreads
  <2>2. CASE UNCHANGED <<worker, io_threads>>
    BY <1>1, <2>2, PoolKept
  <2> QED
    BY <2>1, <2>2 DEF StartThrows
<1>5. pc'[c] = "idle"
  BY <1>1 DEF TypeOK
<1>6. Excludes(c)' /\ Built(c)'
  BY <1>5 DEF Excludes, Built, InStart, InStop, InDtor
<1>7. Unstarted' /\ QuietWhenStopped'
  BY <1>1, <1>2, <1>3 DEF Unstarted, QuietWhenStopped
<1> QED
  BY <1>1, <1>2, <1>4, <1>6, <1>7, CallStep

\* The last step of start.
LEMMA StartPublisherStep ==
    ASSUME FirstLife, TypeOK, NEW c \in Callers, StartPublisher(c)
    PROVE  FirstLife'
<1>1. /\ pc[c] = "start_publisher" /\ status' = "RUNNING"
      /\ UNCHANGED <<starts, socket, io_threads, io_threads_mutex>>
  BY DEF StartPublisher
<1>2. /\ \A d \in Callers : d # c => pc[d] \notin InStart \cup InStop \cup InDtor
      /\ starts # 0
  BY <1>1, OneCall DEF InStart
<1>3. Unstarted' /\ QuietWhenStopped'
  BY <1>1, <1>2 DEF Unstarted, QuietWhenStopped
<1>4. CASE Terminate
  BY <1>1, <1>2, <1>3, <1>4, TerminateStep
<1>5. CASE pc' = [pc EXCEPT ![c] = "idle"] /\ UNCHANGED worker
  <2>1. pc'[c] = "idle"
    BY <1>5 DEF TypeOK
  <2>2. Excludes(c)' /\ Built(c)'
    BY <2>1 DEF Excludes, Built, InStart, InStop, InDtor
  <2>3. PoolBounded' /\ \A w \in Workers : Pooled(w)'
    BY <1>1, <1>5, PoolKept
  <2> QED
    BY <1>2, <1>3, <1>5, <2>2, <2>3, CallStep
<1> QED
  BY <1>4, <1>5 DEF StartPublisher

-----------------------------------------------------------------------------
(* Stopping and destroying it                                              *)

\* stop begins on a running server, which was started.
LEMMA StopBeginStep ==
    ASSUME FirstLife, TypeOK, NEW c \in Callers, StopBegin(c)
    PROVE  FirstLife'
<1>1. /\ Usable(c) /\ status = "RUNNING" /\ status' = "STOPPING" /\ status_mutex' = c
      /\ http_listener' = closed(http_listener) /\ ws_listener' = closed(ws_listener)
      /\ ~work_guard' /\ pc' = [pc EXCEPT ![c] = "stop_ioc"]
      /\ UNCHANGED <<starts, io_threads, io_threads_mutex, worker, socket>>
  BY DEF StopBegin, pool
<1>2. starts # 0
  BY <1>1 DEF FirstLife, Unstarted
<1>3. PoolBounded' /\ \A w \in Workers : Pooled(w)'
  BY <1>1, PoolKept
<1>4. pc'[c] = "stop_ioc"
  BY <1>1 DEF TypeOK
<1>5. Excludes(c)'
  BY <1>1, <1>4 DEF Excludes, InStart, InStop, InDtor
<1>6. Built(c)'
  BY <1>1, <1>4 DEF Built, InStart, closed
<1>7. Unstarted' /\ QuietWhenStopped'
  BY <1>1, <1>2 DEF Unstarted, QuietWhenStopped
<1> QED
  BY <1>1, <1>3, <1>5, <1>6, <1>7, NoCall, CallStep

\* stop stops the io_context.
LEMMA StopIocStep ==
    ASSUME FirstLife, TypeOK, NEW c \in Callers, StopIoc(c)
    PROVE  FirstLife'
<1>1. /\ pc[c] = "stop_ioc" /\ pc' = [pc EXCEPT ![c] = "stop_lock"]
      /\ UNCHANGED <<status, status_mutex, starts, work_guard, http_listener, ws_listener, io_threads,
                     io_threads_mutex, worker, socket>>
  BY DEF StopIoc, pool, listeners
<1>2. /\ \A d \in Callers : d # c => pc[d] \notin InStart \cup InStop \cup InDtor
      /\ starts # 0
  BY <1>1, OneCall DEF InStop
<1>3. /\ status_mutex = c /\ status = "STOPPING" /\ ~work_guard
      /\ http_listener # "open" /\ ws_listener # "open"
  BY <1>1 DEF FirstLife, Excludes, Built, InStop
<1>4. PoolBounded' /\ \A w \in Workers : Pooled(w)'
  BY <1>1, PoolKept
<1>5. pc'[c] = "stop_lock"
  BY <1>1 DEF TypeOK
<1>6. Excludes(c)'
  BY <1>1, <1>3, <1>5 DEF Excludes, InStart, InStop, InDtor
<1>7. Built(c)'
  BY <1>1, <1>3, <1>5 DEF Built, InStart
<1>8. Unstarted' /\ QuietWhenStopped'
  BY <1>1, <1>2, <1>3 DEF Unstarted, QuietWhenStopped
<1> QED
  BY <1>1, <1>2, <1>4, <1>6, <1>7, <1>8, CallStep

\* A caller takes the pool's mutex, which nobody holds: no thread is about to grow the pool.
LEMMA PoolLocked ==
    ASSUME FirstLife, io_threads_mutex = NoOne, UNCHANGED <<io_threads, worker>>
    PROVE  PoolBounded' /\ \A w \in Workers : Pooled(w)'
<1>1. NoOne \notin Workers
  BY LifecycleAssumption
<1> QED
  BY <1>1 DEF FirstLife, PoolBounded, Pooled

\* stop takes the pool's mutex.
LEMMA StopLockStep ==
    ASSUME FirstLife, TypeOK, NEW c \in Callers, StopLock(c)
    PROVE  FirstLife'
<1>1. /\ pc[c] = "stop_lock" /\ pc' = [pc EXCEPT ![c] = "stop_join"]
      /\ io_threads_mutex = NoOne /\ io_threads_mutex' = c
      /\ UNCHANGED <<status, status_mutex, starts, work_guard, http_listener, ws_listener, io_threads,
                     worker, socket>>
  BY DEF StopLock, listeners
<1>2. /\ \A d \in Callers : d # c => pc[d] \notin InStart \cup InStop \cup InDtor
      /\ starts # 0
  BY <1>1, OneCall DEF InStop
<1>3. /\ status_mutex = c /\ status = "STOPPING" /\ ~work_guard
      /\ http_listener # "open" /\ ws_listener # "open"
  BY <1>1 DEF FirstLife, Excludes, Built, InStop
<1>4. PoolBounded' /\ \A w \in Workers : Pooled(w)'
  BY <1>1, PoolLocked
<1>5. pc'[c] = "stop_join"
  BY <1>1 DEF TypeOK
<1>6. Excludes(c)'
  BY <1>1, <1>3, <1>5 DEF Excludes, InStart, InStop, InDtor
<1>7. Built(c)'
  BY <1>1, <1>3, <1>5 DEF Built, InStart
<1>8. Unstarted' /\ QuietWhenStopped'
  BY <1>1, <1>2, <1>3 DEF Unstarted, QuietWhenStopped
<1> QED
  BY <1>1, <1>2, <1>4, <1>6, <1>7, <1>8, CallStep

\* Joining the pool leaves no thread: every one that ran was in the vector.
LEMMA JoinEmpties ==
    ASSUME FirstLife, JoinPool
    PROVE  /\ io_threads' = {} /\ io_threads_mutex' = NoOne /\ socket' = socket
           /\ \A w \in Workers : worker'[w].at = "none"
           /\ PoolBounded' /\ \A w \in Workers : Pooled(w)'
<1>1. /\ io_threads' = {} /\ io_threads_mutex' = NoOne /\ socket' = socket
      /\ worker' = [w \in Workers |-> IF w \in io_threads THEN At("none") ELSE worker[w]]
  BY DEF JoinPool
<1>2. \A w \in Workers : w \notin io_threads => worker[w].at = "none"
  BY DEF FirstLife, Pooled
<1>3. At("none").at = "none"
  BY DEF At
<1>4. \A w \in Workers : worker'[w].at = "none"
  BY <1>1, <1>2, <1>3
<1>5. \A w \in Workers : Pooled(w)'
  BY <1>4 DEF Pooled
<1>6. PoolBounded'
  BY <1>1, FS_EmptySet, LifecycleAssumption DEF PoolBounded
<1> QED
  BY <1>1, <1>4, <1>5, <1>6

\* stop joins the pool: the server is quiet.
LEMMA StopJoinStep ==
    ASSUME FirstLife, TypeOK, NEW c \in Callers, StopJoin(c)
    PROVE  FirstLife'
<1>1. /\ pc[c] = "stop_join" /\ pc' = [pc EXCEPT ![c] = "idle"] /\ JoinPool
      /\ UNCHANGED <<starts, work_guard, http_listener, ws_listener>>
  BY DEF StopJoin, listeners
<1>2. /\ \A d \in Callers : d # c => pc[d] \notin InStart \cup InStop \cup InDtor
      /\ starts # 0
  BY <1>1, OneCall DEF InStop
<1>3. ~work_guard /\ http_listener # "open" /\ ws_listener # "open"
  BY <1>1 DEF FirstLife, Built, InStop
<1>4. /\ io_threads' = {} /\ \A w \in Workers : worker'[w].at = "none"
      /\ PoolBounded' /\ \A w \in Workers : Pooled(w)'
  BY <1>1, JoinEmpties
<1>5. pc'[c] = "idle"
  BY <1>1 DEF TypeOK
<1>6. Excludes(c)' /\ Built(c)'
  BY <1>5 DEF Excludes, Built, InStart, InStop, InDtor
<1>7. Unstarted' /\ QuietWhenStopped'
  BY <1>1, <1>2, <1>3, <1>4 DEF Unstarted, QuietWhenStopped
<1> QED
  BY <1>1, <1>2, <1>4, <1>6, <1>7, CallStep

\* A step of the destructor beside which no call is in progress: what it does to the pool, its
\* mutex and the listeners is left to see.
LEMMA DtorKeeps ==
    ASSUME FirstLife, TypeOK, NEW c \in Callers, NEW from, NEW to \in InDtor, DtorStep(c, from, to),
           from = "idle" \/ from \in InDtor,
           \A d \in Callers : pc[d] \notin InStart \cup InStop,
           \A d \in Callers : pc'[d] = "dtor_join" => io_threads_mutex' = d,
           \A w \in Workers : Pooled(w)', PoolBounded',
           socket' = socket \/ \A s \in Sockets : socket'[s] = "none",
           work_guard' => work_guard,
           http_listener' = "open" => http_listener = "open",
           ws_listener' = "open" => ws_listener = "open",
           io_threads = {} => io_threads' = {},
           (\A w \in Workers : worker[w].at = "none") => \A w \in Workers : worker'[w].at = "none"
    PROVE  FirstLife'
<1>1. pc' = [pc EXCEPT ![c] = to] /\ UNCHANGED <<status, starts>>
  BY DEF DtorStep
<1>2. pc'[c] = to /\ \A d \in Callers : d # c => pc'[d] = pc[d]
  BY <1>1 DEF TypeOK
<1>3. \A d \in Callers : pc'[d] \notin InStart \cup InStop
  BY <1>2 DEF InStart, InStop, InDtor
<1>4. ASSUME NEW d \in Callers  PROVE Excludes(d)'
  BY <1>3 DEF Excludes, InStop
<1>5. \A d \in Callers : Built(d)'
  BY <1>3 DEF Built, InStart
<1>6. Unstarted'
  BY <1>1, <1>3 DEF FirstLife, Unstarted
<1>7. Gone'
  BY <1>2 DEF Gone, InDtor
<1>8. QuietWhenStopped'
  BY <1>1, <1>7 DEF FirstLife, QuietWhenStopped
<1> QED
  BY <1>4, <1>5, <1>6, <1>8 DEF FirstLife

\* The destructor's steps that leave the pool.
LEMMA DtorQuietSteps ==
    ASSUME FirstLife, TypeOK, NEW c \in Callers,
           DtorBegin(c) \/ DtorPublisher(c) \/ DtorIoc(c) \/ DtorMembers(c) \/ DtorFree(c)
    PROVE  FirstLife'
<1>1. PICK from, to :
         /\ DtorStep(c, from, to) /\ to \in InDtor /\ to # "dtor_join"
         /\ \/ from = "idle" /\ \A d \in Callers : pc[d] = "idle"
            \/ from \in InDtor
  BY DEF DtorBegin, DtorPublisher, DtorIoc, DtorMembers, DtorFree, InDtor
<1>2. UNCHANGED <<io_threads, io_threads_mutex, worker>>
  BY DEF DtorBegin, DtorPublisher, DtorIoc, DtorMembers, DtorFree, pool
<1>3. socket' = socket \/ \A s \in Sockets : socket'[s] = "none"
  BY DEF DtorBegin, DtorPublisher, DtorIoc, DtorMembers, DtorFree, pool
<1>4. /\ http_listener' = "open" => http_listener = "open"
      /\ ws_listener' = "open" => ws_listener = "open"
  BY DEF DtorBegin, DtorPublisher, DtorIoc, DtorMembers, DtorFree, listeners, closed
<1>5. work_guard' => work_guard
  BY Zenon DEF DtorBegin, DtorPublisher, DtorIoc, DtorMembers, DtorFree
<1>6. pc[c] = from /\ pc' = [pc EXCEPT ![c] = to]
  BY <1>1 DEF DtorStep
<1>7. \A d \in Callers : pc[d] \notin InStart \cup InStop
  BY <1>1, <1>6 DEF FirstLife, Excludes, InStart, InStop
<1>8. \A d \in Callers : pc'[d] = "dtor_join" => io_threads_mutex' = d
  BY <1>1, <1>2, <1>6 DEF FirstLife, Excludes, TypeOK
<1>9. PoolBounded' /\ \A w \in Workers : Pooled(w)'
  BY <1>2, PoolKept
<1> QED
  BY <1>1, <1>2, <1>3, <1>4, <1>5, <1>7, <1>8, <1>9, DtorKeeps

\* The destructor takes the pool's mutex.
LEMMA DtorLockStep ==
    ASSUME FirstLife, TypeOK, NEW c \in Callers, DtorLock(c)
    PROVE  FirstLife'
<1>1. /\ DtorStep(c, "dtor_lock", "dtor_join") /\ io_threads_mutex = NoOne /\ io_threads_mutex' = c
      /\ UNCHANGED <<work_guard, http_listener, ws_listener, io_threads, worker, socket>>
  BY DEF DtorLock, listeners
<1>2. pc[c] = "dtor_lock" /\ pc' = [pc EXCEPT ![c] = "dtor_join"]
  BY <1>1 DEF DtorStep
<1>3. \A d \in Callers : pc[d] \notin InStart \cup InStop
  BY <1>2 DEF FirstLife, Excludes, InDtor
<1>4. \A d \in Callers : pc[d] # "dtor_join"
  <2>1. NoOne \notin Callers
    BY LifecycleAssumption
  <2> QED
    BY <1>1, <2>1 DEF FirstLife, Excludes
<1>5. \A d \in Callers : pc'[d] = "dtor_join" => io_threads_mutex' = d
  BY <1>1, <1>2, <1>4 DEF TypeOK
<1>6. PoolBounded' /\ \A w \in Workers : Pooled(w)'
  BY <1>1, PoolLocked
<1>7. "dtor_lock" \in InDtor /\ "dtor_join" \in InDtor
  BY DEF InDtor
<1> QED
  BY <1>1, <1>3, <1>5, <1>6, <1>7, DtorKeeps

\* The destructor joins the pool.
LEMMA DtorJoinStep ==
    ASSUME FirstLife, TypeOK, NEW c \in Callers, DtorJoin(c)
    PROVE  FirstLife'
<1>1. /\ DtorStep(c, "dtor_join", "dtor_members") /\ JoinPool
      /\ UNCHANGED <<work_guard, http_listener, ws_listener>>
  BY DEF DtorJoin, listeners
<1>2. pc[c] = "dtor_join" /\ pc' = [pc EXCEPT ![c] = "dtor_members"]
  BY <1>1 DEF DtorStep
<1>3. \A d \in Callers : pc[d] \notin InStart \cup InStop
  BY <1>2 DEF FirstLife, Excludes, InDtor
<1>4. \A d \in Callers : pc[d] = "dtor_join" => d = c
  BY <1>2 DEF FirstLife, Excludes
<1>5. \A d \in Callers : pc'[d] # "dtor_join"
  BY <1>2, <1>4 DEF TypeOK
<1>6. /\ io_threads' = {} /\ socket' = socket /\ \A w \in Workers : worker'[w].at = "none"
      /\ PoolBounded' /\ \A w \in Workers : Pooled(w)'
  BY <1>1, JoinEmpties
<1>7. "dtor_join" \in InDtor /\ "dtor_members" \in InDtor
  BY DEF InDtor
<1> QED
  BY <1>1, <1>3, <1>5, <1>6, <1>7, DtorKeeps

-----------------------------------------------------------------------------
(* The invariant and the theorems                                          *)

\* A server object begins with nothing.
LEMMA LifecycleInit == Init => LInv
<1> SUFFICES ASSUME Init  PROVE LInv
  OBVIOUS
<1>1. TypeOK
  BY LifecycleTypes
<1>2. /\ status = "STOPPED" /\ starts = 0 /\ ~work_guard
      /\ http_listener = "none" /\ ws_listener = "none" /\ io_threads = {}
      /\ \A c \in Callers : pc[c] = "idle"
      /\ \A w \in Workers : worker[w].at = "none"
      /\ \A s \in Sockets : socket[s] = "none"
  BY DEF Init, At
<1>3. \A c \in Callers : Excludes(c) /\ Built(c)
  BY <1>2 DEF Excludes, Built, InStart, InStop, InDtor
<1>4. \A w \in Workers : Pooled(w)
  BY <1>2 DEF Pooled
<1>5. Unstarted
  BY <1>2 DEF Unstarted, InStart, InStop
<1>6. PoolBounded
  BY <1>2, FS_EmptySet, LifecycleAssumption DEF PoolBounded
<1>7. QuietWhenStopped
  BY <1>2 DEF QuietWhenStopped
<1> QED
  BY <1>1, <1>3, <1>4, <1>5, <1>6, <1>7 DEF LInv, FirstLife

\* Every step keeps what holds in the first life.
LEMMA LifecycleNext == LInv /\ [Next]_vars => LInv'
<1> SUFFICES ASSUME LInv, [Next]_vars  PROVE LInv'
  OBVIOUS
<1>1. TypeOK /\ TypeOK'
  BY LifecycleTypesKept DEF LInv
<1>2. ASSUME starts' <= 1  PROVE FirstLife'
  <2>1. starts' = starts \/ \E c \in Callers : StartBegin(c)
    BY LifecycleSteps DEF vars, lifecycle, PublisherExit, StartRefused, StartHttp, StartWs, StartPool,
       StartPublisher, StartThrows, StopNotRunning, StopBegin, StopIoc, StopLock, StopJoin, DtorBegin,
       DtorPublisher, DtorIoc, DtorLock, DtorJoin, DtorMembers, DtorFree, DtorStep, Accept, Subscribe,
       Complete, Disconnect, HandlerBegin, HandlerEnd, InHandler, AdaptStore, AdaptLock, AdaptGrow,
       AdaptThrows, WorkerExit
  <2>2. starts \in Nat /\ (starts' = starts \/ starts' = starts + 1)
    <3>1. starts \in 0..MaxStarts /\ MaxStarts \in Nat
      BY <1>1, LifecycleAssumption DEF TypeOK
    <3>2. starts' = starts \/ starts' = starts + 1
      BY <2>1 DEF StartBegin
    <3> QED
      BY <3>1, <3>2
  <2>3. starts <= 1
    BY <1>2, <2>2
  <2>4. FirstLife
    BY <2>3 DEF LInv
  <2>5. ASSUME NEW c \in Callers,
               \/ StartBegin(c) \/ StartRefused(c) \/ StartHttp(c) \/ StartWs(c)
               \/ StartPool(c) \/ StartPublisher(c) \/ StartThrows(c)
        PROVE  FirstLife'
    BY <1>1, <1>2, <2>4, <2>5, StartBeginStep, PublisherSteps, StartHttpStep, StartWsStep, StartPoolStep,
       StartPublisherStep, StartThrowsStep
  <2>6. ASSUME NEW c \in Callers,
               StopNotRunning(c) \/ StopBegin(c) \/ StopIoc(c) \/ StopLock(c) \/ StopJoin(c)
        PROVE  FirstLife'
    BY <1>1, <2>4, <2>6, PublisherSteps, StopBeginStep, StopIocStep, StopLockStep, StopJoinStep
  <2>7. ASSUME NEW c \in Callers,
               \/ DtorBegin(c) \/ DtorPublisher(c) \/ DtorIoc(c) \/ DtorLock(c)
               \/ DtorJoin(c) \/ DtorMembers(c) \/ DtorFree(c)
        PROVE  FirstLife'
    BY <1>1, <2>4, <2>7, DtorQuietSteps, DtorLockStep, DtorJoinStep
  <2>8. ASSUME NEW w \in Workers,
               \/ \E s \in Sockets : Accept(w, s) \/ Subscribe(w, s) \/ Complete(w, s) \/ Disconnect(w, s)
               \/ AdaptStore(w) \/ AdaptLock(w) \/ AdaptGrow(w) \/ AdaptThrows(w)
               \/ HandlerBegin(w) \/ HandlerEnd(w) \/ WorkerExit(w)
        PROVE  FirstLife'
    BY <1>1, <2>4, <2>8, HandlerSteps, AdaptLockStep, AdaptGrowStep, AdaptThrowsStep
  <2>9. UNCHANGED vars \/ PublisherExit => FirstLife'
    BY <2>4, PublisherSteps
  <2> QED
    BY <2>5, <2>6, <2>7, <2>8, <2>9, LifecycleSteps
<1> QED
  BY <1>1, <1>2 DEF LInv

\* The invariant holds in every state of the life cycle.
LEMMA LifecycleInvariant == Spec => []LInv
  BY LifecycleInit, LifecycleNext, PTL DEF Spec

\* In every state of the first life the pool holds at most max_threads threads, whatever
\* Server::adapt_pool, start, stop and the destructor do at the same time; the types hold in
\* every state.
THEOREM LifecyclePool == Spec => [](TypeOK /\ (starts <= 1 => PoolInv))
<1>1. LInv => TypeOK /\ (starts <= 1 => PoolInv)
  BY DEF LInv, FirstLife, PoolInv
<1> QED
  BY <1>1, LifecycleInvariant, PTL

\* A server that reports STOPPED, or ERROR after a port could not be opened, has no open listener
\* and no pool thread, in every state of the first life.
THEOREM LifecycleQuiet == Spec => [](starts <= 1 => QuietWhenStopped)
<1>1. LInv => (starts <= 1 => QuietWhenStopped)
  BY DEF LInv, FirstLife
<1> QED
  BY <1>1, LifecycleInvariant, PTL

-----------------------------------------------------------------------------
(* Connections: the invariant, and counting leases                         *)

\* The inductive invariant of the pool of connections.
ConnInv == ConnTypeOK /\ LeasesMatch /\ PoolAccounting /\ NoLostWakeup

\* Sets of leases and sets of threads can be counted.
LEMMA PoolFinite ==
    /\ \A L \in SUBSET Leases : IsFiniteSet(L) /\ Cardinality(L) \in Nat
    /\ \A A \in SUBSET Borrowers : IsFiniteSet(A) /\ Cardinality(A) \in Nat
<1>1. IsFiniteSet({"own"} \cup {"nested"})
  <2>1. IsFiniteSet({"own"})
    BY FS_Singleton
  <2> QED
    BY <2>1, FS_AddElement
<1>2. IsFiniteSet({"own", "nested"})
  BY <1>1, {"own", "nested"} = {"own"} \cup {"nested"}
<1>3. IsFiniteSet(Leases)
  BY <1>2, FS_Product, PoolAssumption DEF Leases
<1>4. \A L \in SUBSET Leases : IsFiniteSet(L)
  BY <1>3, FS_Subset
<1>5. \A A \in SUBSET Borrowers : IsFiniteSet(A)
  BY PoolAssumption, FS_Subset
<1> QED
  BY <1>4, <1>5, FS_CardinalityType

\* The pool starts with nothing lent out and nobody waiting.
LEMMA ConnStart == ConnInit => ConnInv
<1> SUFFICES ASSUME ConnInit PROVE ConnInv
  OBVIOUS
<1>1. ConnTypeOK
  BY PoolAssumption DEF ConnInit, ConnTypeOK, Call, NTables
<1>2. LeasesMatch
  BY DEF ConnInit, LeasesMatch, LeasesOf, Nested, Holding, NTables
<1>3. PoolAccounting
  BY FS_EmptySet, PoolAssumption DEF ConnInit, PoolAccounting
<1>4. NoLostWakeup
  BY DEF ConnInit, NoLostWakeup, Waiting
<1> QED
  BY <1>1, <1>2, <1>3, <1>4 DEF ConnInv

\* A step of one thread that moves no connection keeps the invariant when the
\* thread keeps its leases, and either it does not stop being alert or the queue
\* is empty, and it begins to wait only on a fully built pool.
LEMMA StillStep ==
    ASSUME ConnInv, NEW t \in Borrowers, NEW c \in Call,
           call' = [call EXCEPT ![t] = c],
           UNCHANGED <<available, active, created, leases>>,
           tables' \in SUBSET (1..NTables),
           LeasesOf(t, c, leases),
           c.at = "wait" => call[t].at = "wait" \/ created = MaxConnections,
           call[t].at \in {"woken", "notify"} /\ c.at \notin {"woken", "notify"} =>
              available = 0,
           c.at = "wait" /\ call[t].at # "wait" => available = 0
    PROVE  ConnInv'
<1> USE DEF ConnInv
<1>1. /\ call' \in [Borrowers -> Call] /\ call'[t] = c
      /\ \A u \in Borrowers : u # t => call'[u] = call[u]
  BY DEF ConnTypeOK
<1>2. ConnTypeOK'
  BY <1>1 DEF ConnTypeOK
<1>3. LeasesMatch'
  <2> SUFFICES ASSUME NEW u \in Borrowers PROVE LeasesOf(u, call'[u], leases')
    BY DEF LeasesMatch
  <2>1. CASE u = t
    BY <1>1, <2>1 DEF LeasesMatch
  <2>2. CASE u # t
    BY <1>1, <2>2 DEF LeasesMatch
  <2> QED
    BY <2>1, <2>2
<1>4. PoolAccounting'
  BY DEF PoolAccounting
<1>5. NoLostWakeup'
  <2> SUFFICES ASSUME Waiting' # {}
               PROVE  created = MaxConnections /\ available <= Cardinality(Alert')
    BY DEF NoLostWakeup
  <2>0. available \in Nat /\ Cardinality(Alert') \in Nat /\ IsFiniteSet(Alert')
    BY <1>2, PoolFinite, Alert' \in SUBSET Borrowers DEF ConnTypeOK, Alert
  <2>1. PICK u \in Borrowers : call'[u].at = "wait"
    BY DEF Waiting
  <2>2. CASE call[u].at = "wait"
    <3>1. Waiting # {}
      BY <2>2 DEF Waiting
    <3>2. CASE available = 0
      BY <3>1, <3>2, <2>0 DEF NoLostWakeup
    <3>3. CASE available # 0
      <4>1. Alert \subseteq Alert'
        BY <1>1, <3>3 DEF Alert
      <4>2. Cardinality(Alert) <= Cardinality(Alert')
        BY <4>1, <2>0, FS_Subset
      <4> QED
        BY <3>1, <4>2, <2>0, PoolFinite, Alert \in SUBSET Borrowers DEF NoLostWakeup, Alert
    <3> QED
      BY <3>2, <3>3
  <2>3. CASE call[u].at # "wait"
    BY <2>0, <2>1, <2>3, <1>1
  <2> QED
    BY <2>2, <2>3
<1> QED
  BY <1>2, <1>3, <1>4, <1>5

\* Handing a connection out: the lease is a new one, and a thread that leaves the
\* woken ones takes a connection out of the queue with it.
LEMMA LendStep ==
    ASSUME ConnInv, NEW t \in Borrowers, Reuse(t) \/ Create(t)
    PROVE  ConnInv'
<1> USE DEF ConnInv
<1> DEFINE c == [call[t] EXCEPT !.at = "hold"]
<1>1. /\ call[t] \in Call /\ call[t].at \in {"acquire", "woken"}
      /\ call' = [call EXCEPT ![t] = c]
      /\ leases' = leases \cup {Lease(t)}
      /\ active' = active + 1
      /\ tables' = tables
  BY DEF ConnTypeOK, Reuse, Create, Checking
<1>2. c \in Call /\ c.at = "hold" /\ c.table = call[t].table
  BY <1>1 DEF Call
<1>3. /\ call' \in [Borrowers -> Call] /\ call'[t] = c
      /\ \A u \in Borrowers : u # t => call'[u] = call[u]
  BY <1>1, <1>2 DEF ConnTypeOK
<1>4. Lease(t) \in Leases /\ Lease(t) \notin leases
  BY <1>1 DEF Lease, Leases, LeasesMatch, LeasesOf, Nested, Holding
<1>5. /\ available' \in Nat /\ active' \in Nat /\ created' \in Nat
      /\ created' = active' + available' /\ created' <= MaxConnections
  BY PoolAssumption DEF Reuse, Create, ConnTypeOK, PoolAccounting
<1>6. ConnTypeOK'
  BY <1>1, <1>3, <1>4, <1>5 DEF ConnTypeOK
<1>7. LeasesMatch'
  <2> SUFFICES ASSUME NEW u \in Borrowers PROVE LeasesOf(u, call'[u], leases')
    BY DEF LeasesMatch
  <2>1. CASE u = t
    BY <1>1, <1>2, <1>3, <2>1 DEF LeasesMatch, LeasesOf, Lease, Nested, Holding
  <2>2. CASE u # t
    BY <1>1, <1>3, <2>2 DEF LeasesMatch, LeasesOf, Lease
  <2> QED
    BY <2>1, <2>2
<1>8. PoolAccounting'
  <2>1. Cardinality(leases') = Cardinality(leases) + 1
    BY <1>1, <1>4, PoolFinite, FS_AddElement DEF ConnTypeOK
  <2> QED
    BY <2>1, <1>1, <1>5 DEF PoolAccounting
<1>9. NoLostWakeup'
  <2> SUFFICES ASSUME Waiting' # {}
               PROVE  created' = MaxConnections /\ available' <= Cardinality(Alert')
    BY DEF NoLostWakeup
  <2>1. Waiting # {} /\ Alert' = Alert \ {t}
    BY <1>1, <1>2, <1>3 DEF Waiting, Alert
  <2>2. created = MaxConnections /\ available <= Cardinality(Alert)
    BY <2>1 DEF NoLostWakeup
  <2>3. Cardinality(Alert) \in Nat /\ Cardinality(Alert') \in Nat
        /\ Cardinality(Alert') >= Cardinality(Alert) - 1
    <3>1. IsFiniteSet(Alert) /\ Cardinality(Alert) \in Nat
      BY PoolFinite, Alert \in SUBSET Borrowers DEF Alert
    <3>2. Cardinality(Alert') \in Nat
      BY PoolFinite, Alert' \in SUBSET Borrowers DEF Alert
    <3>3. Cardinality(Alert \ {t}) =
             IF t \in Alert THEN Cardinality(Alert) - 1 ELSE Cardinality(Alert)
      BY <3>1, FS_RemoveElement
    <3> QED
      BY <2>1, <3>1, <3>2, <3>3
  <2>4. Reuse(t)
    BY <2>2, PoolAssumption DEF Reuse, Create, PoolAccounting, ConnTypeOK
  <2> QED
    BY <2>2, <2>3, <2>4 DEF Reuse, ConnTypeOK
<1> QED
  BY <1>6, <1>7, <1>8, <1>9

\* Taking a connection back: the lease is there, the queue has room for it, and the
\* thread owes a notification from now on.
LEMMA ReturnStep ==
    ASSUME ConnInv, NEW t \in Borrowers, ReturnConnection(t)
    PROVE  ConnInv'
<1> USE DEF ConnInv
<1> DEFINE c == [call[t] EXCEPT !.at = "notify"]
<1>1. /\ call[t] \in Call /\ call[t].at = "release"
      /\ call' = [call EXCEPT ![t] = c]
      /\ leases' = leases \ {Lease(t)}
      /\ tables' = tables /\ created' = created
  BY DEF ConnTypeOK, ReturnConnection
<1>2. c \in Call /\ c.at = "notify" /\ c.table = call[t].table
  BY <1>1 DEF Call
<1>3. /\ call' \in [Borrowers -> Call] /\ call'[t] = c
      /\ \A u \in Borrowers : u # t => call'[u] = call[u]
  BY <1>1, <1>2 DEF ConnTypeOK
<1>4. Lease(t) \in leases
  BY <1>1 DEF Lease, LeasesMatch, LeasesOf, Nested, Holding
<1>5. Cardinality(leases) \in Nat /\ Cardinality(leases) > 0
      /\ Cardinality(leases') = Cardinality(leases) - 1
  <2>1. IsFiniteSet(leases) /\ Cardinality(leases) \in Nat
    BY PoolFinite DEF ConnTypeOK
  <2>2. Cardinality(leases') = Cardinality(leases) - 1
    BY <1>1, <1>4, <2>1, FS_RemoveElement
  <2>3. Cardinality(leases) # 0
    BY <1>4, <2>1, FS_EmptySet
  <2> QED
    BY <2>1, <2>2, <2>3
<1>6. active' = active - 1 /\ available' = available + 1
  BY <1>5, PoolAssumption DEF ReturnConnection, PoolAccounting, ConnTypeOK
<1>7. ConnTypeOK'
  BY <1>1, <1>3, <1>5, <1>6 DEF ConnTypeOK, PoolAccounting
<1>8. PoolAccounting'
  BY <1>1, <1>5, <1>6 DEF PoolAccounting, ConnTypeOK
<1>9. LeasesMatch'
  <2> SUFFICES ASSUME NEW u \in Borrowers PROVE LeasesOf(u, call'[u], leases')
    BY DEF LeasesMatch
  <2>1. CASE u = t
    BY <1>1, <1>2, <1>3, <2>1 DEF LeasesMatch, LeasesOf, Lease, Nested, Holding
  <2>2. CASE u # t
    BY <1>1, <1>3, <2>2 DEF LeasesMatch, LeasesOf, Lease
  <2> QED
    BY <2>1, <2>2
<1>10. NoLostWakeup'
  <2> SUFFICES ASSUME Waiting' # {}
               PROVE  created = MaxConnections /\ available' <= Cardinality(Alert')
    BY <1>1 DEF NoLostWakeup
  <2>1. Waiting # {} /\ Alert' = Alert \cup {t} /\ t \notin Alert
    BY <1>1, <1>2, <1>3 DEF Waiting, Alert
  <2>2. IsFiniteSet(Alert) /\ Cardinality(Alert) \in Nat
    BY PoolFinite, Alert \in SUBSET Borrowers DEF Alert
  <2>3. Cardinality(Alert') = Cardinality(Alert) + 1
    BY <2>1, <2>2, FS_AddElement
  <2> QED
    BY <1>6, <2>1, <2>2, <2>3 DEF NoLostWakeup, ConnTypeOK
<1> QED
  BY <1>7, <1>8, <1>9, <1>10

\* A thread that is through with a connection it no longer, or never, held turns to
\* a place with the same leases.
LEMMA AfterCallLeases ==
    ASSUME NEW t \in Borrowers, NEW c \in Call, NEW ok \in BOOLEAN, NEW L,
           LeasesOf(t, c, L), ~Holding(c)
    PROVE  LET d == AfterCall(c, ok)
           IN  /\ d \in Call /\ d.at \in {"acquire", "release", "idle"}
               /\ LeasesOf(t, d, L)
<1> DEFINE d == AfterCall(c, ok)
<1>1. CASE Nested(c)
  <2>1. d = [at |-> IF c.table < NTables THEN "acquire" ELSE "release",
             job |-> c.job, table |-> c.table + 1, late |-> FALSE, ok |-> c.ok]
    BY <1>1 DEF AfterCall, Advance
  <2>2. /\ d \in Call
        /\ d.at = IF c.table < NTables THEN "acquire" ELSE "release"
        /\ d.table = c.table + 1
    BY <1>1, <2>1 DEF Call, NTables, Nested
  <2> HIDE DEF d
  <2>3. LeasesOf(t, d, L)
    BY <1>1, <2>2 DEF LeasesOf, Nested, Holding, NTables, Call
  <2> QED
    BY <2>2, <2>3 DEF d
<1>2. CASE ~Nested(c)
  <2>1. d = [at |-> "idle", job |-> c.job, table |-> 0, late |-> FALSE, ok |-> ok]
    BY <1>2 DEF AfterCall
  <2>2. d \in Call /\ d.at = "idle" /\ d.table = 0
    BY <2>1 DEF Call, NTables
  <2> HIDE DEF d
  <2>3. LeasesOf(t, d, L)
    BY <1>2, <2>2 DEF LeasesOf, Nested, Holding, NTables
  <2> QED
    BY <2>2, <2>3 DEF d
<1> QED
  BY <1>1, <1>2

\* notify_one: the thread that owed the notification hands its place among the
\* alert ones to the thread it wakes.
LEMMA NotifyStep ==
    ASSUME ConnInv, NEW t \in Borrowers, NotifyOne(t)
    PROVE  ConnInv'
<1> USE DEF ConnInv
<1> DEFINE c == AfterCall(call[t], call[t].ok)
<1>1. call[t] \in Call /\ call[t].at = "notify" /\ UNCHANGED <<available, active, created, leases, tables>>
  BY DEF ConnTypeOK, NotifyOne
<1>2. c \in Call /\ c.at \in {"acquire", "release", "idle"} /\ LeasesOf(t, c, leases)
  <2>1. LeasesOf(t, call[t], leases) /\ call[t].ok \in BOOLEAN /\ ~Holding(call[t])
    BY <1>1 DEF LeasesMatch, Call, Holding
  <2> QED
    BY <1>1, <2>1, AfterCallLeases
<1> HIDE DEF c
<1>3. CASE Waiting = {}
  <2>1. call' = [call EXCEPT ![t] = c]
    BY <1>3 DEF NotifyOne, c
  <2>2. /\ call' \in [Borrowers -> Call] /\ call'[t] = c
        /\ \A u \in Borrowers : u # t => call'[u] = call[u]
    BY <1>2, <2>1 DEF ConnTypeOK
  <2>3. ConnTypeOK' /\ PoolAccounting'
    BY <1>1, <2>2 DEF ConnTypeOK, PoolAccounting
  <2>4. LeasesMatch'
    BY <1>1, <1>2, <2>2 DEF LeasesMatch
  <2>5. NoLostWakeup'
    BY <1>2, <1>3, <2>2 DEF NoLostWakeup, Waiting
  <2> QED
    BY <2>3, <2>4, <2>5
<1>4. CASE Waiting # {}
  <2>1. PICK v \in Waiting : call' = [call EXCEPT ![t] = AfterCall(@, call[t].ok), ![v].at = "woken"]
    BY <1>4 DEF NotifyOne
  <2>2. v \in Borrowers /\ v # t /\ call[v] \in Call /\ call[v].at = "wait"
    BY <1>1 DEF Waiting, ConnTypeOK
  <2> DEFINE w == [call[v] EXCEPT !.at = "woken"]
  <2>3. w \in Call /\ w.at = "woken" /\ w.table = call[v].table
    BY <2>2 DEF Call
  <2>4. /\ call' \in [Borrowers -> Call] /\ call'[t] = c /\ call'[v] = w
        /\ \A u \in Borrowers : u # t /\ u # v => call'[u] = call[u]
    BY <1>2, <2>1, <2>2, <2>3 DEF ConnTypeOK, c
  <2>5. ConnTypeOK' /\ PoolAccounting'
    BY <1>1, <2>4 DEF ConnTypeOK, PoolAccounting
  <2>6. LeasesMatch'
    <3> SUFFICES ASSUME NEW u \in Borrowers PROVE LeasesOf(u, call'[u], leases')
      BY DEF LeasesMatch
    <3>1. CASE u = t
      BY <1>1, <1>2, <2>4, <3>1 DEF LeasesMatch
    <3>2. CASE u = v
      BY <1>1, <2>2, <2>3, <2>4, <3>2 DEF LeasesMatch, LeasesOf, Nested, Holding
    <3>3. CASE u # t /\ u # v
      BY <1>1, <2>4, <3>3 DEF LeasesMatch
    <3> QED
      BY <3>1, <3>2, <3>3
  <2>7. NoLostWakeup'
    <3>1. Alert' = (Alert \ {t}) \cup {v} /\ t \in Alert /\ v \notin Alert
      BY <1>1, <1>2, <2>2, <2>3, <2>4 DEF Alert
    <3>2. IsFiniteSet(Alert) /\ Cardinality(Alert) \in Nat
      BY PoolFinite, Alert \in SUBSET Borrowers DEF Alert
    <3>3. IsFiniteSet(Alert \ {t}) /\ Cardinality(Alert \ {t}) = Cardinality(Alert) - 1
      BY <3>1, <3>2, FS_RemoveElement
    <3>4. Cardinality(Alert') = Cardinality(Alert)
      <4>1. v \notin Alert \ {t}
        BY <3>1
      <4>2. Cardinality((Alert \ {t}) \cup {v}) = Cardinality(Alert \ {t}) + 1
        BY <3>3, <4>1, FS_AddElement
      <4> QED
        BY <3>1, <3>2, <3>3, <4>2
    <3> QED
      BY <1>1, <1>4, <3>4 DEF NoLostWakeup
  <2> QED
    BY <2>5, <2>6, <2>7
<1> QED
  BY <1>3, <1>4

\* Every step of the pool preserves the invariant.
LEMMA ConnStep == ConnInv /\ [ConnNext]_conn_vars => ConnInv'
<1> SUFFICES ASSUME ConnInv, [ConnNext]_conn_vars PROVE ConnInv'
  OBVIOUS
<1>1. CASE UNCHANGED conn_vars
  BY <1>1 DEF ConnInv, conn_vars, ConnTypeOK, LeasesMatch, PoolAccounting, NoLostWakeup, Waiting, Alert
<1>2. ASSUME NEW t \in Borrowers, Step(t) PROVE ConnInv'
  <2>1. call[t] \in Call /\ tables \in SUBSET (1..NTables)
    BY DEF ConnInv, ConnTypeOK
  <2>2. LeasesOf(t, call[t], leases)
    BY DEF ConnInv, LeasesMatch
  <2>3. ASSUME NEW kind \in {"query", "init"}, Begin(t, kind) PROVE ConnInv'
    <3> DEFINE c == [at |-> "acquire", job |-> kind, table |-> 0, late |-> FALSE, ok |-> TRUE]
    <3>1. c \in Call
      BY DEF Call, NTables
    <3>2. call[t].at = "idle" /\ call' = [call EXCEPT ![t] = c]
          /\ UNCHANGED <<available, active, created, leases, tables>>
      BY <2>3 DEF Begin
    <3> HIDE DEF c
    <3>3. c.at = "acquire" /\ c.table = 0
      BY DEF c
    <3>4. LeasesOf(t, c, leases)
      BY <2>2, <3>2, <3>3 DEF LeasesOf, Nested, Holding, NTables
    <3> QED
      BY <2>1, <3>1, <3>2, <3>3, <3>4, StillStep
  <2>4. CASE Wait(t)
    <3> DEFINE c == [call[t] EXCEPT !.at = "wait"]
    <3>1. c \in Call /\ c.at = "wait" /\ c.table = call[t].table
      BY <2>1 DEF Call
    <3>2. call[t].at \in {"acquire", "woken"} /\ call' = [call EXCEPT ![t] = c]
          /\ UNCHANGED <<available, active, created, leases, tables>>
      BY <2>4 DEF Wait, Checking
    <3>3. available = 0 /\ created = MaxConnections
      BY <2>4, PoolAssumption DEF Wait, CanServe, ConnInv, PoolAccounting, ConnTypeOK
    <3>4. LeasesOf(t, c, leases)
      BY <2>2, <3>1, <3>2 DEF LeasesOf, Nested, Holding
    <3> HIDE DEF c
    <3> QED
      BY <2>1, <3>1, <3>2, <3>3, <3>4, StillStep
  <2>5. CASE Deadline(t)
    <3> DEFINE c == [call[t] EXCEPT !.late = TRUE, !.at = IF @ = "wait" THEN "woken" ELSE @]
    <3>1. c \in Call /\ c.table = call[t].table
          /\ c.at = IF call[t].at = "wait" THEN "woken" ELSE call[t].at
      BY <2>1 DEF Call
    <3>2. call[t].at \in {"acquire", "wait", "woken"} /\ call' = [call EXCEPT ![t] = c]
          /\ UNCHANGED <<available, active, created, leases, tables>>
      BY <2>5 DEF Deadline
    <3>3. LeasesOf(t, c, leases)
      BY <2>2, <3>1, <3>2 DEF LeasesOf, Nested, Holding
    <3> HIDE DEF c
    <3> QED
      BY <2>1, <3>1, <3>2, <3>3, StillStep
  <2>6. CASE Spurious(t)
    <3> DEFINE c == [call[t] EXCEPT !.at = "woken"]
    <3>1. c \in Call /\ c.at = "woken" /\ c.table = call[t].table
      BY <2>1 DEF Call
    <3>2. call[t].at = "wait" /\ call' = [call EXCEPT ![t] = c]
          /\ UNCHANGED <<available, active, created, leases, tables>>
      BY <2>6 DEF Spurious
    <3>3. LeasesOf(t, c, leases)
      BY <2>2, <3>1, <3>2 DEF LeasesOf, Nested, Holding
    <3> HIDE DEF c
    <3> QED
      BY <2>1, <3>1, <3>2, <3>3, StillStep
  <2>7. CASE CreateFails(t) \/ PoolExhausted(t)
    <3> DEFINE c == AfterCall(call[t], FALSE)
    <3>1. /\ call[t].at \in {"acquire", "woken"} /\ call' = [call EXCEPT ![t] = c]
          /\ available = 0
          /\ UNCHANGED <<available, active, created, leases, tables>>
      <4>1. /\ Checking(t) /\ (available = 0 \/ ~CanServe)
            /\ call' = [call EXCEPT ![t] = c]
            /\ UNCHANGED <<available, active, created, leases, tables>>
        BY <2>7, Zenon DEF CreateFails, PoolExhausted
      <4>2. available \in Nat
        BY DEF ConnInv, ConnTypeOK
      <4> QED
        BY <4>1, <4>2 DEF Checking, CanServe
    <3>2. ~Holding(call[t])
      BY <3>1 DEF Holding
    <3>3. c \in Call /\ c.at \in {"acquire", "release", "idle"} /\ LeasesOf(t, c, leases)
      BY <2>1, <2>2, <3>2, AfterCallLeases
    <3> HIDE DEF c
    <3> QED
      BY <2>1, <3>1, <3>3, StillStep
  <2>8. CASE RunQuery(t) \/ EnsureTable(t)
    <3> DEFINE c == [call[t] EXCEPT !.at = "release"]
    <3>1. c \in Call /\ c.at = "release" /\ c.table = call[t].table
      BY <2>1 DEF Call
    <3>2. call[t].at = "hold" /\ call' = [call EXCEPT ![t] = c]
          /\ UNCHANGED <<available, active, created, leases>>
          /\ tables' \in SUBSET (1..NTables)
      <4>1. /\ call[t].at = "hold" /\ call' = [call EXCEPT ![t].at = "release"]
            /\ UNCHANGED <<available, active, created, leases>>
            /\ tables' = tables \/ (Nested(call[t]) /\ tables' = tables \cup {call[t].table})
        BY <2>8, Zenon DEF RunQuery, EnsureTable
      <4> QED
        BY <2>1, <4>1 DEF Nested
    <3>3. LeasesOf(t, c, leases)
      BY <2>2, <3>1, <3>2 DEF LeasesOf, Nested, Holding
    <3> HIDE DEF c
    <3> QED
      BY <2>1, <3>1, <3>2, <3>3, StillStep
  <2>9. CASE WriteMetadata(t)
    <3>1. call[t].at = "hold" /\ call[t].table = 0
          /\ UNCHANGED <<available, active, created, leases, tables>>
      BY <2>9 DEF WriteMetadata
    <3>2. PICK c \in Call :
             /\ call' = [call EXCEPT ![t] = c]
             /\ \/ c.at = "acquire" /\ c.table = 1
                \/ c.at = "release" /\ c.table = NTables + 1
      <4>1. Advance(call[t]) \in Call /\ Advance(call[t]).at = "acquire"
            /\ Advance(call[t]).table = 1
        BY <2>1, <3>1 DEF Call, NTables, Advance
      <4> DEFINE lost == [at |-> "release", job |-> "init", table |-> NTables + 1,
                            late |-> FALSE, ok |-> FALSE]
      <4>2. lost \in Call /\ lost.at = "release" /\ lost.table = NTables + 1
        BY DEF Call, NTables
      <4>3. \/ call' = [call EXCEPT ![t] = Advance(call[t])]
            \/ call' = [call EXCEPT ![t] = lost]
        BY <2>9 DEF WriteMetadata
      <4> HIDE DEF lost
      <4> QED
        BY <4>1, <4>2, <4>3
    <3>3. LeasesOf(t, c, leases)
      BY <2>2, <3>1, <3>2 DEF LeasesOf, Nested, Holding, NTables
    <3> QED
      BY <2>1, <3>1, <3>2, <3>3, StillStep
  <2> QED
    BY <1>2, <2>3, <2>4, <2>5, <2>6, <2>7, <2>8, <2>9, LendStep, ReturnStep, NotifyStep
    DEF Step, Acquiring, Using, Returning
<1> QED
  BY <1>1, <1>2 DEF ConnNext

\* Every reachable state satisfies the strengthened invariant, for any threads and
\* any pool size.
THEOREM PoolInvariant == ConnSpec => []ConnInv
<1> QED
  BY ConnStart, ConnStep, PTL DEF ConnSpec

\* ConnectionPool loses and invents no connection and never opens more than
\* max_connections_.
THEOREM PoolAccounts == ConnSpec => []PoolAccounting
<1>1. ConnInv => PoolAccounting
  BY DEF ConnInv
<1> QED
  BY <1>1, PoolInvariant, PTL

\* return_connection's notify_one, made after the mutex is released, never leaves a
\* waiter of acquire behind with a connection in the queue that nobody is after.
THEOREM PoolWakesWaiters == ConnSpec => []NoLostWakeup
<1>1. ConnInv => NoLostWakeup
  BY DEF ConnInv
<1> QED
  BY <1>1, PoolInvariant, PTL

-----------------------------------------------------------------------------
(* Counters: the invariant                                                 *)

\* The steps of record_request up to each of its fetch_adds, and all of them.
ToTotal == Before \cup Zeroing \cup {"total"}
ToInterval == ToTotal \cup {"interval"}
ToTotalErr == ToInterval \cup {"total_err"}
ToIntervalErr == ToTotalErr \cup {"interval_err"}
Recording == Before \cup Zeroing \cup Adding

\* The requests of a tenant that are past these steps.
Past(x, steps) == begun[x] \ InFlight(x, steps)

\* The counters and sums without their bounds, which follow from what they count.
CounterRecord ==
    [requests_in_interval : Nat, errors_in_interval : Nat,
     total_requests : Nat, total_errors : Nat, avg_response_ms : SUBSET Requests,
     interval_start : 0..MaxTime, interval_duration : (Minutes \cup {1, DefaultMinutes}) \ {0}]

SumRecord == [requests_in_interval : Nat, errors_in_interval : Nat,
              total_requests : Nat, total_errors : Nat]

Recorder == [at : Recording, tenant : Tenants, n : Requests, err : BOOLEAN,
             clock : 0..MaxTime, start : 0..MaxTime, old : SUBSET Requests]
Setter == [at : {"set_find", "set_create", "set"}, tenant : Tenants, minutes : Minutes]
Loader == [at : Loads, of : Tenants, left : SUBSET Tenants, sums : SumRecord]
Reporter == [at : {"report"}, sums : SumRecord]

AnyJob == {Idle} \cup Recorder \cup Setter \cup Loader \cup Reporter

\* The types.
Typed ==
    /\ m_tenants \subseteq Tenants
    /\ tc \in [Tenants -> CounterRecord]
    /\ now \in 0..MaxTime
    /\ job \in [Threads -> AnyJob]
    /\ begun \in [Tenants -> SUBSET Requests]
    /\ failed \subseteq Requests
    /\ since \in [Tenants -> [requests : Nat, errors : Nat]]
    /\ reads \in 0..MaxReads

\* Requests have numbers of their own, given out in order.
Everyone == UNION {begun[y] : y \in Tenants}

Numbered ==
    /\ \E N \in 0..MaxRecords : Everyone = 1..N
    /\ failed \subseteq Everyone
    /\ \A x, y \in Tenants : x # y => begun[x] \cap begun[y] = {}
    /\ \A t, u \in Threads :
          t # u /\ job[t].at \in Recording /\ job[u].at \in Recording => job[t].n # job[u].n

\* What a thread that records knows of its request.
Known(t) ==
    job[t].at \in Recording =>
       /\ job[t].n \in begun[job[t].tenant]
       /\ job[t].n \in failed <=> job[t].err
       /\ job[t].at \in {"total_err", "interval_err"} => job[t].err
       /\ job[t].at \notin {"find", "create"} => job[t].tenant \in m_tenants

\* What the counters of a tenant count.
Counted(x) ==
    /\ tc[x].total_requests = Cardinality(Past(x, ToTotal))
    /\ tc[x].total_errors = Cardinality(Past(x, ToTotalErr) \cap failed)
    /\ tc[x].requests_in_interval <= Cardinality(Past(x, ToInterval))
    /\ tc[x].errors_in_interval <= Cardinality(Past(x, ToIntervalErr) \cap failed)
    /\ since[x].requests <= Cardinality(Past(x, ToInterval))
    /\ since[x].errors <= Cardinality(Past(x, ToIntervalErr) \cap failed)
    /\ tc[x].avg_response_ms = Past(x, Recording)

\* A tenant nobody has counted for has no counts.
Blank(x) ==
    x \notin m_tenants =>
       /\ tc[x].requests_in_interval = 0 /\ tc[x].errors_in_interval = 0
       /\ tc[x].total_requests = 0 /\ tc[x].total_errors = 0
       /\ tc[x].avg_response_ms = {}

\* The counters of an interval are its own, or a thread is still to zero them.
Zeroer(x, steps) == \E u \in Threads : job[u].at \in steps /\ job[u].tenant = x

Zeroed(x) ==
    /\ Zeroer(x, {"zero_requests"}) \/ tc[x].requests_in_interval <= since[x].requests
    /\ Zeroer(x, Zeroing) \/ tc[x].errors_in_interval <= since[x].errors

\* The requests of some tenants, by number.
Requested(X) == Cardinality(UNION {begun[y] : y \in X})

\* The totals of a report keep within the requests of the tenants it is done with.  What
\* it has loaded of the interval keeps within the totals, as far as they are loaded, with
\* those of the tenant it is at, which only grow until it comes to load them.
Summed(j) ==
    LET sum   == j.sums
        after == Requested(Tenants \ j.left)
        rest  == Requested(Tenants \ (j.left \cup {j.of}))
        here  == tc[j.of]
    IN  /\ j.at \in Loads => j.left \subseteq m_tenants
        /\ j.at \in Loads \ {"load"} => j.of \in m_tenants /\ j.of \notin j.left
        /\ j.at = "load" =>
             /\ sum.requests_in_interval <= sum.total_requests /\ sum.total_requests <= after
             /\ sum.errors_in_interval <= sum.total_errors /\ sum.total_errors <= after
        /\ j.at \in {"load_errors", "load_total"} =>
             /\ sum.requests_in_interval <= sum.total_requests + here.total_requests
             /\ sum.total_requests <= rest
        /\ j.at = "load_errors" =>
             sum.errors_in_interval <= sum.total_errors /\ sum.total_errors <= rest
        /\ j.at \in {"load_total", "load_total_errors"} =>
             /\ sum.errors_in_interval <= sum.total_errors + here.total_errors
             /\ sum.total_errors <= rest
        /\ j.at = "load_total_errors" =>
             sum.requests_in_interval <= sum.total_requests /\ sum.total_requests <= after
        /\ j.at = "report" =>
             /\ sum.requests_in_interval <= sum.total_requests
             /\ sum.errors_in_interval <= sum.total_errors
             /\ sum.total_requests <= MaxRecords /\ sum.total_errors <= MaxRecords

\* The inductive invariant of the counters.
MInv ==
    /\ Typed /\ Numbered
    /\ \A t \in Threads : Known(t) /\ Summed(job[t])
    /\ \A x \in Tenants : Counted(x) /\ Blank(x) /\ Zeroed(x)

-----------------------------------------------------------------------------
(* Sets of requests                                                        *)

\* Only t's job changes.
Same(t) == \A u \in Threads : u # t => job'[u] = job[u]

\* A request that stays before the steps, or past them, or has none.
LEMMA FlightSame ==
    ASSUME NEW t \in Threads, Same(t), NEW S, NEW x,
           job'[t].at \in S <=> job[t].at \in S,
           job[t].at \in S => job'[t].n = job[t].n /\ job'[t].tenant = job[t].tenant
    PROVE  InFlight(x, S)' = InFlight(x, S)
<1> DEFINE B == {u \in Threads : job[u].at \in S /\ job[u].tenant = x}
           A == {u \in Threads : job'[u].at \in S /\ job'[u].tenant = x}
<1>1. \A u \in Threads : (u \in A <=> u \in B) /\ (u \in B => job'[u].n = job[u].n)
  BY DEF Same
<1>2. A = B /\ \A u \in B : job'[u].n = job[u].n
  BY <1>1
<1>3. InFlight(x, S)' = {job'[u].n : u \in A} /\ InFlight(x, S) = {job[u].n : u \in B}
  BY DEF InFlight
<1> HIDE DEF A, B
<1> QED
  BY <1>2, <1>3

\* A request that passes the steps is the only one that does.
LEMMA FlightLeaves ==
    ASSUME Numbered, NEW t \in Threads, Same(t), NEW S \in SUBSET Recording, NEW x,
           job[t].at \in S, job'[t].at \notin S
    PROVE  InFlight(x, S)' = IF x = job[t].tenant THEN InFlight(x, S) \ {job[t].n}
                             ELSE InFlight(x, S)
<1> DEFINE B == {u \in Threads : job[u].at \in S /\ job[u].tenant = x}
           A == {u \in Threads : job'[u].at \in S /\ job'[u].tenant = x}
<1>1. A = B \ {t} /\ \A u \in A : job'[u].n = job[u].n
  BY DEF Same
<1>2. t \in B <=> x = job[t].tenant
  OBVIOUS
<1>3. \A u \in A : job[u].n # job[t].n
  BY DEF Numbered, Same
<1>4. InFlight(x, S)' = {job'[u].n : u \in A} /\ InFlight(x, S) = {job[u].n : u \in B}
  BY DEF InFlight
<1>5. InFlight(x, S)' = {job[u].n : u \in A}
  BY <1>1, <1>4
<1> HIDE DEF A, B
<1> QED
  BY <1>1, <1>2, <1>3, <1>4, <1>5

\* A new request joins those before the steps.
LEMMA FlightJoins ==
    ASSUME NEW t \in Threads, Same(t), NEW S, NEW x, job[t].at \notin S, job'[t].at \in S
    PROVE  InFlight(x, S)' = IF x = job'[t].tenant THEN InFlight(x, S) \cup {job'[t].n}
                             ELSE InFlight(x, S)
<1> DEFINE B == {u \in Threads : job[u].at \in S /\ job[u].tenant = x}
           A == {u \in Threads : job'[u].at \in S /\ job'[u].tenant = x}
<1>1. A = IF x = job'[t].tenant THEN B \cup {t} ELSE B
  BY DEF Same
<1>2. \A u \in B : job'[u].n = job[u].n
  BY DEF Same
<1>3. InFlight(x, S)' = {job'[u].n : u \in A} /\ InFlight(x, S) = {job[u].n : u \in B}
  BY DEF InFlight
<1> HIDE DEF A, B
<1> QED
  BY <1>1, <1>2, <1>3

\* More steps, fewer requests past them.
LEMMA PastShrinks ==
    ASSUME NEW x, NEW S, NEW T, S \subseteq T
    PROVE  Past(x, T) \subseteq Past(x, S)
  BY DEF Past, InFlight

\* Sets of requests are finite and within the bound.
LEMMA RequestSets ==
    ASSUME NEW A, A \subseteq Requests
    PROVE  IsFiniteSet(A) /\ Cardinality(A) \in Nat /\ Cardinality(A) <= MaxRecords
<1>1. MaxRecords \in Nat
  BY MetricsAssumption
<1>2. IsFiniteSet(Requests) /\ Cardinality(Requests) = MaxRecords
  <2>1. 1 \in Int /\ MaxRecords \in Int
    BY <1>1
  <2>2. IsFiniteSet(1..MaxRecords)
        /\ Cardinality(1..MaxRecords) = IF 1 > MaxRecords THEN 0 ELSE MaxRecords - 1 + 1
    BY <2>1, FS_Interval, Zenon
  <2> QED
    BY <1>1, <2>2 DEF Requests
<1> QED
  BY <1>2, FS_Subset, FS_CardinalityType

\* A set within another has no more requests.
LEMMA FewerRequests ==
    ASSUME NEW A, NEW B, A \subseteq B, B \subseteq Requests
    PROVE  Cardinality(A) <= Cardinality(B)
<1>1. IsFiniteSet(B)
  BY RequestSets
<1> QED
  BY <1>1, FS_Subset

\* One more request.
LEMMA OneMore ==
    ASSUME NEW A, A \subseteq Requests, NEW n, n \notin A
    PROVE  Cardinality(A \cup {n}) = Cardinality(A) + 1
<1>1. IsFiniteSet(A)
  BY RequestSets
<1> QED
  BY <1>1, FS_AddElement

\* The requests of different tenants add up.
LEMMA RequestedAdds ==
    ASSUME Typed, Numbered, NEW X, X \subseteq Tenants, NEW x \in Tenants, x \notin X
    PROVE  Requested(X \cup {x}) = Requested(X) + Cardinality(begun[x])
<1> DEFINE A == UNION {begun[y] : y \in X}
<1>1. A \subseteq Requests /\ begun[x] \subseteq Requests
  BY DEF Typed
<1>2. IsFiniteSet(A) /\ IsFiniteSet(begun[x])
  BY <1>1, RequestSets
<1>3. A \cap begun[x] = {}
  BY DEF Numbered
<1>4. UNION {begun[y] : y \in X \cup {x}} = A \cup begun[x]
  OBVIOUS
<1> HIDE DEF A
<1>5. Cardinality(A \cup begun[x]) = Cardinality(A) + Cardinality(begun[x]) - Cardinality(A \cap begun[x])
  BY <1>2, FS_Union
<1>6. Cardinality(A \cap begun[x]) = 0
  BY <1>3, FS_EmptySet
<1>7. Cardinality(A) \in Nat /\ Cardinality(begun[x]) \in Nat
  BY <1>1, RequestSets
<1>8. Requested(X \cup {x}) = Cardinality(A \cup begun[x])
  BY <1>4, Zenon DEF Requested
<1>9. Requested(X) = Cardinality(A)
  BY Zenon DEF Requested, A
<1> QED
  BY <1>5, <1>6, <1>7, <1>8, <1>9

\* All requests are within the bound.
LEMMA RequestedBound ==
    ASSUME Typed, NEW X, X \subseteq Tenants
    PROVE  Requested(X) \in Nat /\ Requested(X) <= MaxRecords
<1>1. UNION {begun[y] : y \in X} \subseteq Requests
  BY DEF Typed
<1> QED
  BY <1>1, RequestSets DEF Requested

\* What a counter of the interval counts, the total counts too.
LEMMA TotalsCover ==
    ASSUME Typed, NEW x \in Tenants, Counted(x)
    PROVE  /\ tc[x].requests_in_interval <= tc[x].total_requests
           /\ tc[x].errors_in_interval <= tc[x].total_errors
           /\ tc[x].total_requests <= Cardinality(begun[x])
           /\ tc[x].total_errors <= Cardinality(begun[x])
           /\ Cardinality(begun[x]) \in Nat /\ Cardinality(begun[x]) <= MaxRecords
           /\ since[x].requests <= MaxRecords /\ since[x].errors <= MaxRecords
           /\ tc[x].requests_in_interval \in Nat /\ tc[x].errors_in_interval \in Nat
           /\ tc[x].total_requests \in Nat /\ tc[x].total_errors \in Nat
<1>1. /\ Past(x, ToInterval) \subseteq Past(x, ToTotal)
      /\ Past(x, ToIntervalErr) \cap failed \subseteq Past(x, ToTotalErr) \cap failed
  <2>1. ToTotal \subseteq ToInterval /\ ToTotalErr \subseteq ToIntervalErr
    BY DEF ToInterval, ToIntervalErr
  <2> QED
    BY <2>1, PastShrinks
<1>2. /\ \A S : Past(x, S) \subseteq begun[x]
      /\ begun[x] \subseteq Requests
  BY DEF Past, Typed
<1>3. /\ Cardinality(Past(x, ToInterval)) <= Cardinality(Past(x, ToTotal))
      /\ Cardinality(Past(x, ToIntervalErr) \cap failed) <= Cardinality(Past(x, ToTotalErr) \cap failed)
  <2>1. Past(x, ToTotal) \subseteq Requests /\ Past(x, ToTotalErr) \cap failed \subseteq Requests
    BY <1>2
  <2> QED
    BY <1>1, <2>1, FewerRequests
<1>4. /\ Cardinality(Past(x, ToTotal)) <= Cardinality(begun[x])
      /\ Cardinality(Past(x, ToTotalErr) \cap failed) <= Cardinality(begun[x])
  <2>1. Past(x, ToTotal) \subseteq begun[x] /\ Past(x, ToTotalErr) \cap failed \subseteq begun[x]
    BY <1>2
  <2> QED
    BY <1>2, <2>1, FewerRequests
<1>5. Cardinality(begun[x]) \in Nat /\ Cardinality(begun[x]) <= MaxRecords
  BY <1>2, RequestSets
<1>6. /\ Cardinality(Past(x, ToInterval)) \in Nat
      /\ Cardinality(Past(x, ToIntervalErr) \cap failed) \in Nat
      /\ Cardinality(Past(x, ToTotal)) \in Nat /\ Cardinality(Past(x, ToTotalErr) \cap failed) \in Nat
  <2>1. /\ Past(x, ToInterval) \subseteq Requests /\ Past(x, ToIntervalErr) \cap failed \subseteq Requests
        /\ Past(x, ToTotal) \subseteq Requests /\ Past(x, ToTotalErr) \cap failed \subseteq Requests
    BY <1>2
  <2> QED
    BY <2>1, RequestSets
<1>7. /\ tc[x].requests_in_interval \in Nat /\ tc[x].errors_in_interval \in Nat
      /\ tc[x].total_requests \in Nat /\ tc[x].total_errors \in Nat
      /\ since[x].requests \in Nat /\ since[x].errors \in Nat /\ MaxRecords \in Nat
  BY MetricsAssumption DEF Typed, CounterRecord
<1> QED
  BY <1>3, <1>4, <1>5, <1>6, <1>7 DEF Counted

-----------------------------------------------------------------------------
(* What a step keeps                                                       *)

\* A thread's job is told by the step it is at.
LEMMA Jobs ==
    ASSUME Typed, NEW t \in Threads
    PROVE  /\ job[t] \in AnyJob
           /\ job[t].at \in Recording => job[t] \in Recorder
           /\ job[t].at \in {"set_find", "set_create", "set"} => job[t] \in Setter
           /\ job[t].at \in Loads => job[t] \in Loader
           /\ job[t].at = "report" => job[t] \in Reporter
<1>1. job[t] \in AnyJob
  BY DEF Typed
<1> QED
  BY <1>1 DEF AnyJob, Idle, Recorder, Setter, Loader, Reporter, Recording, Before, Zeroing, Adding, Loads

\* A thread gets another job.
LEMMA JobSet ==
    ASSUME Typed, NEW t \in Threads, NEW j, j \in AnyJob, job' = [job EXCEPT ![t] = j]
    PROVE  /\ job' \in [Threads -> AnyJob]
           /\ job'[t] = j /\ Same(t)
  BY DEF Typed, Same

\* A thread that records goes on to another step.
LEMMA Moved ==
    ASSUME Typed, NEW t \in Threads, job[t].at \in Recording, NEW w \in Recording,
           Goto(t, w) \/ Leave(t, w)
    PROVE  /\ job' \in [Threads -> AnyJob] /\ Same(t)
           /\ job'[t].at = w
           /\ job'[t].n = job[t].n /\ job'[t].tenant = job[t].tenant /\ job'[t].err = job[t].err
<1>1. job[t] \in Recorder
  BY Jobs
<1>2. 0 \in 0..MaxTime
  BY MetricsAssumption
<1>3. job \in [Threads -> AnyJob]
  BY DEF Typed
<1>4. job' = [job EXCEPT ![t] = job'[t]] /\ Same(t)
  BY <1>3 DEF Goto, Leave, Same
<1>5. /\ job'[t] \in Recorder /\ job'[t].at = w
      /\ job'[t].n = job[t].n /\ job'[t].tenant = job[t].tenant /\ job'[t].err = job[t].err
  BY <1>1, <1>2, <1>3 DEF Goto, Leave, Recorder
<1>6. job'[t] \in AnyJob
  BY <1>5 DEF AnyJob
<1> QED
  BY <1>3, <1>4, <1>5, <1>6

\* Neither step is past a fetch_add, or the end, that the other one is before.
Stay(a, b) ==
    /\ a \in ToTotal <=> b \in ToTotal
    /\ a \in ToInterval <=> b \in ToInterval
    /\ a \in ToTotalErr <=> b \in ToTotalErr
    /\ a \in ToIntervalErr <=> b \in ToIntervalErr
    /\ a \in Recording <=> b \in Recording

\* A thread that records stays with its request.
Bound(t) ==
    job'[t].at \in Recording =>
       /\ job[t].at \in Recording
       /\ job'[t].n = job[t].n /\ job'[t].tenant = job[t].tenant /\ job'[t].err = job[t].err

\* The step sets are steps of record_request.
LEMMA StepSets ==
    /\ ToTotal \subseteq Recording /\ ToInterval \subseteq Recording
    /\ ToTotalErr \subseteq Recording /\ ToIntervalErr \subseteq Recording
  BY DEF ToTotal, ToInterval, ToTotalErr, ToIntervalErr, Recording, Adding

\* Requests that stay between the same fetch_adds leave what the counters count.
LEMMA PastKept ==
    ASSUME NEW t \in Threads, Same(t), begun' = begun, Stay(job[t].at, job'[t].at), Bound(t), NEW x
    PROVE  /\ Past(x, ToTotal)' = Past(x, ToTotal)
           /\ Past(x, ToInterval)' = Past(x, ToInterval)
           /\ Past(x, ToTotalErr)' = Past(x, ToTotalErr)
           /\ Past(x, ToIntervalErr)' = Past(x, ToIntervalErr)
           /\ Past(x, Recording)' = Past(x, Recording)
<1>1. ASSUME NEW S \in SUBSET Recording, job'[t].at \in S <=> job[t].at \in S
      PROVE  Past(x, S)' = Past(x, S)
  <2>1. job[t].at \in S => job'[t].n = job[t].n /\ job'[t].tenant = job[t].tenant
    BY <1>1 DEF Bound
  <2>2. InFlight(x, S)' = InFlight(x, S)
    BY <1>1, <2>1, FlightSame
  <2> QED
    BY <2>2 DEF Past
<1>2. Past(x, ToTotal)' = Past(x, ToTotal)
  BY <1>1, StepSets DEF Stay
<1>3. Past(x, ToInterval)' = Past(x, ToInterval)
  BY <1>1, StepSets DEF Stay
<1>4. Past(x, ToTotalErr)' = Past(x, ToTotalErr)
  BY <1>1, StepSets DEF Stay
<1>5. Past(x, ToIntervalErr)' = Past(x, ToIntervalErr)
  BY <1>1, StepSets DEF Stay
<1>6. Past(x, Recording)' = Past(x, Recording)
  BY <1>1, StepSets DEF Stay
<1> QED
  BY <1>2, <1>3, <1>4, <1>5, <1>6

\* So do counters that keep their value, or lose what they counted in an interval.
LEMMA CountedKept ==
    ASSUME Typed, Typed', NEW x \in Tenants, Counted(x), failed' = failed,
           NEW t \in Threads, Same(t), begun' = begun, Stay(job[t].at, job'[t].at), Bound(t),
           tc'[x].total_requests = tc[x].total_requests,
           tc'[x].total_errors = tc[x].total_errors,
           tc'[x].avg_response_ms = tc[x].avg_response_ms,
           tc'[x].requests_in_interval \in {0, tc[x].requests_in_interval},
           tc'[x].errors_in_interval \in {0, tc[x].errors_in_interval},
           since'[x].requests \in {0, since[x].requests},
           since'[x].errors \in {0, since[x].errors}
    PROVE  Counted(x)'
<1>1. /\ Past(x, ToTotal)' = Past(x, ToTotal)
      /\ Past(x, ToInterval)' = Past(x, ToInterval)
      /\ Past(x, ToTotalErr)' = Past(x, ToTotalErr)
      /\ Past(x, ToIntervalErr)' = Past(x, ToIntervalErr)
      /\ Past(x, Recording)' = Past(x, Recording)
  BY PastKept
<1>2. begun[x] \subseteq Requests /\ \A S : Past(x, S) \subseteq begun[x]
  BY DEF Typed, Past
<1>3. /\ Cardinality(Past(x, ToInterval)) \in Nat
      /\ Cardinality(Past(x, ToIntervalErr) \cap failed) \in Nat
  <2>1. /\ Past(x, ToInterval) \subseteq Requests /\ Past(x, ToIntervalErr) \cap failed \subseteq Requests
    BY <1>2
  <2> QED
    BY <2>1, RequestSets
<1> QED
  BY <1>1, <1>3 DEF Counted

\* Tenants and requests come, totals grow.
Grows ==
    /\ m_tenants \subseteq m_tenants'
    /\ \A y \in Tenants : begun[y] \subseteq begun'[y]
    /\ \A y \in m_tenants : /\ tc[y].total_requests <= tc'[y].total_requests
                            /\ tc[y].total_errors <= tc'[y].total_errors

\* Tenants have no fewer requests later.
LEMMA RequestedGrows ==
    ASSUME Typed, Typed', \A y \in Tenants : begun[y] \subseteq begun'[y],
           NEW X, X \subseteq Tenants
    PROVE  /\ Requested(X) <= Requested(X)'
           /\ Requested(X) \in Nat /\ Requested(X)' \in Nat
<1> DEFINE A == UNION {begun[y] : y \in X}
           B == UNION {begun'[y] : y \in X}
<1>1. A \subseteq B /\ B \subseteq Requests
  BY DEF Typed
<1>2. Requested(X) = Cardinality(A) /\ Requested(X)' = Cardinality(B)
  BY DEF Requested
<1> HIDE DEF A, B
<1>3. Cardinality(A) <= Cardinality(B) /\ Cardinality(A) \in Nat /\ Cardinality(B) \in Nat
  <2>1. A \subseteq Requests
    BY <1>1
  <2> QED
    BY <1>1, <2>1, FewerRequests, RequestSets
<1> QED
  BY <1>2, <1>3

\* A report under way stands what other threads do.
LEMMA SummedKept ==
    ASSUME Typed, Typed', Grows, NEW u \in Threads, job'[u] = job[u], Summed(job[u])
    PROVE  Summed(job[u])'
<1>1. PICK j : j = job[u]
  OBVIOUS
<1>2. job'[u] = j
  BY <1>1
<1>3. Summed(j)
  BY <1>1
<1>4. SUFFICES Summed(j)'
  BY <1>2
<1>5. /\ m_tenants \subseteq m_tenants' /\ m_tenants \subseteq Tenants
      /\ \A y \in m_tenants : /\ tc[y].total_requests <= tc'[y].total_requests
                              /\ tc[y].total_errors <= tc'[y].total_errors
                              /\ tc[y].total_requests \in Nat /\ tc'[y].total_requests \in Nat
                              /\ tc[y].total_errors \in Nat /\ tc'[y].total_errors \in Nat
  BY DEF Typed, Grows, CounterRecord
<1>6. j.at \in Loads \cup {"report"} =>
         /\ j.sums.requests_in_interval \in Nat /\ j.sums.errors_in_interval \in Nat
         /\ j.sums.total_requests \in Nat /\ j.sums.total_errors \in Nat
  <2>1. /\ j.at \in Loads => j \in Loader
        /\ j.at = "report" => j \in Reporter
    BY <1>1, Jobs
  <2> QED
    BY <2>1 DEF Loader, Reporter, SumRecord
<1>7. PICK after \in Nat, after2 \in Nat :
         /\ after = Requested(Tenants \ j.left) /\ after2 = Requested(Tenants \ j.left)'
         /\ after <= after2
  <2>1. /\ Requested(Tenants \ j.left) <= Requested(Tenants \ j.left)'
        /\ Requested(Tenants \ j.left) \in Nat /\ Requested(Tenants \ j.left)' \in Nat
    BY RequestedGrows DEF Grows
  <2> QED
    BY <2>1
<1>8. PICK rest \in Nat, rest2 \in Nat :
         /\ rest = Requested(Tenants \ (j.left \cup {j.of}))
         /\ rest2 = Requested(Tenants \ (j.left \cup {j.of}))'
         /\ rest <= rest2
  <2>1. /\ Requested(Tenants \ (j.left \cup {j.of})) <= Requested(Tenants \ (j.left \cup {j.of}))'
        /\ Requested(Tenants \ (j.left \cup {j.of})) \in Nat
        /\ Requested(Tenants \ (j.left \cup {j.of}))' \in Nat
    BY RequestedGrows DEF Grows
  <2> QED
    BY <2>1
<1>9. CASE j.at = "load"
  BY <1>3, <1>5, <1>6, <1>7, <1>9 DEF Summed, Loads
<1>10. CASE j.at = "load_errors"
  BY <1>3, <1>5, <1>6, <1>8, <1>10 DEF Summed, Loads
<1>11. CASE j.at = "load_total"
  BY <1>3, <1>5, <1>6, <1>8, <1>11 DEF Summed, Loads
<1>12. CASE j.at = "load_total_errors"
  BY <1>3, <1>5, <1>6, <1>7, <1>8, <1>12 DEF Summed, Loads
<1>13. CASE j.at \notin Loads
  BY <1>3, <1>13 DEF Summed, Loads
<1> QED
  BY <1>9, <1>10, <1>11, <1>12, <1>13 DEF Loads

\* Counters that count no more than before, or one more than before as the interval
\* does, with no thread done zeroing.
LEMMA ZeroedKept ==
    ASSUME NEW t \in Threads, Same(t), NEW x, Zeroed(x), job[t].at \notin Zeroing,
           tc[x].requests_in_interval <= since[x].requests
             => tc'[x].requests_in_interval <= since'[x].requests,
           tc[x].errors_in_interval <= since[x].errors
             => tc'[x].errors_in_interval <= since'[x].errors
    PROVE  Zeroed(x)'
<1>1. \A S : Zeroer(x, S) /\ S \subseteq Zeroing => Zeroer(x, S)'
  BY DEF Zeroer, Same
<1> QED
  BY <1>1 DEF Zeroed, Zeroing

\* Threads keep their numbers.
LEMMA NumberedKept ==
    ASSUME Numbered, begun' = begun, failed' = failed, NEW t \in Threads, Same(t), Bound(t)
    PROVE  Numbered'
<1>1. /\ \E N \in 0..MaxRecords : Everyone' = 1..N
      /\ failed' \subseteq Everyone'
      /\ \A x, y \in Tenants : x # y => begun'[x] \cap begun'[y] = {}
  BY DEF Numbered, Everyone
<1>2. \A u \in Threads : job'[u].at \in Recording => job[u].at \in Recording /\ job'[u].n = job[u].n
  BY DEF Same, Bound
<1>3. \A v, u \in Threads :
          v # u /\ job'[v].at \in Recording /\ job'[u].at \in Recording => job'[v].n # job'[u].n
  BY <1>2 DEF Numbered
<1> QED
  BY <1>1, <1>3 DEF Numbered

\* A step of one thread that begins no request: what it does itself is left to see.
LEMMA StepInside ==
    ASSUME MInv, Typed', NEW t \in Threads, Same(t), Bound(t), Grows,
           begun' = begun, failed' = failed, Known(t)', Summed(job[t])',
           \A x \in Tenants : Counted(x)' /\ Blank(x)' /\ Zeroed(x)'
    PROVE  MInv'
<1>1. Numbered'
  BY NumberedKept DEF MInv
<1>2. ASSUME NEW u \in Threads, u # t  PROVE Known(u)' /\ Summed(job[u])'
  <2>1. job'[u] = job[u]
    BY <1>2 DEF Same
  <2>2. Known(u)'
    BY <2>1 DEF MInv, Known, Grows
  <2>3. Summed(job[u])'
    BY <2>1, SummedKept DEF MInv
  <2> QED
    BY <2>2, <2>3
<1>3. \A u \in Threads : Known(u)' /\ Summed(job[u])'
  BY <1>2
<1> QED
  BY <1>1, <1>3 DEF MInv

\* A step that changes only the thread's job, and passes no fetch_add.
LEMMA Quiet ==
    ASSUME MInv, NEW t \in Threads, Same(t), Bound(t), Stay(job[t].at, job'[t].at),
           job[t].at \notin Zeroing, job' \in [Threads -> AnyJob],
           UNCHANGED <<m_tenants, tc, begun, failed, since>>, now' = now, reads' \in 0..MaxReads,
           Known(t)', Summed(job[t])'
    PROVE  MInv'
<1>1. Typed'
  BY DEF MInv, Typed
<1>2. Grows
  BY DEF MInv, Typed, CounterRecord, Grows
<1>3. ASSUME NEW x \in Tenants  PROVE Counted(x)' /\ Blank(x)' /\ Zeroed(x)'
  <2>1. Counted(x)'
    BY <1>1, CountedKept DEF MInv
  <2>2. Blank(x)'
    BY DEF MInv, Blank
  <2>3. Zeroed(x)'
    BY ZeroedKept DEF MInv
  <2> QED
    BY <2>1, <2>2, <2>3
<1> QED
  BY <1>1, <1>2, <1>3, StepInside

\* A job that is no report.
LEMMA NoReport ==
    ASSUME NEW t \in Threads, job'[t].at \notin Loads \cup {"report"}
    PROVE  Summed(job[t])'
  BY DEF Summed, Loads

\* A job that records nothing.
LEMMA NoRecord ==
    ASSUME NEW t \in Threads, job'[t].at \notin Recording
    PROVE  Known(t)' /\ Bound(t)
  BY DEF Known, Bound

\* The look-up.
LEMMA FindStep ==
    ASSUME MInv, NEW t \in Threads, FindTenant(t)
    PROVE  MInv'
<1> USE DEF FindTenant
<1>0. Typed /\ Known(t) /\ reads' \in 0..MaxReads
  BY DEF MInv, Typed
<1>1. CASE job[t].at = "find"
  <2>1. PICK w \in {"clock", "create"} : Goto(t, w) /\ (w = "clock" => job[t].tenant \in m_tenants)
    BY <1>1
  <2>2. job[t].at \in Recording /\ w \in Recording /\ job[t].at \notin Zeroing
    BY <1>1 DEF Recording, Before, Zeroing
  <2>3. /\ job' \in [Threads -> AnyJob] /\ Same(t) /\ job'[t].at = w
        /\ job'[t].n = job[t].n /\ job'[t].tenant = job[t].tenant /\ job'[t].err = job[t].err
    BY <1>0, <2>1, <2>2, Moved
  <2>4. Bound(t)
    BY <2>2, <2>3 DEF Bound
  <2>5. Stay(job[t].at, job'[t].at)
    BY <1>1, <2>3 DEF Stay, ToTotal, ToInterval, ToTotalErr, ToIntervalErr, Recording, Before
  <2>6. Known(t)'
    BY <1>0, <2>1, <2>2, <2>3 DEF Known
  <2>7. Summed(job[t])'
    BY <2>3, NoReport DEF Loads
  <2> QED
    BY <1>0, <2>2, <2>3, <2>4, <2>5, <2>6, <2>7, Quiet
<1>2. CASE job[t].at = "set_find"
  <2>1. PICK w \in {"set", "set_create"} : Goto(t, w)
    BY <1>2
  <2>2. job[t] \in Setter
    BY <1>0, <1>2, Jobs
  <2>3. job' \in [Threads -> AnyJob] /\ Same(t) /\ job'[t].at = w
    BY <1>0, <2>1, <2>2 DEF Goto, Setter, Typed, Same, AnyJob
  <2>4. job'[t].at \notin Recording /\ job[t].at \notin Recording
    BY <1>2, <2>3 DEF Recording, Before, Zeroing, Adding
  <2>5. Stay(job[t].at, job'[t].at)
    BY <2>4, StepSets DEF Stay
  <2>6. Known(t)' /\ Bound(t) /\ Summed(job[t])' /\ job[t].at \notin Zeroing
    BY <1>2, <2>3, <2>4, NoRecord, NoReport DEF Loads, Zeroing
  <2> QED
    BY <1>0, <2>3, <2>5, <2>6, Quiet
<1> QED
  BY <1>1, <1>2

\* A step of record_request once the tenant is found that passes no fetch_add.
LEMMA QuietRecord ==
    ASSUME MInv, NEW t \in Threads, Same(t), job' \in [Threads -> AnyJob],
           job[t].at \in Recording \ (Zeroing \cup {"find", "create"}),
           job'[t].at \in Recording \ {"total_err", "interval_err"},
           job'[t].n = job[t].n, job'[t].tenant = job[t].tenant, job'[t].err = job[t].err,
           Stay(job[t].at, job'[t].at),
           UNCHANGED <<m_tenants, tc, now, begun, failed, since, reads>>
    PROVE  MInv'
<1>1. Bound(t)
  BY DEF Bound
<1>2. Known(t)'
  BY DEF MInv, Known
<1>3. Summed(job[t])'
  BY NoReport DEF Loads, Recording, Before, Zeroing, Adding
<1>4. reads' \in 0..MaxReads
  BY DEF MInv, Typed
<1> QED
  BY <1>1, <1>2, <1>3, <1>4, Quiet

\* The steps up to the first fetch_add are on the same side of all of them.
LEMMA EarlySteps ==
    ASSUME NEW a \in ToTotal, NEW b \in ToTotal
    PROVE  Stay(a, b)
  BY DEF Stay, ToTotal, ToInterval, ToTotalErr, ToIntervalErr, Recording, Adding

\* The clock is read.
LEMMA ClockStep ==
    ASSUME MInv, NEW t \in Threads, ReadClock(t)
    PROVE  MInv'
<1>1. Typed /\ job[t].at = "clock" /\ now \in 0..MaxTime
  BY DEF MInv, Typed, ReadClock
<1>2. job[t] \in Recorder
  BY <1>1, Jobs DEF Recording, Before
<1>3. PICK j : j = [job[t] EXCEPT !.at = "check", !.clock = now]
  OBVIOUS
<1>4. j \in Recorder /\ j.at = "check" /\ j.n = job[t].n /\ j.tenant = job[t].tenant /\ j.err = job[t].err
  BY <1>1, <1>2, <1>3 DEF Recorder, Recording, Before
<1>5. job' = [job EXCEPT ![t] = j]
  BY <1>1, <1>3 DEF ReadClock, Typed
<1>6. job' \in [Threads -> AnyJob] /\ job'[t] = j /\ Same(t)
  BY <1>1, <1>4, <1>5, JobSet DEF AnyJob
<1>7. Stay(job[t].at, job'[t].at)
  BY <1>1, <1>4, <1>6, EarlySteps DEF ToTotal, Before
<1>8. /\ job[t].at \in Recording \ (Zeroing \cup {"find", "create"})
      /\ job'[t].at \in Recording \ {"total_err", "interval_err"}
  BY <1>1, <1>4, <1>6 DEF Recording, Before, Zeroing
<1> QED
  BY <1>4, <1>6, <1>7, <1>8, QuietRecord DEF ReadClock

\* The boundary is checked, and the clock kept for the exchange.
LEMMA CheckStep ==
    ASSUME MInv, NEW t \in Threads, CheckInterval(t)
    PROVE  MInv'
<1>1. Typed /\ Known(t) /\ job[t].at = "check"
  BY DEF MInv, CheckInterval
<1>2. job[t] \in Recorder /\ job[t].at \in Recording
  BY <1>1, Jobs DEF Recording, Before
<1>3. tc[job[t].tenant].interval_start \in 0..MaxTime
  BY <1>1, <1>2 DEF Typed, CounterRecord, Recorder
<1>4. /\ job' \in [Threads -> AnyJob] /\ Same(t) /\ job'[t].at \in {"exchange", "total"}
      /\ job'[t].n = job[t].n /\ job'[t].tenant = job[t].tenant /\ job'[t].err = job[t].err
  <2>1. CASE Leave(t, "total")
    BY <1>1, <1>2, <2>1, Moved DEF Recording, Adding
  <2>2. CASE job' = [job EXCEPT ![t].at = "exchange", ![t].start = tc[job[t].tenant].interval_start]
    <3>3. PICK j : j = [job[t] EXCEPT !.at = "exchange", !.start = tc[job[t].tenant].interval_start]
      OBVIOUS
    <3>4. j \in Recorder /\ j.at = "exchange" /\ j.n = job[t].n /\ j.tenant = job[t].tenant /\ j.err = job[t].err
      BY <1>2, <1>3, <3>3 DEF Recorder, Recording, Before
    <3>5. job' = [job EXCEPT ![t] = j]
      BY <1>1, <2>2, <3>3 DEF Typed
    <3>6. job' \in [Threads -> AnyJob] /\ job'[t] = j /\ Same(t)
      BY <1>1, <3>4, <3>5, JobSet DEF AnyJob
    <3> QED
      BY <3>4, <3>6
  <2> QED
    BY <2>1, <2>2 DEF CheckInterval
<1>5. Stay(job[t].at, job'[t].at)
  BY <1>1, <1>4, EarlySteps DEF ToTotal, Before
<1>6. /\ job[t].at \in Recording \ (Zeroing \cup {"find", "create"})
      /\ job'[t].at \in Recording \ {"total_err", "interval_err"}
  BY <1>1, <1>4 DEF Recording, Before, Zeroing, Adding
<1> QED
  BY <1>4, <1>5, <1>6, QuietRecord DEF CheckInterval

\* The load of the average.
LEMMA AverageStep ==
    ASSUME MInv, NEW t \in Threads, LoadAverage(t)
    PROVE  MInv'
<1>1. Typed /\ job[t].at = "sample"
  BY DEF MInv, LoadAverage
<1>2. job[t] \in Recorder
  BY <1>1, Jobs DEF Recording, Adding
<1>3. PICK j : j = [job[t] EXCEPT !.at = "average", !.old = tc[job[t].tenant].avg_response_ms]
  OBVIOUS
<1>4. tc[job[t].tenant].avg_response_ms \in SUBSET Requests
  BY <1>1, <1>2 DEF Typed, CounterRecord, Recorder
<1>5. j \in Recorder /\ j.at = "average" /\ j.n = job[t].n /\ j.tenant = job[t].tenant /\ j.err = job[t].err
  BY <1>2, <1>3, <1>4 DEF Recorder, Recording, Adding
<1>6. job' = [job EXCEPT ![t] = j]
  BY <1>1, <1>3 DEF LoadAverage, Typed
<1>7. job' \in [Threads -> AnyJob] /\ job'[t] = j /\ Same(t)
  BY <1>1, <1>5, <1>6, JobSet DEF AnyJob
<1>8. Stay(job[t].at, job'[t].at)
  BY <1>1, <1>5, <1>7 DEF Stay, ToTotal, ToInterval, ToTotalErr, ToIntervalErr, Recording, Before, Zeroing, Adding
<1>9. /\ job[t].at \in Recording \ (Zeroing \cup {"find", "create"})
      /\ job'[t].at \in Recording \ {"total_err", "interval_err"}
  BY <1>1, <1>5, <1>7 DEF Recording, Adding, Zeroing
<1> QED
  BY <1>5, <1>7, <1>8, <1>9, QuietRecord DEF LoadAverage

\* A change of the interval's length begins.
LEMMA SetStep ==
    ASSUME MInv, NEW t \in Threads, NEW x \in Tenants, NEW m \in Minutes, SetIntervalMinutes(t, x, m)
    PROVE  MInv'
<1>1. Typed /\ job[t].at = "idle" /\ reads' \in 0..MaxReads
  BY MetricsAssumption DEF MInv, SetIntervalMinutes, Idle, Typed
<1>2. PICK j : j = [at |-> "set_find", tenant |-> x, minutes |-> m]
  OBVIOUS
<1>3. j \in AnyJob /\ j.at = "set_find"
  BY <1>2 DEF AnyJob, Setter
<1>4. job' \in [Threads -> AnyJob] /\ job'[t] = j /\ Same(t)
  BY <1>1, <1>2, <1>3, JobSet DEF SetIntervalMinutes
<1>5. job'[t].at \notin Recording /\ job[t].at \notin Recording
  BY <1>1, <1>3, <1>4 DEF Recording, Before, Zeroing, Adding
<1>6. Stay(job[t].at, job'[t].at)
  BY <1>5, StepSets DEF Stay
<1>7. Known(t)' /\ Bound(t) /\ Summed(job[t])' /\ job[t].at \notin Zeroing
  BY <1>1, <1>3, <1>4, <1>5, NoRecord, NoReport DEF Loads, Zeroing
<1> QED
  BY <1>1, <1>4, <1>6, <1>7, Quiet DEF SetIntervalMinutes

\* A report goes out.
LEMMA ReportStep ==
    ASSUME MInv, NEW t \in Threads, Report(t)
    PROVE  MInv'
<1>1. Typed /\ job[t].at = "report" /\ reads' \in 0..MaxReads
  BY DEF MInv, Report, Typed
<1>2. Idle \in AnyJob /\ Idle.at = "idle"
  BY DEF AnyJob, Idle
<1>3. job' \in [Threads -> AnyJob] /\ job'[t] = Idle /\ Same(t)
  BY <1>1, <1>2, JobSet DEF Report
<1>4. job'[t].at \notin Recording /\ job[t].at \notin Recording
  BY <1>1, <1>2, <1>3 DEF Recording, Before, Zeroing, Adding
<1>5. Stay(job[t].at, job'[t].at)
  BY <1>4, StepSets DEF Stay
<1>6. Known(t)' /\ Bound(t) /\ Summed(job[t])' /\ job[t].at \notin Zeroing
  BY <1>1, <1>2, <1>3, <1>4, NoRecord, NoReport DEF Loads, Zeroing
<1> QED
  BY <1>1, <1>3, <1>5, <1>6, Quiet DEF Report

\* A step of a report: its sums are left to see.
LEMMA QuietReport ==
    ASSUME MInv, NEW t \in Threads, job[t].at \in Loads \cup {"idle"},
           NEW j, j \in Loader \cup Reporter, job' = [job EXCEPT ![t] = j],
           UNCHANGED <<m_tenants, tc, now, begun, failed, since>>, reads' \in 0..MaxReads,
           Summed(j)
    PROVE  MInv'
<1>1. job' \in [Threads -> AnyJob] /\ job'[t] = j /\ Same(t)
  BY JobSet DEF MInv, AnyJob
<1>2. j.at \in Loads \cup {"report"}
  BY DEF Loader, Reporter
<1>3. job'[t].at \notin Recording /\ job[t].at \notin Recording
  BY <1>1, <1>2 DEF Recording, Before, Zeroing, Adding, Loads
<1>4. Stay(job[t].at, job'[t].at)
  BY <1>3, StepSets DEF Stay
<1>5. Known(t)' /\ Bound(t) /\ job[t].at \notin Zeroing
  BY <1>3, NoRecord DEF Recording
<1>6. Summed(j)'
  BY DEF Summed, Requested
<1>7. Summed(job[t])'
  BY <1>1, <1>6
<1> QED
  BY <1>1, <1>4, <1>5, <1>7, Quiet

\* A report begins with nothing added up.
LEMMA GetStep ==
    ASSUME MInv, NEW t \in Threads, NEW asked \in {Tenants} \cup {{x} : x \in Tenants},
           GetMetrics(t, asked)
    PROVE  MInv'
<1>1. Typed /\ job[t].at = "idle" /\ reads' \in 0..MaxReads
  BY MetricsAssumption DEF MInv, GetMetrics, Idle, Typed
<1>2. asked \subseteq Tenants
  OBVIOUS
<1>3. PICK x \in asked : job' = [job EXCEPT ![t] = [at |-> "load", of |-> x,
                                   left |-> asked \cap m_tenants, sums |-> NoSums]]
  BY DEF GetMetrics
<1>4. PICK j : j = [at |-> "load", of |-> x, left |-> asked \cap m_tenants, sums |-> NoSums]
  OBVIOUS
<1>5. j \in Loader
  BY <1>2, <1>4 DEF Loader, NoSums, SumRecord, Loads
<1>6. Requested(Tenants \ j.left) \in Nat
  BY <1>1, RequestedBound
<1>7. Summed(j)
  BY <1>4, <1>6 DEF Summed, NoSums
<1> QED
  BY <1>1, <1>3, <1>4, <1>5, <1>7, QuietReport DEF GetMetrics

\* A load adds to one sum.
LEMMA SumSet ==
    ASSUME NEW s \in SumRecord, NEW c \in {"requests_in_interval", "errors_in_interval",
                                         "total_requests", "total_errors"}, NEW v \in Nat
    PROVE  LET r == [s EXCEPT ![c] = @ + v] IN
           /\ r \in SumRecord
           /\ r.requests_in_interval = IF c = "requests_in_interval" THEN s.requests_in_interval + v ELSE s.requests_in_interval
           /\ r.errors_in_interval = IF c = "errors_in_interval" THEN s.errors_in_interval + v ELSE s.errors_in_interval
           /\ r.total_requests = IF c = "total_requests" THEN s.total_requests + v ELSE s.total_requests
           /\ r.total_errors = IF c = "total_errors" THEN s.total_errors + v ELSE s.total_errors
<1>1. CASE c = "requests_in_interval"
  BY <1>1 DEF SumRecord
<1>2. CASE c = "errors_in_interval"
  BY <1>2 DEF SumRecord
<1>3. CASE c = "total_requests"
  BY <1>3 DEF SumRecord
<1>4. CASE c = "total_errors"
  BY <1>4 DEF SumRecord
<1> QED
  BY <1>1, <1>2, <1>3, <1>4

\* One of the four loads: the job it leaves is a report's, and its invariant is left to see.
LEMMA LoadOne ==
    ASSUME MInv, NEW t \in Threads, job[t].at \in Loads, NEW x \in Tenants, NEW next \in Loads,
           NEW c \in {"requests_in_interval", "errors_in_interval", "total_requests", "total_errors"},
           job' = [job EXCEPT ![t] = [at |-> next, of |-> x, left |-> job[t].left \ {x},
                      sums |-> [job[t].sums EXCEPT ![c] = @ + tc[x][c]]]],
           UNCHANGED <<m_tenants, tc, now, begun, failed, since, reads>>,
           NEW j, j = [at |-> next, of |-> x, left |-> job[t].left \ {x},
                       sums |-> [job[t].sums EXCEPT ![c] = @ + tc[x][c]]],
           Summed(j)
    PROVE  MInv'
<1>1. Typed /\ job[t] \in Loader /\ reads' \in 0..MaxReads
  BY Jobs DEF MInv, Typed
<1>2. tc[x][c] \in Nat
  BY <1>1 DEF Typed, CounterRecord
<1>3. job[t].sums \in SumRecord /\ job[t].left \subseteq Tenants
  BY <1>1 DEF Loader
<1>4. [job[t].sums EXCEPT ![c] = @ + tc[x][c]] \in SumRecord
  BY <1>2, <1>3, SumSet
<1>5. j \in Loader
  BY <1>3, <1>4 DEF Loader
<1> QED
  BY <1>1, <1>5, QuietReport

\* The loads of a report: the counters of an interval are covered by the totals, which are
\* loaded after them.
LEMMA LoadStep ==
    ASSUME MInv, NEW t \in Threads, Load(t)
    PROVE  MInv'
<1>1. Typed /\ Numbered /\ Summed(job[t]) /\ job[t].at \in Loads
  BY DEF MInv, Load, Loads
<1>2. PICK o : o = job[t]
  OBVIOUS
<1>3. o \in Loader /\ o.sums \in SumRecord /\ o.left \subseteq Tenants /\ o.of \in Tenants
  BY <1>1, <1>2, Jobs DEF Loader
<1>4. PICK q \in Nat, e \in Nat, tq \in Nat, te \in Nat :
         /\ o.sums.requests_in_interval = q /\ o.sums.errors_in_interval = e
         /\ o.sums.total_requests = tq /\ o.sums.total_errors = te
  BY <1>3 DEF SumRecord
<1>5. PICK after \in Nat, rest \in Nat :
         /\ after = Requested(Tenants \ o.left) /\ rest = Requested(Tenants \ (o.left \cup {o.of}))
         /\ after <= MaxRecords
  BY <1>1, RequestedBound
<1>6. ASSUME NEW x \in Tenants
      PROVE  \E cq \in Nat, ce \in Nat, ctq \in Nat, cte \in Nat, b \in Nat :
               /\ tc[x].requests_in_interval = cq /\ tc[x].errors_in_interval = ce
               /\ tc[x].total_requests = ctq /\ tc[x].total_errors = cte
               /\ b = Cardinality(begun[x]) /\ cq <= ctq /\ ce <= cte /\ ctq <= b /\ cte <= b
  BY <1>1, TotalsCover DEF MInv
<1>7. UNCHANGED <<m_tenants, tc, now, begun, failed, since, reads>>
  BY DEF Load
<1>8. CASE /\ job[t].at = "load"
           /\ \E x \in job[t].left :
                job' = [job EXCEPT ![t] = [at |-> "load_errors", of |-> x, left |-> job[t].left \ {x},
                  sums |-> [job[t].sums EXCEPT !["requests_in_interval"] = @ + tc[x]["requests_in_interval"]]]]
  <2>1. PICK x \in job[t].left :
           job' = [job EXCEPT ![t] = [at |-> "load_errors", of |-> x, left |-> job[t].left \ {x},
             sums |-> [job[t].sums EXCEPT !["requests_in_interval"] = @ + tc[x]["requests_in_interval"]]]]
    BY <1>8
  <2>2. x \in Tenants /\ x \in o.left
    BY <1>2, <1>3, <2>1
  <2>3. PICK cq \in Nat, ctq \in Nat : tc[x].requests_in_interval = cq /\ tc[x].total_requests = ctq /\ cq <= ctq
    BY <1>6, <2>2
  <2>4. PICK j : j = [at |-> "load_errors", of |-> x, left |-> job[t].left \ {x},
             sums |-> [job[t].sums EXCEPT !["requests_in_interval"] = @ + tc[x]["requests_in_interval"]]]
    OBVIOUS
  <2>5. /\ j.sums.requests_in_interval = q + cq /\ j.sums.errors_in_interval = e
        /\ j.sums.total_requests = tq /\ j.sums.total_errors = te
    BY <1>2, <1>3, <1>4, <2>3, <2>4 DEF SumRecord
  <2>6. Requested(Tenants \ (j.left \cup {j.of})) = after
    <3>1. Tenants \ (j.left \cup {j.of}) = Tenants \ o.left
      BY <1>2, <2>2, <2>4
    <3> QED
      BY <1>5, <3>1
  <2>7. o.left \subseteq m_tenants /\ q <= tq /\ tq <= after /\ e <= te /\ te <= after
    BY <1>1, <1>2, <1>4, <1>5, <1>8 DEF Summed, Loads
  <2>8. Summed(j)
    BY <1>2, <2>2, <2>3, <2>4, <2>5, <2>6, <2>7 DEF Summed, Loads
  <2> QED
    BY <1>1, <1>7, <2>1, <2>2, <2>4, <2>8, LoadOne DEF Loads
<1> DEFINE Loaded(c, next) ==
             job' = [job EXCEPT ![t] = [at |-> next, of |-> job[t].of, left |-> job[t].left \ {job[t].of},
                      sums |-> [job[t].sums EXCEPT ![c] = @ + tc[job[t].of][c]]]]
<1>9. ASSUME job[t].at \in Loads \ {"load"}
      PROVE  /\ o.of \in m_tenants /\ o.of \notin o.left /\ o.left \ {o.of} = o.left
             /\ o.left \subseteq m_tenants
  BY <1>1, <1>2, <1>9 DEF Summed
<1>10. ASSUME job[t].at \in Loads \ {"load"}
       PROVE  after = rest + Cardinality(begun[o.of])
  <2>1. /\ Tenants \ o.left = (Tenants \ (o.left \cup {o.of})) \cup {o.of}
        /\ o.of \notin Tenants \ (o.left \cup {o.of}) /\ Tenants \ (o.left \cup {o.of}) \subseteq Tenants
    BY <1>3, <1>9, <1>10
  <2>2. PICK X : X = Tenants \ (o.left \cup {o.of})
    OBVIOUS
  <2>3. Requested(X \cup {o.of}) = Requested(X) + Cardinality(begun[o.of])
    BY <1>1, <1>3, <2>1, <2>2, RequestedAdds
  <2> QED
    BY <1>5, <2>1, <2>2, <2>3
<1>11. PICK cq \in Nat, ce \in Nat, ctq \in Nat, cte \in Nat, b \in Nat :
               /\ tc[o.of].requests_in_interval = cq /\ tc[o.of].errors_in_interval = ce
               /\ tc[o.of].total_requests = ctq /\ tc[o.of].total_errors = cte
               /\ b = Cardinality(begun[o.of]) /\ cq <= ctq /\ ce <= cte /\ ctq <= b /\ cte <= b
  BY <1>3, <1>6
<1>12. CASE job[t].at = "load_errors" /\ Loaded("errors_in_interval", "load_total")
  <2>1. PICK j : j = [at |-> "load_total", of |-> o.of, left |-> o.left \ {o.of},
             sums |-> [o.sums EXCEPT !["errors_in_interval"] = @ + tc[o.of]["errors_in_interval"]]]
    OBVIOUS
  <2>2. /\ j.sums.requests_in_interval = q /\ j.sums.errors_in_interval = e + ce
        /\ j.sums.total_requests = tq /\ j.sums.total_errors = te
    BY <1>3, <1>4, <1>11, <2>1 DEF SumRecord
  <2>3. j.of = o.of /\ j.left = o.left /\ o.of \in m_tenants /\ o.of \notin o.left /\ o.left \subseteq m_tenants
    BY <1>9, <1>12, <2>1 DEF Loads
  <2>4. q <= tq + ctq /\ tq <= rest /\ e <= te /\ te <= rest
    BY <1>1, <1>2, <1>4, <1>5, <1>11, <1>12 DEF Summed, Loads
  <2>5. Requested(Tenants \ (j.left \cup {j.of})) = rest
    BY <1>5, <2>3
  <2>6. Summed(j)
    BY <1>11, <2>1, <2>2, <2>3, <2>4, <2>5 DEF Summed, Loads
  <2>7. "load_total" \in Loads
    BY DEF Loads
  <2> QED
    BY <1>1, <1>2, <1>3, <1>7, <1>12, <2>1, <2>6, <2>7, LoadOne
<1>13. CASE job[t].at = "load_total" /\ Loaded("total_requests", "load_total_errors")
  <2>1. PICK j : j = [at |-> "load_total_errors", of |-> o.of, left |-> o.left \ {o.of},
             sums |-> [o.sums EXCEPT !["total_requests"] = @ + tc[o.of]["total_requests"]]]
    OBVIOUS
  <2>2. /\ j.sums.requests_in_interval = q /\ j.sums.errors_in_interval = e
        /\ j.sums.total_requests = tq + ctq /\ j.sums.total_errors = te
    BY <1>3, <1>4, <1>11, <2>1 DEF SumRecord
  <2>3. j.of = o.of /\ j.left = o.left /\ o.of \in m_tenants /\ o.of \notin o.left /\ o.left \subseteq m_tenants
    BY <1>9, <1>13, <2>1 DEF Loads
  <2>4. q <= tq + ctq /\ tq <= rest /\ e <= te + cte /\ te <= rest
    BY <1>1, <1>2, <1>4, <1>5, <1>11, <1>13 DEF Summed, Loads
  <2>5. Requested(Tenants \ (j.left \cup {j.of})) = rest /\ Requested(Tenants \ j.left) = after
    BY <1>5, <2>3
  <2>6. after = rest + b
    BY <1>10, <1>11, <1>13 DEF Loads
  <2>7. Summed(j)
    BY <1>11, <2>1, <2>2, <2>3, <2>4, <2>5, <2>6 DEF Summed, Loads
  <2>8. "load_total_errors" \in Loads
    BY DEF Loads
  <2> QED
    BY <1>1, <1>2, <1>3, <1>7, <1>13, <2>1, <2>7, <2>8, LoadOne
<1>14. CASE job[t].at = "load_total_errors" /\ Loaded("total_errors", "load")
  <2>1. PICK j : j = [at |-> "load", of |-> o.of, left |-> o.left \ {o.of},
             sums |-> [o.sums EXCEPT !["total_errors"] = @ + tc[o.of]["total_errors"]]]
    OBVIOUS
  <2>2. /\ j.sums.requests_in_interval = q /\ j.sums.errors_in_interval = e
        /\ j.sums.total_requests = tq /\ j.sums.total_errors = te + cte
    BY <1>3, <1>4, <1>11, <2>1 DEF SumRecord
  <2>3. j.of = o.of /\ j.left = o.left /\ o.left \subseteq m_tenants
    BY <1>9, <1>14, <2>1 DEF Loads
  <2>4. q <= tq /\ tq <= after /\ e <= te + cte /\ te <= rest
    BY <1>1, <1>2, <1>4, <1>5, <1>11, <1>14 DEF Summed, Loads
  <2>5. Requested(Tenants \ j.left) = after
    BY <1>5, <2>3
  <2>6. after = rest + b
    BY <1>10, <1>11, <1>14 DEF Loads
  <2>7. Summed(j)
    BY <1>11, <2>1, <2>2, <2>3, <2>4, <2>5, <2>6 DEF Summed, Loads
  <2>8. "load" \in Loads
    BY DEF Loads
  <2> QED
    BY <1>1, <1>2, <1>3, <1>7, <1>14, <2>1, <2>7, <2>8, LoadOne
<1>15. CASE /\ job[t].at = "load" /\ job[t].left = {}
            /\ job' = [job EXCEPT ![t] = [at |-> "report", sums |-> @.sums]]
  <2>1. PICK j : j = [at |-> "report", sums |-> o.sums]
    OBVIOUS
  <2>2. j \in Reporter /\ job' = [job EXCEPT ![t] = j]
    BY <1>2, <1>3, <1>15, <2>1 DEF Reporter
  <2>3. q <= tq /\ tq <= after /\ e <= te /\ te <= after
    BY <1>1, <1>2, <1>4, <1>5, <1>15 DEF Summed, Loads
  <2>4. Summed(j)
    BY <1>4, <1>5, <2>1, <2>3, MetricsAssumption DEF Summed, Loads
  <2>5. reads' \in 0..MaxReads
    BY <1>1, <1>7 DEF Typed
  <2> QED
    BY <1>1, <1>7, <2>2, <2>4, <2>5, QuietReport
<1> QED
  BY <1>8, <1>12, <1>13, <1>14, <1>15 DEF Load

\* The counters of one tenant change.
LEMMA CountersSet ==
    ASSUME Typed, NEW x \in Tenants, NEW c, c \in CounterRecord, tc' = [tc EXCEPT ![x] = c]
    PROVE  /\ tc' \in [Tenants -> CounterRecord] /\ tc'[x] = c
           /\ \A y \in Tenants : y # x => tc'[y] = tc[y]
  BY DEF Typed

\* A step that leaves the totals and samples, and passes no fetch_add; the counters of the
\* interval may be zeroed, the zeroing itself is left to see.
LEMMA Same5 ==
    ASSUME MInv, NEW t \in Threads, Same(t), Bound(t), Stay(job[t].at, job'[t].at),
           Typed', m_tenants \subseteq m_tenants', begun' = begun, failed' = failed,
           Known(t)', Summed(job[t])',
           \A x \in Tenants :
              /\ tc'[x].total_requests = tc[x].total_requests
              /\ tc'[x].total_errors = tc[x].total_errors
              /\ tc'[x].avg_response_ms = tc[x].avg_response_ms
              /\ tc'[x].requests_in_interval \in {0, tc[x].requests_in_interval}
              /\ tc'[x].errors_in_interval \in {0, tc[x].errors_in_interval}
              /\ since'[x].requests \in {0, since[x].requests}
              /\ since'[x].errors \in {0, since[x].errors},
           \A x \in Tenants : Zeroed(x)'
    PROVE  MInv'
<1>1. Grows
  BY DEF MInv, Typed, CounterRecord, Grows
<1>2. ASSUME NEW x \in Tenants  PROVE Counted(x)' /\ Blank(x)'
  <2>1. Counted(x)'
    BY CountedKept DEF MInv
  <2>2. Blank(x)'
    BY DEF MInv, Blank
  <2> QED
    BY <2>1, <2>2
<1> QED
  BY <1>1, <1>2, StepInside

\* The interval's length is stored.
LEMMA StoreStep ==
    ASSUME MInv, NEW t \in Threads, StoreInterval(t)
    PROVE  MInv'
<1>1. Typed /\ job[t].at = "set"
  BY DEF MInv, StoreInterval
<1>2. PICK x \in Tenants, m \in Minutes : job[t].tenant = x /\ job[t].minutes = m
  BY <1>1, Jobs DEF Setter
<1>3. PICK v : v = IF m < 1 THEN 1 ELSE m
  OBVIOUS
<1>4. v \in (Minutes \cup {1, DefaultMinutes}) \ {0}
  BY <1>3, MetricsAssumption
<1>5. PICK c : c = [tc[x] EXCEPT !.interval_duration = v]
  OBVIOUS
<1>6. /\ c \in CounterRecord
      /\ c.total_requests = tc[x].total_requests /\ c.total_errors = tc[x].total_errors
      /\ c.avg_response_ms = tc[x].avg_response_ms
      /\ c.requests_in_interval = tc[x].requests_in_interval
      /\ c.errors_in_interval = tc[x].errors_in_interval
  BY <1>1, <1>4, <1>5 DEF Typed, CounterRecord
<1>7. tc' = [tc EXCEPT ![x] = c]
  BY <1>1, <1>2, <1>3, <1>5 DEF StoreInterval, Typed
<1>8. /\ tc' \in [Tenants -> CounterRecord] /\ tc'[x] = c
      /\ \A y \in Tenants : y # x => tc'[y] = tc[y]
  BY <1>1, <1>6, <1>7, CountersSet
<1>9. Idle \in AnyJob /\ Idle.at = "idle"
  BY DEF AnyJob, Idle
<1>10. job' \in [Threads -> AnyJob] /\ job'[t] = Idle /\ Same(t)
  BY <1>1, <1>9, JobSet DEF StoreInterval
<1>11. job'[t].at \notin Recording /\ job[t].at \notin Recording
  BY <1>1, <1>9, <1>10 DEF Recording, Before, Zeroing, Adding
<1>12. Stay(job[t].at, job'[t].at)
  BY <1>11, StepSets DEF Stay
<1>13. Known(t)' /\ Bound(t) /\ Summed(job[t])' /\ job[t].at \notin Zeroing
  BY <1>1, <1>9, <1>10, <1>11, NoRecord, NoReport DEF Loads, Zeroing
<1>14. Typed'
  BY <1>1, <1>8, <1>10 DEF Typed, StoreInterval
<1>15. \A y \in Tenants :
          /\ tc'[y].total_requests = tc[y].total_requests
          /\ tc'[y].total_errors = tc[y].total_errors
          /\ tc'[y].avg_response_ms = tc[y].avg_response_ms
          /\ tc'[y].requests_in_interval = tc[y].requests_in_interval
          /\ tc'[y].errors_in_interval = tc[y].errors_in_interval
          /\ since'[y] = since[y]
  BY <1>6, <1>8 DEF StoreInterval
<1>16. \A y \in Tenants : Zeroed(y)'
  BY <1>10, <1>13, <1>15, ZeroedKept DEF MInv
<1> QED
  BY <1>10, <1>12, <1>13, <1>14, <1>15, <1>16, Same5 DEF StoreInterval

\* A tenant's entry is made, with zeros, unless there is one.
LEMMA CreateStep ==
    ASSUME MInv, NEW t \in Threads, CreateTenant(t)
    PROVE  MInv'
<1>1. Typed /\ Known(t) /\ job[t].at \in {"create", "set_create"} /\ now \in 0..MaxTime
  BY DEF MInv, CreateTenant, Typed
<1>2. PICK x \in Tenants : job[t].tenant = x
  <2>1. job[t] \in Recorder \/ job[t] \in Setter
    BY <1>1, Jobs DEF Recording, Before
  <2> QED
    BY <2>1 DEF Recorder, Setter
<1>3. m_tenants' = m_tenants \cup {x} /\ tc' = IF x \in m_tenants THEN tc ELSE [tc EXCEPT ![x] = Counters(now)]
  BY <1>2 DEF CreateTenant, Emplace
<1>4. Counters(now) \in CounterRecord
  BY <1>1, MetricsAssumption DEF Counters, CounterRecord
<1>5. /\ tc' \in [Tenants -> CounterRecord]
      /\ \A y \in Tenants : y # x \/ x \in m_tenants => tc'[y] = tc[y]
      /\ x \notin m_tenants => tc'[x] = Counters(now)
  BY <1>1, <1>3, <1>4, CountersSet DEF Typed
<1>6. /\ \A y \in Tenants :
          /\ tc'[y].total_requests = tc[y].total_requests
          /\ tc'[y].total_errors = tc[y].total_errors
          /\ tc'[y].avg_response_ms = tc[y].avg_response_ms
          /\ tc'[y].requests_in_interval = tc[y].requests_in_interval
          /\ tc'[y].errors_in_interval = tc[y].errors_in_interval
          /\ since'[y] = since[y]
  <2>1. since' = since
    BY DEF CreateTenant
  <2>2. Blank(x)
    BY DEF MInv
  <2>3. CASE x \in m_tenants
    BY <1>5, <2>1, <2>3
  <2>4. CASE x \notin m_tenants
    BY <1>5, <2>1, <2>2, <2>4 DEF Blank, Counters
  <2> QED
    BY <2>3, <2>4
<1>7. /\ job' \in [Threads -> AnyJob] /\ Same(t) /\ Bound(t) /\ Stay(job[t].at, job'[t].at)
      /\ Known(t)' /\ Summed(job[t])' /\ job[t].at \notin Zeroing
  <2>1. CASE job[t].at = "create"
    <3>1. job[t].at \in Recording /\ "clock" \in Recording /\ Goto(t, "clock") /\ job[t].at \notin Zeroing
      BY <2>1 DEF Recording, Before, CreateTenant, Zeroing
    <3>2. /\ job' \in [Threads -> AnyJob] /\ Same(t) /\ job'[t].at = "clock"
          /\ job'[t].n = job[t].n /\ job'[t].tenant = job[t].tenant /\ job'[t].err = job[t].err
      BY <1>1, <3>1, Moved
    <3>3. Stay(job[t].at, job'[t].at)
      BY <2>1, <3>2, EarlySteps DEF ToTotal, Before
    <3>4. Bound(t) /\ Known(t)'
      BY <1>1, <1>2, <1>3, <3>1, <3>2 DEF Bound, Known, CreateTenant
    <3>5. Summed(job[t])'
      BY <3>2, NoReport DEF Loads
    <3> QED
      BY <3>1, <3>2, <3>3, <3>4, <3>5
  <2>2. CASE job[t].at = "set_create"
    <3>1. job[t] \in Setter /\ Goto(t, "set")
      BY <1>1, <2>2, Jobs DEF CreateTenant
    <3>2. job' \in [Threads -> AnyJob] /\ Same(t) /\ job'[t].at = "set"
      BY <1>1, <3>1 DEF Goto, Setter, Typed, Same, AnyJob
    <3>3. job'[t].at \notin Recording /\ job[t].at \notin Recording
      BY <2>2, <3>2 DEF Recording, Before, Zeroing, Adding
    <3>4. Stay(job[t].at, job'[t].at)
      BY <3>3, StepSets DEF Stay
    <3>5. Known(t)' /\ Bound(t) /\ Summed(job[t])' /\ job[t].at \notin Zeroing
      BY <2>2, <3>2, <3>3, NoRecord, NoReport DEF Loads, Zeroing
    <3> QED
      BY <3>2, <3>4, <3>5
  <2> QED
    BY <1>1, <2>1, <2>2
<1>8. Typed'
  BY <1>1, <1>3, <1>5, <1>7 DEF Typed, CreateTenant
<1>9. \A y \in Tenants : Zeroed(y)'
  BY <1>6, <1>7, ZeroedKept DEF MInv
<1> QED
  BY <1>3, <1>6, <1>7, <1>8, <1>9, Same5 DEF CreateTenant

\* The exchange of the start: the thread that wins is the one to zero the counters.
LEMMA ExchangeStep ==
    ASSUME MInv, NEW t \in Threads, ExchangeStart(t)
    PROVE  MInv'
<1>1. Typed /\ Known(t) /\ job[t].at = "exchange"
  BY DEF MInv, ExchangeStart
<1>2. job[t] \in Recorder /\ job[t].at \in Recording
  BY <1>1, Jobs DEF Recording, Before
<1>3. PICK x \in Tenants, k \in 0..MaxTime : job[t].tenant = x /\ job[t].clock = k
  BY <1>2 DEF Recorder
<1>4. /\ job[t].at \in Recording \ (Zeroing \cup {"find", "create"})
  BY <1>1 DEF Recording, Before, Zeroing
<1>5. CASE /\ tc' = [tc EXCEPT ![x].interval_start = k]
           /\ since' = [since EXCEPT ![x] = [requests |-> 0, errors |-> 0]]
           /\ Leave(t, "zero_requests")
  <2>1. /\ job' \in [Threads -> AnyJob] /\ Same(t) /\ job'[t].at = "zero_requests"
        /\ job'[t].n = job[t].n /\ job'[t].tenant = job[t].tenant /\ job'[t].err = job[t].err
    BY <1>1, <1>2, <1>5, Moved DEF Recording, Zeroing
  <2>2. Stay(job[t].at, job'[t].at)
    BY <1>1, <2>1, EarlySteps DEF ToTotal, Before, Zeroing
  <2>3. Bound(t)
    BY <1>2, <2>1 DEF Bound
  <2>4. Known(t)' /\ Summed(job[t])'
    BY <1>1, <1>2, <2>1, NoReport DEF Known, Loads, ExchangeStart
  <2>5. /\ tc' \in [Tenants -> CounterRecord]
        /\ \A y \in Tenants :
          /\ tc'[y].total_requests = tc[y].total_requests
          /\ tc'[y].total_errors = tc[y].total_errors
          /\ tc'[y].avg_response_ms = tc[y].avg_response_ms
          /\ tc'[y].requests_in_interval = tc[y].requests_in_interval
          /\ tc'[y].errors_in_interval = tc[y].errors_in_interval
    BY <1>1, <1>3, <1>5 DEF Typed, CounterRecord
  <2>6. /\ since' \in [Tenants -> [requests : Nat, errors : Nat]]
        /\ since'[x].requests = 0 /\ since'[x].errors = 0
        /\ \A y \in Tenants : y # x => since'[y] = since[y]
    BY <1>1, <1>5 DEF Typed
  <2>7. Typed'
    BY <1>1, <2>1, <2>5, <2>6 DEF Typed, ExchangeStart
  <2>8. ASSUME NEW y \in Tenants  PROVE Zeroed(y)'
    <3>1. CASE y = x
      BY <1>3, <2>1, <3>1 DEF Zeroed, Zeroer, Zeroing
    <3>2. CASE y # x
      <4>1. Zeroed(y) /\ tc'[y].requests_in_interval = tc[y].requests_in_interval
            /\ tc'[y].errors_in_interval = tc[y].errors_in_interval /\ since'[y] = since[y]
        BY <2>5, <2>6, <3>2 DEF MInv
      <4> QED
        BY <1>4, <2>1, <4>1, ZeroedKept
    <3> QED
      BY <3>1, <3>2
  <2>9. \A y \in Tenants :
              /\ tc'[y].total_requests = tc[y].total_requests
              /\ tc'[y].total_errors = tc[y].total_errors
              /\ tc'[y].avg_response_ms = tc[y].avg_response_ms
              /\ tc'[y].requests_in_interval \in {0, tc[y].requests_in_interval}
              /\ tc'[y].errors_in_interval \in {0, tc[y].errors_in_interval}
              /\ since'[y].requests \in {0, since[y].requests}
              /\ since'[y].errors \in {0, since[y].errors}
    BY <2>5, <2>6
  <2>10. m_tenants' = m_tenants /\ begun' = begun /\ failed' = failed
    BY DEF ExchangeStart
  <2> QED
    BY <2>1, <2>2, <2>3, <2>4, <2>7, <2>8, <2>9, <2>10, Same5
<1>6. CASE Leave(t, "total") /\ UNCHANGED <<tc, since>>
  <2>1. /\ job' \in [Threads -> AnyJob] /\ Same(t) /\ job'[t].at = "total"
        /\ job'[t].n = job[t].n /\ job'[t].tenant = job[t].tenant /\ job'[t].err = job[t].err
    BY <1>1, <1>2, <1>6, Moved DEF Recording, Adding
  <2>2. Stay(job[t].at, job'[t].at)
    BY <1>1, <2>1, EarlySteps DEF ToTotal, Before
  <2>3. job'[t].at \in Recording \ {"total_err", "interval_err"}
    BY <2>1 DEF Recording, Adding
  <2> QED
    BY <1>4, <1>6, <2>1, <2>2, <2>3, QuietRecord DEF ExchangeStart
<1> QED
  BY <1>3, <1>5, <1>6 DEF ExchangeStart

\* A thread zeroes one counter of the interval.
LEMMA ZeroStep ==
    ASSUME MInv, NEW t \in Threads, ZeroRequests(t) \/ ZeroErrors(t)
    PROVE  MInv'
<1>1. Typed /\ Known(t) /\ job[t].at \in Zeroing
  BY DEF MInv, ZeroRequests, ZeroErrors, Zeroing
<1>2. job[t] \in Recorder /\ job[t].at \in Recording
  BY <1>1, Jobs DEF Recording
<1>3. PICK x \in Tenants : job[t].tenant = x
  BY <1>2 DEF Recorder
<1>4. PICK w \in {"zero_errors", "total"} :
         /\ Goto(t, w)
         /\ w = "zero_errors" <=> job[t].at = "zero_requests"
         /\ tc' = IF w = "zero_errors" THEN [tc EXCEPT ![x].requests_in_interval = 0]
                  ELSE [tc EXCEPT ![x].errors_in_interval = 0]
  BY <1>1, <1>3 DEF ZeroRequests, ZeroErrors, Zeroing
<1>5. w \in Recording /\ w \in ToTotal /\ job[t].at \in ToTotal
  BY <1>1 DEF Recording, Zeroing, Adding, ToTotal
<1>6. /\ job' \in [Threads -> AnyJob] /\ Same(t) /\ job'[t].at = w
      /\ job'[t].n = job[t].n /\ job'[t].tenant = job[t].tenant /\ job'[t].err = job[t].err
  BY <1>1, <1>2, <1>4, <1>5, Moved
<1>7. Stay(job[t].at, job'[t].at)
  BY <1>5, <1>6, EarlySteps
<1>8. m_tenants' = m_tenants /\ begun' = begun /\ failed' = failed /\ since' = since /\ now' = now /\ reads' = reads
  BY DEF ZeroRequests, ZeroErrors
<1>9. Bound(t) /\ Known(t)' /\ Summed(job[t])'
  <2>1. Bound(t)
    BY <1>2, <1>6 DEF Bound
  <2>2. Known(t)'
    BY <1>1, <1>2, <1>6, <1>8 DEF Known, Zeroing
  <2>3. Summed(job[t])'
    BY <1>6, NoReport DEF Loads
  <2> QED
    BY <2>1, <2>2, <2>3
<1>10. /\ tc' \in [Tenants -> CounterRecord]
       /\ \A y \in Tenants :
          /\ tc'[y].total_requests = tc[y].total_requests
          /\ tc'[y].total_errors = tc[y].total_errors
          /\ tc'[y].avg_response_ms = tc[y].avg_response_ms
          /\ tc'[y].requests_in_interval =
                IF y = x /\ w = "zero_errors" THEN 0 ELSE tc[y].requests_in_interval
          /\ tc'[y].errors_in_interval =
                IF y = x /\ w # "zero_errors" THEN 0 ELSE tc[y].errors_in_interval
  <2>1. CASE w = "zero_errors"
    BY <1>1, <1>4, <2>1 DEF Typed, CounterRecord
  <2>2. CASE w # "zero_errors"
    BY <1>1, <1>4, <2>2 DEF Typed, CounterRecord
  <2> QED
    BY <2>1, <2>2
<1>11. Typed'
  BY <1>1, <1>6, <1>8, <1>10 DEF Typed
<1>12. ASSUME NEW y \in Tenants  PROVE Zeroed(y)'
  <2>1. Zeroed(y)
    BY DEF MInv
  <2>2. \A S : y # x /\ Zeroer(y, S) => Zeroer(y, S)'
    BY <1>3, <1>6 DEF Zeroer, Same
  <2>3. CASE y # x
    BY <1>8, <1>10, <2>1, <2>2, <2>3 DEF Zeroed
  <2>4. since[x].requests \in Nat /\ since[x].errors \in Nat
    BY <1>1 DEF Typed
  <2>5. CASE y = x /\ w = "zero_errors"
    <3>1. Zeroer(y, Zeroing)'
      BY <1>3, <1>6, <2>5 DEF Zeroer, Zeroing
    <3>2. tc'[y].requests_in_interval = 0 /\ since'[y].requests \in Nat
      BY <1>8, <1>10, <2>4, <2>5
    <3> QED
      BY <3>1, <3>2 DEF Zeroed
  <2>6. CASE y = x /\ w # "zero_errors"
    <3>1. tc'[y].errors_in_interval = 0 /\ since'[y].errors \in Nat
      BY <1>8, <1>10, <2>4, <2>6
    <3>2. Zeroer(y, {"zero_requests"}) => Zeroer(y, {"zero_requests"})'
      BY <1>4, <1>6, <2>6 DEF Zeroer, Same
    <3>3. tc'[y].requests_in_interval = tc[y].requests_in_interval /\ since'[y] = since[y]
      BY <1>8, <1>10, <2>6
    <3> QED
      BY <2>1, <3>1, <3>2, <3>3 DEF Zeroed
  <2> QED
    BY <2>3, <2>5, <2>6
<1>13. \A y \in Tenants :
              /\ tc'[y].total_requests = tc[y].total_requests
              /\ tc'[y].total_errors = tc[y].total_errors
              /\ tc'[y].avg_response_ms = tc[y].avg_response_ms
              /\ tc'[y].requests_in_interval \in {0, tc[y].requests_in_interval}
              /\ tc'[y].errors_in_interval \in {0, tc[y].errors_in_interval}
              /\ since'[y].requests \in {0, since[y].requests}
              /\ since'[y].errors \in {0, since[y].errors}
  BY <1>8, <1>10
<1> QED
  BY <1>6, <1>7, <1>8, <1>9, <1>11, <1>12, <1>13, Same5

\* The next request has the number after the last.
LEMMA NextNumber ==
    ASSUME Typed, Numbered, NEW n, n = Cardinality(UNION {begun[y] : y \in Tenants}) + 1, n \in Requests
    PROVE  /\ \E N \in 0..MaxRecords : Everyone = 1..N /\ n = N + 1
           /\ \A y \in Tenants : n \notin begun[y]
           /\ n \notin failed
<1>1. PICK N \in 0..MaxRecords : Everyone = 1..N
  BY DEF Numbered
<1>2. N \in Nat
  OBVIOUS
<1>3. Cardinality(1..N) = N
  <2>1. Cardinality(1..N) = IF 1 > N THEN 0 ELSE N - 1 + 1
    BY <1>2, FS_Interval
  <2> QED
    BY <1>2, <2>1
<1>4. n = N + 1
  BY <1>1, <1>3 DEF Everyone
<1>5. n \notin Everyone
  BY <1>1, <1>2, <1>4
<1>6. \A y \in Tenants : n \notin begun[y]
  BY <1>5 DEF Everyone
<1>7. n \notin failed
  BY <1>5 DEF Numbered
<1> QED
  BY <1>1, <1>4, <1>6, <1>7

\* A request begins, and is before all fetch_adds.
LEMMA RecordStep ==
    ASSUME MInv, NEW t \in Threads, NEW x \in Tenants, NEW err \in BOOLEAN, RecordRequest(t, x, err)
    PROVE  MInv'
<1>1. Typed /\ Numbered /\ job[t].at = "idle"
  BY DEF MInv, RecordRequest, Idle
<1>2. PICK n : /\ n = Cardinality(UNION {begun[y] : y \in Tenants}) + 1 /\ n \in Requests
               /\ job' = [job EXCEPT ![t] = [at |-> "find", tenant |-> x, n |-> n, err |-> err,
                                     clock |-> 0, start |-> 0, old |-> {}]]
               /\ begun' = [begun EXCEPT ![x] = @ \cup {n}]
               /\ failed' = IF err THEN failed \cup {n} ELSE failed
  BY DEF RecordRequest
<1>3. PICK N \in 0..MaxRecords : Everyone = 1..N /\ n = N + 1
  BY <1>1, <1>2, NextNumber
<1>4. n \notin failed /\ \A y \in Tenants : n \notin begun[y]
  BY <1>1, <1>2, NextNumber
<1>5. UNCHANGED <<m_tenants, tc, now, since, reads>>
  BY DEF RecordRequest
<1>6. PICK j : j = [at |-> "find", tenant |-> x, n |-> n, err |-> err, clock |-> 0, start |-> 0, old |-> {}]
  OBVIOUS
<1>7. j \in AnyJob
  <2>1. 0 \in 0..MaxTime /\ "find" \in Recording
    BY MetricsAssumption DEF Recording, Before
  <2>2. j \in Recorder
    BY <1>2, <1>6, <2>1 DEF Recorder
  <2> QED
    BY <2>2 DEF AnyJob
<1>8. job' \in [Threads -> AnyJob] /\ job'[t] = j /\ Same(t)
  BY <1>1, <1>2, <1>6, <1>7, JobSet
<1>9. /\ begun'[x] = begun[x] \cup {n}
      /\ \A y \in Tenants : y # x => begun'[y] = begun[y]
      /\ begun' \in [Tenants -> SUBSET Requests]
  BY <1>1, <1>2 DEF Typed
<1>10. Typed'
  <2>1. failed' \subseteq Requests
    BY <1>1, <1>2 DEF Typed
  <2> QED
    BY <1>1, <1>5, <1>8, <1>9, <2>1 DEF Typed
<1>11. Grows
  BY <1>1, <1>5, <1>9 DEF Grows, Typed, CounterRecord
<1>12. job[t].at \notin Recording /\ job[t].at \notin Zeroing
  BY <1>1 DEF Recording, Before, Zeroing, Adding
<1>13. ASSUME NEW u \in Threads, job[u].at \in Recording  PROVE job[u].n # n /\ job'[u] = job[u]
  <2>1. Known(u) /\ job[u] \in Recorder
    BY <1>1, <1>13, Jobs DEF MInv
  <2>2. job[u].n \in begun[job[u].tenant] /\ job[u].tenant \in Tenants
    BY <1>13, <2>1 DEF Known, Recorder
  <2> QED
    BY <1>4, <1>8, <1>12, <1>13, <2>2 DEF Same
<1>14. Numbered'
  <2>1. Everyone' = 1..(N + 1) /\ N + 1 \in 0..MaxRecords
    <3>1. Everyone' = Everyone \cup {n}
      BY <1>9 DEF Everyone
    <3>2. N \in Nat /\ N + 1 \in 0..MaxRecords
      BY <1>2, <1>3, MetricsAssumption DEF Requests
    <3>3. (1..N) \cup {N + 1} = 1..(N + 1)
      BY <3>2
    <3> QED
      BY <1>3, <3>1, <3>2, <3>3
  <2>2. \A y, z \in Tenants : y # z => begun'[y] \cap begun'[z] = {}
    BY <1>1, <1>4, <1>9 DEF Numbered
  <2>3. \A u \in Threads : u # t /\ job'[u].at \in Recording => job[u].at \in Recording /\ job'[u].n = job[u].n /\ job'[u].n # n
    BY <1>8, <1>13 DEF Same
  <2>4. job'[t].n = n
    BY <1>6, <1>8
  <2>5. \A u, v \in Threads : u # v /\ job'[u].at \in Recording /\ job'[v].at \in Recording => job'[u].n # job'[v].n
    BY <1>1, <2>3, <2>4 DEF Numbered
  <2>6. failed' \subseteq Everyone'
    <3>1. Everyone' = Everyone \cup {n}
      BY <1>9 DEF Everyone
    <3> QED
      BY <1>1, <1>2, <3>1 DEF Numbered
  <2> QED
    BY <2>1, <2>2, <2>5, <2>6 DEF Numbered
<1>15. ASSUME NEW u \in Threads  PROVE Known(u)' /\ Summed(job[u])'
  <2>1. CASE u = t
    <3>1. n \in failed' <=> err
      BY <1>2, <1>4
    <3>2. Known(t)'
      BY <1>6, <1>8, <1>9, <3>1 DEF Known
    <3>3. Summed(job[t])'
      <4>1. job'[t].at = "find"
        BY <1>6, <1>8
      <4> QED
        BY <4>1, NoReport DEF Loads
    <3> QED
      BY <2>1, <3>2, <3>3
  <2>2. CASE u # t
    <3>1. job'[u] = job[u]
      BY <1>8, <2>2 DEF Same
    <3>2. Summed(job[u])'
      BY <1>1, <1>10, <1>11, <3>1, SummedKept DEF MInv
    <3>3. Known(u) /\ (job[u].at \in Recording => job[u] \in Recorder)
      BY <1>1, Jobs DEF MInv
    <3>4. ASSUME job[u].at \in Recording  PROVE Known(u)'
      <4>1. job[u].n # n /\ job[u].tenant \in Tenants
        BY <1>13, <3>3, <3>4 DEF Recorder
      <4>2. job[u].n \in failed' <=> job[u].n \in failed
        BY <1>2, <4>1
      <4>3. begun[job[u].tenant] \subseteq begun'[job[u].tenant]
        BY <1>9, <4>1
      <4> QED
        BY <1>5, <3>1, <3>3, <3>4, <4>2, <4>3 DEF Known
    <3>5. job[u].at \notin Recording => Known(u)'
      BY <3>1 DEF Known
    <3> QED
      BY <3>2, <3>4, <3>5
  <2> QED
    BY <2>1, <2>2
<1>16. ASSUME NEW y \in Tenants  PROVE Counted(y)' /\ Blank(y)' /\ Zeroed(y)'
  <2>1. ASSUME NEW S \in SUBSET Recording, "find" \in S
        PROVE  Past(y, S)' = Past(y, S)
    <3>1. job[t].at \notin S /\ job'[t].at \in S /\ job'[t].tenant = x /\ job'[t].n = n
      BY <1>6, <1>8, <1>12, <2>1
    <3>2. InFlight(y, S)' = IF y = x THEN InFlight(y, S) \cup {n} ELSE InFlight(y, S)
      BY <1>8, <3>1, FlightJoins
    <3> QED
      BY <1>4, <1>9, <3>2 DEF Past
  <2>2. "find" \in ToTotal /\ "find" \in ToInterval /\ "find" \in ToTotalErr /\ "find" \in ToIntervalErr
        /\ "find" \in Recording
    BY DEF ToTotal, ToInterval, ToTotalErr, ToIntervalErr, Recording, Before
  <2>3. /\ Past(y, ToTotal)' = Past(y, ToTotal)
        /\ Past(y, ToInterval)' = Past(y, ToInterval)
        /\ Past(y, ToTotalErr)' = Past(y, ToTotalErr)
        /\ Past(y, ToIntervalErr)' = Past(y, ToIntervalErr)
        /\ Past(y, Recording)' = Past(y, Recording)
    BY <2>1, <2>2, StepSets
  <2>4. \A S : Past(y, S) \cap failed' = Past(y, S) \cap failed
    BY <1>2, <1>4 DEF Past
  <2>5. Counted(y)'
    BY <1>5, <2>3, <2>4 DEF Counted, MInv
  <2>6. Blank(y)'
    BY <1>5 DEF Blank, MInv
  <2>7. Zeroed(y)'
    BY <1>5, <1>8, <1>12, ZeroedKept DEF MInv
  <2> QED
    BY <2>5, <2>6, <2>7
<1> QED
  BY <1>10, <1>14, <1>15, <1>16 DEF MInv

-----------------------------------------------------------------------------
(* The fetch_adds                                                          *)

\* A request that passes the steps joins those past them, and was not among them.
LEMMA PastGains ==
    ASSUME Numbered, NEW t \in Threads, Same(t), Known(t), begun' = begun,
           NEW S \in SUBSET Recording, job[t].at \in S, job'[t].at \notin S, NEW y
    PROVE  /\ y = job[t].tenant => Past(y, S)' = Past(y, S) \cup {job[t].n} /\ job[t].n \notin Past(y, S)
           /\ y # job[t].tenant => Past(y, S)' = Past(y, S)
<1>1. InFlight(y, S)' = IF y = job[t].tenant THEN InFlight(y, S) \ {job[t].n} ELSE InFlight(y, S)
  BY FlightLeaves
<1>2. job[t].n \in begun[job[t].tenant]
  BY DEF Known
<1>3. y = job[t].tenant => job[t].n \in InFlight(y, S)
  BY DEF InFlight
<1> QED
  BY <1>1, <1>2, <1>3 DEF Past

\* A request stays before the steps or past them.
LEMMA PastSame ==
    ASSUME NEW t \in Threads, Same(t), begun' = begun, Bound(t), NEW S \in SUBSET Recording,
           job'[t].at \in S <=> job[t].at \in S, NEW y
    PROVE  Past(y, S)' = Past(y, S)
<1>1. job[t].at \in S => job'[t].n = job[t].n /\ job'[t].tenant = job[t].tenant
  BY DEF Bound
<1>2. InFlight(y, S)' = InFlight(y, S)
  BY <1>1, FlightSame
<1> QED
  BY <1>2 DEF Past


\* One counter of a tenant is one higher.
Added(x, c) ==
    /\ tc' \in [Tenants -> CounterRecord]
    /\ \A y \in Tenants : y # x => tc'[y] = tc[y]
    /\ tc'[x].requests_in_interval = tc[x].requests_in_interval + (IF c = "requests_in_interval" THEN 1 ELSE 0)
    /\ tc'[x].errors_in_interval = tc[x].errors_in_interval + (IF c = "errors_in_interval" THEN 1 ELSE 0)
    /\ tc'[x].total_requests = tc[x].total_requests + (IF c = "total_requests" THEN 1 ELSE 0)
    /\ tc'[x].total_errors = tc[x].total_errors + (IF c = "total_errors" THEN 1 ELSE 0)
    /\ tc'[x].avg_response_ms = tc[x].avg_response_ms

\* What a fetch_add does to the counters.
LEMMA AddOne ==
    ASSUME Typed, NEW x \in Tenants,
           NEW c \in {"requests_in_interval", "errors_in_interval", "total_requests", "total_errors"},
           tc' = [tc EXCEPT ![x][c] = @ + 1]
    PROVE  Added(x, c)
<1>1. tc[x] \in CounterRecord
  BY DEF Typed
<1>2. PICK r : r = [tc[x] EXCEPT ![c] = @ + 1]
  OBVIOUS
<1>3. /\ r \in CounterRecord
      /\ r.requests_in_interval = tc[x].requests_in_interval + (IF c = "requests_in_interval" THEN 1 ELSE 0)
      /\ r.errors_in_interval = tc[x].errors_in_interval + (IF c = "errors_in_interval" THEN 1 ELSE 0)
      /\ r.total_requests = tc[x].total_requests + (IF c = "total_requests" THEN 1 ELSE 0)
      /\ r.total_errors = tc[x].total_errors + (IF c = "total_errors" THEN 1 ELSE 0)
      /\ r.avg_response_ms = tc[x].avg_response_ms
  <2>1. CASE c = "requests_in_interval"
    BY <1>1, <1>2, <2>1 DEF CounterRecord
  <2>2. CASE c = "errors_in_interval"
    BY <1>1, <1>2, <2>2 DEF CounterRecord
  <2>3. CASE c = "total_requests"
    BY <1>1, <1>2, <2>3 DEF CounterRecord
  <2>4. CASE c = "total_errors"
    BY <1>1, <1>2, <2>4 DEF CounterRecord
  <2> QED
    BY <2>1, <2>2, <2>3, <2>4
<1>4. tc' = [tc EXCEPT ![x] = r]
  BY <1>2 DEF Typed
<1> QED
  BY <1>3, <1>4, CountersSet DEF Added

\* The history of the interval goes with the counter of the interval.
Since(x, c) ==
    /\ c = "requests_in_interval" => since' = [since EXCEPT ![x].requests = @ + 1]
    /\ c = "errors_in_interval" => since' = [since EXCEPT ![x].errors = @ + 1]
    /\ c \in {"total_requests", "total_errors"} => since' = since

\* One more in the counts since the interval began.
LEMMA SinceOne ==
    ASSUME Typed, NEW x \in Tenants,
           NEW c \in {"requests_in_interval", "errors_in_interval", "total_requests", "total_errors"},
           Since(x, c)
    PROVE  /\ since' \in [Tenants -> [requests : Nat, errors : Nat]]
           /\ \A y \in Tenants : y # x => since'[y] = since[y]
           /\ since'[x].requests = since[x].requests + (IF c = "requests_in_interval" THEN 1 ELSE 0)
           /\ since'[x].errors = since[x].errors + (IF c = "errors_in_interval" THEN 1 ELSE 0)
<1>1. CASE c = "requests_in_interval"
  BY <1>1 DEF Since, Typed
<1>2. CASE c = "errors_in_interval"
  BY <1>2 DEF Since, Typed
<1>3. CASE c \in {"total_requests", "total_errors"}
  BY <1>3 DEF Since, Typed
<1> QED
  BY <1>1, <1>2, <1>3

\* A fetch_add: what the counters count is left to see.
LEMMA CountOne ==
    ASSUME MInv, NEW t \in Threads, NEW x \in Tenants, x = job[t].tenant,
           NEW c \in {"requests_in_interval", "errors_in_interval", "total_requests", "total_errors"},
           tc' = [tc EXCEPT ![x][c] = @ + 1], Since(x, c),
           UNCHANGED <<m_tenants, now, begun, failed, reads>>,
           job[t].at \in {"total", "interval", "total_err", "interval_err"},
           NEW w \in Adding, Goto(t, w), w \in {"total_err", "interval_err"} => job[t].err,
           \A y \in Tenants : Counted(y)'
    PROVE  MInv'
<1>1. Typed /\ Known(t)
  BY DEF MInv
<1>2. job[t].at \in Recording /\ w \in Recording /\ job[t].at \notin Zeroing
  BY DEF Recording, Adding, Zeroing
<1>3. /\ job' \in [Threads -> AnyJob] /\ Same(t) /\ job'[t].at = w
      /\ job'[t].n = job[t].n /\ job'[t].tenant = job[t].tenant /\ job'[t].err = job[t].err
  BY <1>1, <1>2, Moved
<1>4. Bound(t)
  BY <1>2, <1>3 DEF Bound
<1>5. Known(t)'
  BY <1>1, <1>2, <1>3 DEF Known
<1>6. Summed(job[t])'
  BY <1>3, NoReport DEF Loads, Adding
<1>7. Added(x, c)
  BY <1>1, AddOne
<1>8. /\ since' \in [Tenants -> [requests : Nat, errors : Nat]]
      /\ \A y \in Tenants : y # x => since'[y] = since[y]
      /\ since'[x].requests = since[x].requests + (IF c = "requests_in_interval" THEN 1 ELSE 0)
      /\ since'[x].errors = since[x].errors + (IF c = "errors_in_interval" THEN 1 ELSE 0)
  BY <1>1, SinceOne
<1>9. Typed'
  BY <1>1, <1>3, <1>7, <1>8 DEF Typed, Added
<1>10. /\ \A y \in Tenants : /\ tc[y].total_requests \in Nat /\ tc[y].total_errors \in Nat
                             /\ tc[y].requests_in_interval \in Nat /\ tc[y].errors_in_interval \in Nat
                             /\ since[y].requests \in Nat /\ since[y].errors \in Nat
       /\ m_tenants \subseteq Tenants
  BY <1>1 DEF Typed, CounterRecord
<1>11. Grows
  <2>1. \A y \in m_tenants : /\ tc[y].total_requests <= tc'[y].total_requests
                             /\ tc[y].total_errors <= tc'[y].total_errors
    BY <1>7, <1>10 DEF Added
  <2> QED
    BY <2>1 DEF Grows
<1>12. ASSUME NEW y \in Tenants  PROVE Blank(y)' /\ Zeroed(y)'
  <2>1. Blank(y) /\ Zeroed(y)
    BY DEF MInv
  <2>2. x \in m_tenants
    BY <1>1, <1>2 DEF Known
  <2>3. Blank(y)'
    BY <1>7, <2>1, <2>2 DEF Blank, Added
  <2>4. /\ tc[y].requests_in_interval <= since[y].requests
             => tc'[y].requests_in_interval <= since'[y].requests
        /\ tc[y].errors_in_interval <= since[y].errors
             => tc'[y].errors_in_interval <= since'[y].errors
    <3>1. CASE y = x
      BY <1>7, <1>8, <1>10, <3>1 DEF Added
    <3>2. CASE y # x
      BY <1>7, <1>8, <3>2 DEF Added
    <3> QED
      BY <3>1, <3>2
  <2>5. Zeroed(y)'
    BY <1>2, <1>3, <2>1, <2>4, ZeroedKept
  <2> QED
    BY <2>3, <2>5
<1> QED
  BY <1>3, <1>4, <1>5, <1>6, <1>9, <1>11, <1>12, StepInside

\* Other tenants' requests are where they were.
LEMMA Elsewhere ==
    ASSUME NEW t \in Threads, Same(t), begun' = begun, NEW y, y # job[t].tenant, y # job'[t].tenant, NEW S
    PROVE  Past(y, S)' = Past(y, S)
<1> DEFINE B == {u \in Threads : job[u].at \in S /\ job[u].tenant = y}
           A == {u \in Threads : job'[u].at \in S /\ job'[u].tenant = y}
<1>1. A = B /\ \A u \in B : job'[u].n = job[u].n
  BY DEF Same
<1>2. InFlight(y, S)' = {job'[u].n : u \in A} /\ InFlight(y, S) = {job[u].n : u \in B}
  BY DEF InFlight
<1> HIDE DEF A, B
<1>3. InFlight(y, S)' = InFlight(y, S)
  BY <1>1, <1>2
<1> QED
  BY <1>3 DEF Past

\* So their counters count what they did.
LEMMA CountedElsewhere ==
    ASSUME NEW t \in Threads, Same(t), begun' = begun, failed' = failed, NEW y \in Tenants, Counted(y),
           y # job[t].tenant, y # job'[t].tenant, tc'[y] = tc[y], since'[y] = since[y]
    PROVE  Counted(y)'
<1>1. \A S : Past(y, S)' = Past(y, S)
  BY Elsewhere
<1> QED
  BY <1>1 DEF Counted

\* The sets of requests that counters count are small.
LEMMA PastSets ==
    ASSUME Typed, NEW x \in Tenants, NEW S
    PROVE  /\ Past(x, S) \subseteq Requests /\ Past(x, S) \cap failed \subseteq Requests
           /\ Cardinality(Past(x, S)) \in Nat /\ Cardinality(Past(x, S) \cap failed) \in Nat
<1>1. Past(x, S) \subseteq Requests /\ Past(x, S) \cap failed \subseteq Requests
  BY DEF Past, Typed
<1> QED
  BY <1>1, RequestSets

\* The fetch_adds: each counts the request as it passes.
LEMMA CountStep ==
    ASSUME MInv, NEW t \in Threads, Count(t)
    PROVE  MInv'
<1>1. Typed /\ Numbered /\ Known(t) /\ UNCHANGED <<m_tenants, now, begun, failed, reads>>
  BY DEF MInv, Count
<1>2. job[t].at \in {"total", "interval", "total_err", "interval_err"}
  BY DEF Count
<1>3. job[t].at \in Recording /\ job[t] \in Recorder
  BY <1>1, <1>2, Jobs DEF Recording, Adding
<1>4. PICK x \in Tenants, n \in Requests : job[t].tenant = x /\ job[t].n = n
  BY <1>3 DEF Recorder
<1>5. n \in failed <=> job[t].err
  BY <1>1, <1>3, <1>4 DEF Known
<1>6. Counted(x) /\ since[x].requests \in Nat /\ since[x].errors \in Nat
      /\ tc[x].requests_in_interval \in Nat /\ tc[x].errors_in_interval \in Nat
      /\ tc[x].total_requests \in Nat /\ tc[x].total_errors \in Nat
  BY <1>1 DEF MInv, Typed, CounterRecord
<1>7. ASSUME NEW w \in Adding, Goto(t, w)
      PROVE  /\ Same(t) /\ Bound(t) /\ job'[t].at = w /\ job'[t].tenant = x
             /\ \A S \in SUBSET Recording :
                  /\ job[t].at \in S /\ w \notin S => Past(x, S)' = Past(x, S) \cup {n} /\ n \notin Past(x, S)
                  /\ (job[t].at \in S <=> w \in S) => Past(x, S)' = Past(x, S)
  <2>1. w \in Recording
    BY <1>7 DEF Recording
  <2>2. /\ Same(t) /\ job'[t].at = w
        /\ job'[t].n = job[t].n /\ job'[t].tenant = job[t].tenant /\ job'[t].err = job[t].err
    BY <1>1, <1>3, <1>7, <2>1, Moved
  <2>3. Bound(t)
    BY <1>3, <2>2 DEF Bound
  <2>4. ASSUME NEW S \in SUBSET Recording
        PROVE  /\ job[t].at \in S /\ w \notin S => Past(x, S)' = Past(x, S) \cup {n} /\ n \notin Past(x, S)
               /\ (job[t].at \in S <=> w \in S) => Past(x, S)' = Past(x, S)
    <3>1. job[t].at \in S /\ w \notin S => Past(x, S)' = Past(x, S) \cup {n} /\ n \notin Past(x, S)
      BY <1>1, <1>4, <2>2, PastGains
    <3>2. (job[t].at \in S <=> w \in S) => Past(x, S)' = Past(x, S)
      BY <1>1, <2>2, <2>3, PastSame
    <3> QED
      BY <3>1, <3>2
  <2> QED
    BY <1>4, <2>2, <2>3, <2>4
<1>8. ASSUME NEW w \in Adding, Goto(t, w), NEW c, Added(x, c), since' \in [Tenants -> [requests : Nat, errors : Nat]],
             \A y \in Tenants : y # x => since'[y] = since[y], Counted(x)'
      PROVE  \A y \in Tenants : Counted(y)'
  <2>1. Same(t) /\ job'[t].tenant = x
    BY <1>7, <1>8
  <2>2. ASSUME NEW y \in Tenants, y # x  PROVE Counted(y)'
    <3>1. tc'[y] = tc[y] /\ since'[y] = since[y] /\ Counted(y)
      BY <1>8, <2>2 DEF Added, MInv
    <3> QED
      BY <1>1, <1>4, <2>1, <2>2, <3>1, CountedElsewhere
  <2> QED
    BY <1>8, <2>2
<1>9. \A S : /\ Past(x, S) \subseteq Requests /\ Past(x, S) \cap failed \subseteq Requests
             /\ Cardinality(Past(x, S)) \in Nat /\ Cardinality(Past(x, S) \cap failed) \in Nat
  BY <1>1, PastSets
<1>10. CASE /\ job[t].at = "total" /\ tc' = [tc EXCEPT ![x]["total_requests"] = @ + 1]
            /\ Goto(t, "interval") /\ since' = since
  <2>1. Added(x, "total_requests") /\ Since(x, "total_requests")
    BY <1>1, <1>10, AddOne DEF Since
  <2>2. /\ Past(x, ToTotal)' = Past(x, ToTotal) \cup {n} /\ n \notin Past(x, ToTotal)
        /\ Past(x, ToInterval)' = Past(x, ToInterval) /\ Past(x, ToTotalErr)' = Past(x, ToTotalErr)
        /\ Past(x, ToIntervalErr)' = Past(x, ToIntervalErr) /\ Past(x, Recording)' = Past(x, Recording)
    <3>1. /\ "total" \in ToTotal /\ "interval" \notin ToTotal
          /\ {"total", "interval"} \subseteq ToInterval /\ {"total", "interval"} \subseteq ToTotalErr
          /\ {"total", "interval"} \subseteq ToIntervalErr /\ {"total", "interval"} \subseteq Recording
          /\ "interval" \in Adding
      BY DEF ToTotal, ToInterval, ToTotalErr, ToIntervalErr, Recording, Before, Zeroing, Adding
    <3> QED
      BY <1>7, <1>10, <3>1, StepSets
  <2>3. Cardinality(Past(x, ToTotal) \cup {n}) = Cardinality(Past(x, ToTotal)) + 1
    BY <1>9, <2>2, OneMore
  <2>4. Counted(x)'
    BY <1>1, <1>6, <1>10, <2>1, <2>2, <2>3 DEF Counted, Added
  <2>5. "interval" \in Adding
    BY DEF Adding
  <2>6. \A y \in Tenants : Counted(y)'
    BY <1>1, <1>8, <1>10, <2>1, <2>4, <2>5 DEF Typed
  <2> QED
    BY <1>1, <1>2, <1>4, <1>10, <2>1, <2>5, <2>6, CountOne
<1>11. CASE /\ job[t].at = "interval" /\ tc' = [tc EXCEPT ![x]["requests_in_interval"] = @ + 1]
            /\ Goto(t, IF job[t].err THEN "total_err" ELSE "sample")
            /\ since' = [since EXCEPT ![x].requests = @ + 1]
  <2>1. Added(x, "requests_in_interval") /\ Since(x, "requests_in_interval")
    BY <1>1, <1>11, AddOne DEF Since
  <2>2. PICK w : w = IF job[t].err THEN "total_err" ELSE "sample"
    OBVIOUS
  <2>3. /\ w \in Adding /\ Goto(t, w) /\ (w \in {"total_err", "interval_err"} => job[t].err)
        /\ w \in {"total_err", "sample"} /\ (w = "sample" => n \notin failed)
    BY <1>3, <1>5, <1>11, <2>2 DEF Adding, Recorder
  <2>4. /\ Past(x, ToTotal)' = Past(x, ToTotal)
        /\ Past(x, ToInterval)' = Past(x, ToInterval) \cup {n} /\ n \notin Past(x, ToInterval)
        /\ Past(x, Recording)' = Past(x, Recording)
    <3>1. /\ "interval" \in ToInterval /\ w \notin ToInterval
          /\ "interval" \notin ToTotal /\ w \notin ToTotal
          /\ {"interval", w} \subseteq Recording
      BY <2>3 DEF ToTotal, ToInterval, Recording, Before, Zeroing, Adding
    <3> QED
      BY <1>7, <1>11, <2>3, <3>1, StepSets
  <2>5. /\ Past(x, ToTotalErr)' \cap failed = Past(x, ToTotalErr) \cap failed
        /\ Past(x, ToIntervalErr)' \cap failed = Past(x, ToIntervalErr) \cap failed
    <3>1. "interval" \in ToTotalErr /\ "interval" \in ToIntervalErr
          /\ (w = "total_err" => w \in ToTotalErr /\ w \in ToIntervalErr)
          /\ (w = "sample" => w \notin ToTotalErr /\ w \notin ToIntervalErr)
      BY DEF ToTotal, ToInterval, ToTotalErr, ToIntervalErr, Before, Zeroing
    <3>2. CASE w = "total_err"
      <4>1. Past(x, ToTotalErr)' = Past(x, ToTotalErr) /\ Past(x, ToIntervalErr)' = Past(x, ToIntervalErr)
        BY <1>7, <1>11, <2>3, <3>1, <3>2, StepSets
      <4> QED
        BY <4>1
    <3>3. CASE w = "sample"
      <4>1. Past(x, ToTotalErr)' = Past(x, ToTotalErr) \cup {n} /\ Past(x, ToIntervalErr)' = Past(x, ToIntervalErr) \cup {n}
        BY <1>7, <1>11, <2>3, <3>1, <3>3, StepSets
      <4> QED
        BY <2>3, <3>3, <4>1
    <3> QED
      BY <2>3, <3>2, <3>3
  <2>6. Cardinality(Past(x, ToInterval) \cup {n}) = Cardinality(Past(x, ToInterval)) + 1
    BY <1>9, <2>4, OneMore
  <2>7. /\ since' \in [Tenants -> [requests : Nat, errors : Nat]]
        /\ \A y \in Tenants : y # x => since'[y] = since[y]
        /\ since'[x].requests = since[x].requests + 1 /\ since'[x].errors = since[x].errors
    BY <1>1, <1>11 DEF Typed
  <2>8. Cardinality(Past(x, ToInterval)) \in Nat
    BY <1>9
  <2>9. Counted(x)'
    <3>1. /\ (Past(x, ToTotalErr) \cap failed)' = Past(x, ToTotalErr) \cap failed
          /\ (Past(x, ToIntervalErr) \cap failed)' = Past(x, ToIntervalErr) \cap failed
      BY <1>1, <2>5
    <3>2. /\ tc'[x].total_requests = tc[x].total_requests /\ tc'[x].total_errors = tc[x].total_errors
          /\ tc'[x].requests_in_interval = tc[x].requests_in_interval + 1
          /\ tc'[x].errors_in_interval = tc[x].errors_in_interval
          /\ tc'[x].avg_response_ms = tc[x].avg_response_ms
      BY <1>6, <2>1 DEF Added
    <3>3. PICK p \in Nat : p = Cardinality(Past(x, ToInterval)) /\ Cardinality(Past(x, ToInterval)') = p + 1
      BY <2>4, <2>6, <2>8
    <3>4. tc[x].requests_in_interval <= p /\ since[x].requests <= p
      BY <1>6, <3>3 DEF Counted
    <3>5. tc'[x].requests_in_interval <= p + 1 /\ since'[x].requests <= p + 1
      BY <1>6, <2>7, <3>2, <3>4
    <3>6. /\ tc'[x].total_requests = Cardinality(Past(x, ToTotal)')
          /\ tc'[x].total_errors = Cardinality((Past(x, ToTotalErr) \cap failed)')
          /\ tc'[x].errors_in_interval <= Cardinality((Past(x, ToIntervalErr) \cap failed)')
          /\ since'[x].errors <= Cardinality((Past(x, ToIntervalErr) \cap failed)')
          /\ tc'[x].avg_response_ms = Past(x, Recording)'
      BY <1>6, <2>4, <2>7, <3>1, <3>2 DEF Counted
    <3> QED
      BY <3>3, <3>5, <3>6 DEF Counted
  <2>10. \A y \in Tenants : Counted(y)'
    BY <1>8, <2>1, <2>3, <2>7, <2>9
  <2> QED
    BY <1>1, <1>2, <1>4, <1>11, <2>1, <2>3, <2>10, CountOne
<1>12. CASE /\ job[t].at = "total_err" /\ tc' = [tc EXCEPT ![x]["total_errors"] = @ + 1]
            /\ Goto(t, "interval_err") /\ since' = since
  <2>1. Added(x, "total_errors") /\ Since(x, "total_errors")
    BY <1>1, <1>12, AddOne DEF Since
  <2>2. "interval_err" \in Adding /\ job[t].err /\ n \in failed
    BY <1>1, <1>3, <1>5, <1>12 DEF Adding, Known
  <2>3. /\ Past(x, ToTotal)' = Past(x, ToTotal) /\ Past(x, ToInterval)' = Past(x, ToInterval)
        /\ Past(x, ToTotalErr)' = Past(x, ToTotalErr) \cup {n} /\ n \notin Past(x, ToTotalErr)
        /\ Past(x, ToIntervalErr)' = Past(x, ToIntervalErr) /\ Past(x, Recording)' = Past(x, Recording)
    <3>1. /\ "total_err" \in ToTotalErr /\ "interval_err" \notin ToTotalErr
          /\ "total_err" \notin ToInterval /\ "interval_err" \notin ToInterval
          /\ "total_err" \notin ToTotal /\ "interval_err" \notin ToTotal
          /\ {"total_err", "interval_err"} \subseteq ToIntervalErr
          /\ {"total_err", "interval_err"} \subseteq Recording
      BY DEF ToTotal, ToInterval, ToTotalErr, ToIntervalErr, Recording, Before, Zeroing, Adding
    <3> QED
      BY <1>7, <1>12, <2>2, <3>1, StepSets
  <2>4. Cardinality(Past(x, ToTotalErr)' \cap failed) = Cardinality(Past(x, ToTotalErr) \cap failed) + 1
    <3>1. Past(x, ToTotalErr)' \cap failed = (Past(x, ToTotalErr) \cap failed) \cup {n}
      BY <2>2, <2>3
    <3>2. n \notin Past(x, ToTotalErr) \cap failed
      BY <2>3
    <3> QED
      BY <1>9, <3>1, <3>2, OneMore
  <2>5. Counted(x)'
    BY <1>1, <1>6, <1>12, <2>1, <2>3, <2>4 DEF Counted, Added
  <2>6. \A y \in Tenants : Counted(y)'
    BY <1>1, <1>8, <1>12, <2>1, <2>2, <2>5 DEF Typed
  <2> QED
    BY <1>1, <1>2, <1>4, <1>12, <2>1, <2>2, <2>6, CountOne
<1>13. CASE /\ job[t].at = "interval_err" /\ tc' = [tc EXCEPT ![x]["errors_in_interval"] = @ + 1]
            /\ Goto(t, "sample") /\ since' = [since EXCEPT ![x].errors = @ + 1]
  <2>1. Added(x, "errors_in_interval") /\ Since(x, "errors_in_interval")
    BY <1>1, <1>13, AddOne DEF Since
  <2>2. "sample" \in Adding /\ job[t].err /\ n \in failed
    BY <1>1, <1>3, <1>5, <1>13 DEF Adding, Known
  <2>3. /\ Past(x, ToTotal)' = Past(x, ToTotal) /\ Past(x, ToInterval)' = Past(x, ToInterval)
        /\ Past(x, ToIntervalErr)' = Past(x, ToIntervalErr) \cup {n} /\ n \notin Past(x, ToIntervalErr)
        /\ Past(x, ToTotalErr)' = Past(x, ToTotalErr) /\ Past(x, Recording)' = Past(x, Recording)
    <3>1. /\ "interval_err" \in ToIntervalErr /\ "sample" \notin ToIntervalErr
          /\ "interval_err" \notin ToInterval /\ "sample" \notin ToInterval
          /\ "interval_err" \notin ToTotal /\ "sample" \notin ToTotal
          /\ "interval_err" \notin ToTotalErr /\ "sample" \notin ToTotalErr
          /\ {"sample", "interval_err"} \subseteq Recording
      BY DEF ToTotal, ToInterval, ToTotalErr, ToIntervalErr, Recording, Before, Zeroing, Adding
    <3> QED
      BY <1>7, <1>13, <2>2, <3>1, StepSets
  <2>4. Cardinality(Past(x, ToIntervalErr)' \cap failed) = Cardinality(Past(x, ToIntervalErr) \cap failed) + 1
    <3>1. Past(x, ToIntervalErr)' \cap failed = (Past(x, ToIntervalErr) \cap failed) \cup {n}
      BY <2>2, <2>3
    <3>2. n \notin Past(x, ToIntervalErr) \cap failed
      BY <2>3
    <3> QED
      BY <1>9, <3>1, <3>2, OneMore
  <2>5. /\ since' \in [Tenants -> [requests : Nat, errors : Nat]]
        /\ \A y \in Tenants : y # x => since'[y] = since[y]
        /\ since'[x].requests = since[x].requests /\ since'[x].errors = since[x].errors + 1
    BY <1>1, <1>13 DEF Typed
  <2>6. Cardinality(Past(x, ToIntervalErr) \cap failed) \in Nat
    BY <1>9
  <2>7. Counted(x)'
    BY <1>1, <1>6, <2>1, <2>3, <2>4, <2>5, <2>6 DEF Counted, Added
  <2>8. \A y \in Tenants : Counted(y)'
    BY <1>8, <1>13, <2>1, <2>2, <2>5, <2>7
  <2> QED
    BY <1>1, <1>2, <1>4, <1>13, <2>1, <2>2, <2>8, CountOne
<1> QED
  BY <1>4, <1>10, <1>11, <1>12, <1>13 DEF Count

\* The exchange of the average: a sample joins those that were in it, or the thread starts
\* again from what it finds.
LEMMA SampleStep ==
    ASSUME MInv, NEW t \in Threads, ExchangeAverage(t)
    PROVE  MInv'
<1>1. Typed /\ Numbered /\ Known(t) /\ job[t].at = "average"
      /\ UNCHANGED <<m_tenants, now, begun, failed, since, reads>>
  BY DEF MInv, ExchangeAverage
<1>2. job[t].at \in Recording /\ job[t] \in Recorder /\ job[t].at \notin Zeroing
  BY <1>1, Jobs DEF Recording, Adding, Zeroing
<1>3. PICK x \in Tenants, n \in Requests : job[t].tenant = x /\ job[t].n = n
  BY <1>2 DEF Recorder
<1>4. CASE /\ tc[x].avg_response_ms = job[t].old
           /\ tc' = [tc EXCEPT ![x].avg_response_ms = job[t].old \cup {n}]
           /\ job' = [job EXCEPT ![t] = Idle]
  <2>1. Idle \in AnyJob /\ Idle.at = "idle"
    BY DEF AnyJob, Idle
  <2>2. job' \in [Threads -> AnyJob] /\ job'[t] = Idle /\ Same(t)
    BY <1>1, <1>4, <2>1, JobSet
  <2>3. job'[t].at \notin Recording
    BY <2>1, <2>2 DEF Recording, Before, Zeroing, Adding
  <2>4. Known(t)' /\ Bound(t) /\ Summed(job[t])'
    BY <2>1, <2>2, <2>3, NoRecord, NoReport DEF Loads
  <2>5. /\ tc' \in [Tenants -> CounterRecord]
        /\ \A y \in Tenants :
             /\ tc'[y].total_requests = tc[y].total_requests
             /\ tc'[y].total_errors = tc[y].total_errors
             /\ tc'[y].requests_in_interval = tc[y].requests_in_interval
             /\ tc'[y].errors_in_interval = tc[y].errors_in_interval
             /\ y # x => tc'[y].avg_response_ms = tc[y].avg_response_ms
        /\ tc'[x].avg_response_ms = tc[x].avg_response_ms \cup {n}
    BY <1>1, <1>4 DEF Typed, CounterRecord
  <2>6. Typed'
    BY <1>1, <2>2, <2>5 DEF Typed
  <2>7. Grows
    BY <1>1, <2>5 DEF Grows, Typed, CounterRecord
  <2>8. ASSUME NEW y \in Tenants  PROVE Counted(y)' /\ Blank(y)' /\ Zeroed(y)'
    <3>1. Counted(y) /\ Blank(y) /\ Zeroed(y)
      BY DEF MInv
    <3>2. /\ Past(y, ToTotal)' = Past(y, ToTotal)
          /\ Past(y, ToInterval)' = Past(y, ToInterval)
          /\ Past(y, ToTotalErr)' = Past(y, ToTotalErr)
          /\ Past(y, ToIntervalErr)' = Past(y, ToIntervalErr)
      <4>1. /\ job[t].at \notin ToTotal /\ job[t].at \notin ToInterval
            /\ job[t].at \notin ToTotalErr /\ job[t].at \notin ToIntervalErr
        BY <1>1 DEF ToTotal, ToInterval, ToTotalErr, ToIntervalErr, Before, Zeroing
      <4>2. ASSUME NEW S \in SUBSET Recording, job[t].at \notin S  PROVE Past(y, S)' = Past(y, S)
        <5>1. job'[t].at \in S <=> job[t].at \in S
          BY <2>3, <4>2
        <5> QED
          BY <1>1, <2>2, <2>4, <5>1, PastSame
      <4> QED
        BY <4>1, <4>2, StepSets
    <3>3. Past(y, Recording)' = IF y = x THEN Past(y, Recording) \cup {n} ELSE Past(y, Recording)
      BY <1>1, <1>2, <1>3, <2>2, <2>3, PastGains
    <3>4. tc'[y].avg_response_ms = Past(y, Recording)'
      BY <2>5, <3>1, <3>3 DEF Counted
    <3>5. Counted(y)'
      BY <1>1, <2>5, <3>1, <3>2, <3>4 DEF Counted
    <3>6. Blank(y)'
      <4>1. x \in m_tenants
        BY <1>1, <1>2, <1>3 DEF Known
      <4> QED
        BY <1>1, <2>5, <3>1, <4>1 DEF Blank
    <3>7. Zeroed(y)'
      BY <1>1, <1>2, <2>2, <2>5, <3>1, ZeroedKept
    <3> QED
      BY <3>5, <3>6, <3>7
  <2> QED
    BY <1>1, <2>2, <2>4, <2>6, <2>7, <2>8, StepInside
<1>5. CASE job' = [job EXCEPT ![t].old = tc[x].avg_response_ms] /\ UNCHANGED tc
  <2>1. PICK j : j = [job[t] EXCEPT !.old = tc[x].avg_response_ms]
    OBVIOUS
  <2>2. tc[x].avg_response_ms \in SUBSET Requests
    BY <1>1 DEF Typed, CounterRecord
  <2>3. j \in Recorder /\ j.at = "average" /\ j.n = job[t].n /\ j.tenant = job[t].tenant /\ j.err = job[t].err
    BY <1>1, <1>2, <2>1, <2>2 DEF Recorder
  <2>4. job' = [job EXCEPT ![t] = j]
    BY <1>1, <1>5, <2>1 DEF Typed
  <2>5. job' \in [Threads -> AnyJob] /\ job'[t] = j /\ Same(t)
    BY <1>1, <2>3, <2>4, JobSet DEF AnyJob
  <2>6. Stay(job[t].at, job'[t].at)
    BY <1>1, <2>3, <2>5 DEF Stay
  <2>7. /\ job[t].at \in Recording \ (Zeroing \cup {"find", "create"})
        /\ job'[t].at \in Recording \ {"total_err", "interval_err"}
    BY <1>1, <1>2, <2>3, <2>5
  <2> QED
    BY <1>1, <1>5, <2>3, <2>5, <2>6, <2>7, QuietRecord
<1> QED
  BY <1>3, <1>4, <1>5 DEF ExchangeAverage

\* The clock, and steps of other components.
LEMMA TickStep ==
    ASSUME MInv, Tick \/ UNCHANGED metrics_vars
    PROVE  MInv'
<1>1. UNCHANGED <<m_tenants, tc, job, begun, failed, since, reads>> /\ now' \in 0..MaxTime
  BY MetricsAssumption DEF MInv, Typed, Tick, metrics_vars
<1>2. Typed' /\ Numbered'
  BY <1>1 DEF MInv, Typed, Numbered, Everyone
<1>3. Grows
  BY <1>1 DEF MInv, Typed, CounterRecord, Grows
<1>4. ASSUME NEW t \in Threads  PROVE Known(t)' /\ Summed(job[t])'
  <2>1. Known(t)'
    BY <1>1 DEF MInv, Known
  <2>2. Summed(job[t])'
    BY <1>1, <1>2, <1>3, SummedKept DEF MInv
  <2> QED
    BY <2>1, <2>2
<1>5. ASSUME NEW x \in Tenants  PROVE Counted(x)' /\ Blank(x)' /\ Zeroed(x)'
  <2>1. \A S : Past(x, S)' = Past(x, S) /\ Zeroer(x, S)' = Zeroer(x, S)
    BY <1>1 DEF Past, InFlight, Zeroer
  <2>2. Counted(x)'
    BY <1>1, <2>1 DEF MInv, Counted
  <2>3. Blank(x)' /\ Zeroed(x)'
    BY <1>1, <2>1 DEF MInv, Blank, Zeroed
  <2> QED
    BY <2>2, <2>3
<1> QED
  BY <1>2, <1>4, <1>5 DEF MInv

\* At the start nothing is counted.
LEMMA MetricsStart == MetricsInit => MInv
<1> SUFFICES ASSUME MetricsInit  PROVE MInv
  OBVIOUS
<1>1. Typed
  BY MetricsAssumption DEF MetricsInit, Typed, Counters, CounterRecord, AnyJob
<1>2. \A t \in Threads : job[t].at = "idle"
  BY DEF MetricsInit, Idle
<1>3. Numbered
  <2>1. Everyone = 1..0 /\ 0 \in 0..MaxRecords
    BY MetricsAssumption DEF MetricsInit, Everyone
  <2> QED
    BY <1>2, <2>1 DEF MetricsInit, Numbered, Recording, Before, Zeroing, Adding
<1>4. \A t \in Threads : Known(t) /\ Summed(job[t])
  BY <1>2 DEF Known, Summed, Recording, Before, Zeroing, Adding, Loads
<1>5. ASSUME NEW x \in Tenants  PROVE Counted(x) /\ Blank(x) /\ Zeroed(x)
  <2>1. \A S : Past(x, S) = {} /\ Past(x, S) \cap failed = {}
    BY DEF MetricsInit, Past
  <2>2. Cardinality({}) = 0
    BY FS_EmptySet
  <2>3. tc[x] = Counters(0) /\ since[x].requests = 0 /\ since[x].errors = 0
    BY DEF MetricsInit
  <2>4. Counted(x)
    BY <2>1, <2>2, <2>3 DEF Counted, Counters
  <2> QED
    BY <2>3, <2>4 DEF Blank, Zeroed, Counters
<1> QED
  BY <1>1, <1>3, <1>4, <1>5 DEF MInv

\* Every step keeps the invariant.
LEMMA MetricsStep == MInv /\ [MetricsNext]_metrics_vars => MInv'
<1> SUFFICES ASSUME MInv, [MetricsNext]_metrics_vars  PROVE MInv'
  OBVIOUS
<1>1. CASE Tick \/ UNCHANGED metrics_vars
  BY <1>1, TickStep
<1>2. ASSUME NEW t \in Threads,
             \/ FindTenant(t) \/ CreateTenant(t)
             \/ ReadClock(t) \/ CheckInterval(t) \/ ExchangeStart(t)
             \/ ZeroRequests(t) \/ ZeroErrors(t)
             \/ Count(t) \/ LoadAverage(t) \/ ExchangeAverage(t)
             \/ StoreInterval(t) \/ Load(t) \/ Report(t)
      PROVE  MInv'
  BY <1>2, FindStep, CreateStep, ClockStep, CheckStep, ExchangeStep, ZeroStep, CountStep,
     AverageStep, SampleStep, StoreStep, LoadStep, ReportStep
<1>3. ASSUME NEW t \in Threads, NEW x \in Tenants, NEW err \in BOOLEAN, RecordRequest(t, x, err)
      PROVE  MInv'
  BY <1>3, RecordStep
<1>4. ASSUME NEW t \in Threads, NEW x \in Tenants, NEW m \in Minutes, SetIntervalMinutes(t, x, m)
      PROVE  MInv'
  BY <1>4, SetStep
<1>5. ASSUME NEW t \in Threads, NEW asked \in {Tenants} \cup {{x} : x \in Tenants}, GetMetrics(t, asked)
      PROVE  MInv'
  BY <1>5, GetStep
<1> QED
  BY <1>1, <1>2, <1>3, <1>4, <1>5 DEF MetricsNext

-----------------------------------------------------------------------------
(* The theorems                                                            *)

\* The invariant bounds what has no bound of its own.
LEMMA MetricsTypes ==
    ASSUME MInv
    PROVE  MetricsTypeOK
<1>1. Typed
  BY DEF MInv
<1>2. tc \in [Tenants -> TenantCounters]
  <2>1. ASSUME NEW x \in Tenants  PROVE tc[x] \in TenantCounters
    <3>1. /\ tc[x].requests_in_interval \in 0..MaxRecords /\ tc[x].errors_in_interval \in 0..MaxRecords
          /\ tc[x].total_requests \in 0..MaxRecords /\ tc[x].total_errors \in 0..MaxRecords
      <4>1. Counted(x)
        BY DEF MInv
      <4> QED
        BY <1>1, <4>1, TotalsCover, MetricsAssumption
    <3>2. tc[x] \in CounterRecord
      BY <1>1 DEF Typed
    <3> QED
      BY <3>1, <3>2 DEF CounterRecord, TenantCounters
  <2> QED
    BY <1>1, <2>1 DEF Typed
<1>3. since \in [Tenants -> [requests : 0..MaxRecords, errors : 0..MaxRecords]]
  <2>1. ASSUME NEW x \in Tenants  PROVE since[x] \in [requests : 0..MaxRecords, errors : 0..MaxRecords]
    <3>1. since[x].requests <= MaxRecords /\ since[x].errors <= MaxRecords
      BY <1>1, TotalsCover DEF MInv
    <3> QED
      BY <1>1, <3>1, MetricsAssumption DEF Typed
  <2> QED
    BY <1>1, <2>1 DEF Typed
<1>4. ASSUME NEW t \in Threads  PROVE job[t] \in Job
  <2>1. PICK j : j = job[t]
    OBVIOUS
  <2>2. Summed(j) /\ j \in AnyJob
    BY <1>1, <2>1, Jobs DEF MInv
  <2>3. CASE j \in Loader
    <3>1. /\ j.at \in Loads /\ j.of \in Tenants /\ j.left \subseteq Tenants
          /\ j = [at |-> j.at, of |-> j.of, left |-> j.left, sums |-> j.sums]
      BY <2>3 DEF Loader
    <3>2. PICK q \in Nat, e \in Nat, tq \in Nat, te \in Nat :
             /\ j.sums.requests_in_interval = q /\ j.sums.errors_in_interval = e
             /\ j.sums.total_requests = tq /\ j.sums.total_errors = te
      BY <2>3 DEF Loader, SumRecord
    <3>3. PICK after \in Nat, rest \in Nat :
             /\ after = Requested(Tenants \ j.left) /\ after <= MaxRecords
             /\ rest = Requested(Tenants \ (j.left \cup {j.of})) /\ rest <= MaxRecords
      BY <1>1, RequestedBound
    <3>4. PICK ctq \in Nat, cte \in Nat, b \in Nat :
             /\ tc[j.of].total_requests = ctq /\ tc[j.of].total_errors = cte
             /\ b = Cardinality(begun[j.of]) /\ ctq <= b /\ cte <= b
      <4>1. Counted(j.of)
        BY <3>1 DEF MInv
      <4> QED
        BY <1>1, <3>1, <4>1, TotalsCover
    <3>5. j.at \in Loads \ {"load"} => after = rest + b
      <4>1. ASSUME j.at \in Loads \ {"load"}  PROVE after = rest + b
        <5>1. j.of \notin j.left
          BY <2>2, <4>1 DEF Summed
        <5>2. PICK X : X = Tenants \ (j.left \cup {j.of})
          OBVIOUS
        <5>3. X \subseteq Tenants /\ j.of \notin X /\ X \cup {j.of} = Tenants \ j.left
          BY <3>1, <5>1, <5>2
        <5>4. Requested(X \cup {j.of}) = Requested(X) + Cardinality(begun[j.of])
          BY <1>1, <3>1, <5>3, RequestedAdds DEF MInv
        <5> QED
          BY <3>3, <3>4, <5>2, <5>3, <5>4
      <4> QED
        BY <4>1
    <3>6. q <= MaxRecords /\ e <= MaxRecords /\ tq <= MaxRecords /\ te <= MaxRecords
      <4>0. MaxRecords \in Nat
        BY MetricsAssumption
      <4>1. CASE j.at = "load"
        <5>1. q <= tq /\ tq <= after /\ e <= te /\ te <= after
          BY <2>2, <3>2, <3>3, <4>1 DEF Summed, Loads
        <5> QED
          BY <3>3, <4>0, <5>1
      <4>2. CASE j.at = "load_errors"
        <5>1. q <= tq + ctq /\ tq <= rest /\ e <= te /\ te <= rest
          BY <2>2, <3>2, <3>3, <3>4, <4>2 DEF Summed, Loads
        <5> QED
          BY <3>3, <3>4, <3>5, <4>0, <4>2, <5>1 DEF Loads
      <4>3. CASE j.at = "load_total"
        <5>1. q <= tq + ctq /\ tq <= rest /\ e <= te + cte /\ te <= rest
          BY <2>2, <3>2, <3>3, <3>4, <4>3 DEF Summed, Loads
        <5> QED
          BY <3>3, <3>4, <3>5, <4>0, <4>3, <5>1 DEF Loads
      <4>4. CASE j.at = "load_total_errors"
        <5>1. q <= tq /\ tq <= after /\ e <= te + cte /\ te <= rest
          BY <2>2, <3>2, <3>3, <3>4, <4>4 DEF Summed, Loads
        <5> QED
          BY <3>3, <3>4, <3>5, <4>0, <4>4, <5>1 DEF Loads
      <4> QED
        BY <3>1, <4>1, <4>2, <4>3, <4>4 DEF Loads
    <3>7. j.sums \in Sums
      BY <2>3, <3>2, <3>6 DEF Loader, SumRecord, Sums
    <3> QED
      BY <2>1, <3>1, <3>7 DEF Job
  <2>4. CASE j \in Reporter
    <3>1. j.at = "report" /\ j.sums \in SumRecord /\ j = [at |-> j.at, sums |-> j.sums]
      BY <2>4 DEF Reporter
    <3>2. j.sums \in Sums
      BY <2>2, <3>1, MetricsAssumption DEF Summed, SumRecord, Sums
    <3> QED
      BY <2>1, <3>1, <3>2 DEF Job
  <2>5. CASE j \in {Idle} \cup Recorder \cup Setter
    BY <2>1, <2>5 DEF Job, Recorder, Setter, Recording
  <2> QED
    BY <2>2, <2>3, <2>4, <2>5 DEF AnyJob
<1>5. job \in [Threads -> Job]
  BY <1>1, <1>4 DEF Typed
<1> QED
  BY <1>1, <1>2, <1>3, <1>5 DEF Typed, MetricsTypeOK

\* In every reachable state the counters have their types, the totals since startup are
\* exact but for requests on their way, and the average has every sample: for any number
\* of threads, tenants and requests.
THEOREM MetricsExact == MetricsSpec => []CountersInv
<1>1. MInv => CountersInv
  <2> SUFFICES ASSUME MInv  PROVE CountersInv
    OBVIOUS
  <2>1. MetricsTypeOK
    BY MetricsTypes
  <2>2. \A x \in Tenants : Counted(x)
    BY DEF MInv
  <2>3. TotalsExact
    <3>1. \A x \in Tenants : Past(x, ToTotalErr) \cap failed
                               = (begun[x] \cap failed) \ InFlight(x, ToTotalErr)
      BY DEF Past
    <3>2. ToTotalErr = (Before \cup Zeroing \cup {"total"}) \cup {"interval", "total_err"}
      BY DEF ToTotalErr, ToInterval, ToTotal
    <3> QED
      BY <2>2, <3>1, <3>2 DEF TotalsExact, Counted, Past, ToTotal
  <2>4. SamplesKept
    BY <2>2 DEF SamplesKept, Counted, Past, Recording
  <2> QED
    BY <2>1, <2>3, <2>4 DEF CountersInv
<1> QED
  BY <1>1, MetricsStart, MetricsStep, PTL DEF MetricsSpec

\* Once no thread is between the exchange of an interval's start and the zeroing of its
\* counters, they count nothing from before that exchange.
THEOREM MetricsFresh == MetricsSpec => []IntervalIsFresh
<1>1. MInv => IntervalIsFresh
  <2> SUFFICES ASSUME MInv, NEW x \in Tenants, InFlight(x, Zeroing) = {}
               PROVE  /\ tc[x].requests_in_interval <= since[x].requests
                      /\ tc[x].errors_in_interval <= since[x].errors
    BY DEF IntervalIsFresh
  <2>1. ~Zeroer(x, Zeroing) /\ ~Zeroer(x, {"zero_requests"})
    BY DEF Zeroer, InFlight, Zeroing
  <2> QED
    BY <2>1 DEF MInv, Zeroed
<1> QED
  BY <1>1, MetricsStart, MetricsStep, PTL DEF MetricsSpec

\* A report that goes out shows no more requests, or errors, in the interval than since
\* startup, whatever was recorded or reset while it was added up.
THEOREM MetricsReports == MetricsSpec => []ReportConsistent
<1>1. MInv => ReportConsistent
  BY DEF MInv, Summed, ReportConsistent
<1> QED
  BY <1>1, MetricsStart, MetricsStep, PTL DEF MetricsSpec
=============================================================================
