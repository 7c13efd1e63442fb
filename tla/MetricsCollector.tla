-------------------------- MODULE MetricsCollector --------------------------
(***************************************************************************)
(* The request counters of isched_MetricsCollector.cpp.  Every worker      *)
(* thread that ends a request calls record_request; resolvers and the      *)
(* publisher thread read sums of the counters; updateTenantConfig changes  *)
(* the length of a tenant's interval.                                      *)
(*                                                                         *)
(* Only the map of tenants is guarded, by m_mutex.  The counters are       *)
(* relaxed atomics: a step here is one operation on one atomic, but for    *)
(* CheckInterval, taken in the order of the program (what x86-64 compilers *)
(* and processors do with atomic read-modify-writes and with loads).       *)
(*                                                                         *)
(* Time is in minutes.  The moving average is abstracted to the set of     *)
(* samples it was computed from.                                           *)
(***************************************************************************)
EXTENDS Naturals, FiniteSets

CONSTANTS
    Threads, Tenants,
    Minutes,          \* lengths of an interval that updateTenantConfig asks for
    DefaultMinutes,   \* length of a new tenant's interval (60)
    MaxRecords, MaxReads, MaxTime

ASSUME MetricsAssumption ==
    /\ Minutes \subseteq Nat /\ DefaultMinutes \in Nat \ {0}
    /\ MaxRecords \in Nat /\ MaxReads \in Nat /\ MaxTime \in Nat

VARIABLES
    m_tenants,  \* tenants that have counters
    tc,         \* the counters of each
    now,        \* the steady clock
    job,        \* what each thread is doing
    begun,      \* history: for each tenant, the requests recorded or being recorded
    failed,     \* history: the ones among them that ended with an error
    since,      \* history: requests, and errors, counted since the interval began
    reads

metrics_vars == <<m_tenants, tc, now, job, begun, failed, since, reads>>

Requests == 1..MaxRecords

\* TenantCounters and its constructor.
Counters(start) ==
    [requests_in_interval |-> 0, errors_in_interval |-> 0,
     total_requests |-> 0, total_errors |-> 0, avg_response_ms |-> {},
     interval_start |-> start, interval_duration |-> DefaultMinutes]

TenantCounters ==
    [requests_in_interval : 0..MaxRecords, errors_in_interval : 0..MaxRecords,
     total_requests : 0..MaxRecords, total_errors : 0..MaxRecords,
     avg_response_ms : SUBSET Requests,
     interval_start : 0..MaxTime, interval_duration : (Minutes \cup {1, DefaultMinutes}) \ {0}]

Idle == [at |-> "idle"]

\* The steps of record_request between two operations on atomics, in the program's order.
Before == {"find", "create", "clock", "check", "exchange"}
Adding == {"total", "interval", "total_err", "interval_err", "sample", "average"}
Zeroing == {"zero_requests", "zero_errors"}

\* A report adds up, tenant by tenant, the counters in the order of the loads.
Sums == [requests_in_interval : 0..MaxRecords, errors_in_interval : 0..MaxRecords,
         total_requests : 0..MaxRecords, total_errors : 0..MaxRecords]
NoSums == [requests_in_interval |-> 0, errors_in_interval |-> 0,
           total_requests |-> 0, total_errors |-> 0]

Loads == {"load", "load_errors", "load_total", "load_total_errors"}

Job == {Idle}
  \cup [at : Before \cup Zeroing \cup Adding, tenant : Tenants, n : Requests, err : BOOLEAN,
        clock : 0..MaxTime, start : 0..MaxTime, old : SUBSET Requests]
  \cup [at : {"set_find", "set_create", "set"}, tenant : Tenants, minutes : Minutes]
  \cup [at : Loads, of : Tenants, left : SUBSET Tenants, sums : Sums]
  \cup [at : {"report"}, sums : Sums]

MetricsTypeOK ==
    /\ m_tenants \subseteq Tenants
    /\ tc \in [Tenants -> TenantCounters]
    /\ now \in 0..MaxTime
    /\ job \in [Threads -> Job]
    /\ begun \in [Tenants -> SUBSET Requests]
    /\ failed \subseteq Requests
    /\ since \in [Tenants -> [requests : 0..MaxRecords, errors : 0..MaxRecords]]
    /\ reads \in 0..MaxReads

MetricsInit ==
    /\ m_tenants = {} /\ now = 0
    /\ tc = [x \in Tenants |-> Counters(0)]
    /\ job = [t \in Threads |-> Idle]
    /\ begun = [x \in Tenants |-> {}] /\ failed = {}
    /\ since = [x \in Tenants |-> [requests |-> 0, errors |-> 0]]
    /\ reads = 0

-----------------------------------------------------------------------------
(* The map of tenants                                                      *)

\* The values read for the comparison are not used any more.
Leave(t, where) == job' = [job EXCEPT ![t].at = where, ![t].clock = 0, ![t].start = 0]

Goto(t, where) == job' = [job EXCEPT ![t].at = where]

\* Some thread holds m_mutex shared, adding up counters.
Reading == \E t \in Threads : job[t].at \in Loads

\* Mutant: the entry another thread made in the meantime is replaced.
EmplaceFresh(x) ==
    /\ m_tenants' = m_tenants \cup {x}
    /\ tc' = [tc EXCEPT ![x] = Counters(now)]

\* Under the exclusive lock an entry is made unless there is one by now.
Emplace(x) ==
    /\ m_tenants' = m_tenants \cup {x}
    /\ tc' = IF x \in m_tenants THEN tc ELSE [tc EXCEPT ![x] = Counters(now)]

\* The look-up under the shared lock.
FindTenant(t) ==
    /\ \/ job[t].at = "find" /\ Goto(t, IF job[t].tenant \in m_tenants THEN "clock" ELSE "create")
       \/ job[t].at = "set_find" /\ Goto(t, IF job[t].tenant \in m_tenants THEN "set" ELSE "set_create")
    /\ UNCHANGED <<m_tenants, tc, now, begun, failed, since, reads>>

CreateTenant(t) ==
    /\ ~Reading
    /\ \/ job[t].at = "create" /\ Goto(t, "clock")
       \/ job[t].at = "set_create" /\ Goto(t, "set")
    /\ Emplace(job[t].tenant)
    /\ UNCHANGED <<now, begun, failed, since, reads>>

-----------------------------------------------------------------------------
(* maybe_reset_interval                                                    *)

ReadClock(t) ==
    /\ job[t].at = "clock"
    /\ job' = [job EXCEPT ![t].at = "check", ![t].clock = now]
    /\ UNCHANGED <<m_tenants, tc, now, begun, failed, since, reads>>

\* The boundary has passed: the clock was read before the start, and may be behind it.
\* This step alone is two loads, of the start and of the length.  Nothing is lost: if the
\* start changes between them, the exchange of a thread that saw the old one fails and it
\* goes on to count, as a thread does that finds the boundary not passed.
CheckInterval(t) ==
    /\ job[t].at = "check"
    /\ LET c == tc[job[t].tenant] IN
       IF job[t].clock >= c.interval_start + c.interval_duration
       THEN job' = [job EXCEPT ![t].at = "exchange", ![t].start = c.interval_start]
       ELSE Leave(t, "total")
    /\ UNCHANGED <<m_tenants, tc, now, begun, failed, since, reads>>

\* One of the threads that saw the boundary begins the new interval.
ExchangeStart(t) ==
    /\ job[t].at = "exchange"
    /\ LET x == job[t].tenant IN
       IF tc[x].interval_start = job[t].start
       THEN /\ tc' = [tc EXCEPT ![x].interval_start = job[t].clock]
            /\ since' = [since EXCEPT ![x] = [requests |-> 0, errors |-> 0]]
            /\ Leave(t, "zero_requests")
       ELSE Leave(t, "total") /\ UNCHANGED <<tc, since>>
    /\ UNCHANGED <<m_tenants, now, begun, failed, reads>>

ZeroRequests(t) ==
    /\ job[t].at = "zero_requests"
    /\ tc' = [tc EXCEPT ![job[t].tenant].requests_in_interval = 0]
    /\ Goto(t, "zero_errors")
    /\ UNCHANGED <<m_tenants, now, begun, failed, since, reads>>

\* Mutant: the errors of the last interval stay.
ZeroNoErrors(t) ==
    /\ job[t].at = "zero_errors"
    /\ Goto(t, "total")
    /\ UNCHANGED <<m_tenants, tc, now, begun, failed, since, reads>>

ZeroErrors(t) ==
    /\ job[t].at = "zero_errors"
    /\ tc' = [tc EXCEPT ![job[t].tenant].errors_in_interval = 0]
    /\ Goto(t, "total")
    /\ UNCHANGED <<m_tenants, now, begun, failed, since, reads>>

-----------------------------------------------------------------------------
(* record_request                                                          *)

RecordRequest(t, x, err) ==
    /\ job[t] = Idle
    /\ LET n == Cardinality(UNION {begun[y] : y \in Tenants}) + 1 IN
       /\ n \in Requests
       /\ job' = [job EXCEPT ![t] = [at |-> "find", tenant |-> x, n |-> n, err |-> err,
                                     clock |-> 0, start |-> 0, old |-> {}]]
       /\ begun' = [begun EXCEPT ![x] = @ \cup {n}]
       /\ failed' = IF err THEN failed \cup {n} ELSE failed
    /\ UNCHANGED <<m_tenants, tc, now, since, reads>>

\* The fetch_adds.
Count(t) ==
    LET x == job[t].tenant
        Add(counter, next) ==
            /\ tc' = [tc EXCEPT ![x][counter] = @ + 1]
            /\ Goto(t, next)
    IN  /\ \/ job[t].at = "total" /\ Add("total_requests", "interval") /\ UNCHANGED since
           \/ /\ job[t].at = "interval"
              /\ Add("requests_in_interval", IF job[t].err THEN "total_err" ELSE "sample")
              /\ since' = [since EXCEPT ![x].requests = @ + 1]
           \/ job[t].at = "total_err" /\ Add("total_errors", "interval_err") /\ UNCHANGED since
           \/ /\ job[t].at = "interval_err" /\ Add("errors_in_interval", "sample")
              /\ since' = [since EXCEPT ![x].errors = @ + 1]
        /\ UNCHANGED <<m_tenants, now, begun, failed, reads>>

LoadAverage(t) ==
    /\ job[t].at = "sample"
    /\ job' = [job EXCEPT ![t].at = "average", ![t].old = tc[job[t].tenant].avg_response_ms]
    /\ UNCHANGED <<m_tenants, tc, now, begun, failed, since, reads>>

\* compare_exchange_weak: it fails when another thread was faster, and may fail for
\* no reason; it then gives the value to start again from.
ExchangeAverage(t) ==
    /\ job[t].at = "average"
    /\ LET x == job[t].tenant IN
       \/ /\ tc[x].avg_response_ms = job[t].old
          /\ tc' = [tc EXCEPT ![x].avg_response_ms = job[t].old \cup {job[t].n}]
          /\ job' = [job EXCEPT ![t] = Idle]
       \/ /\ job' = [job EXCEPT ![t].old = tc[x].avg_response_ms]
          /\ UNCHANGED tc
    /\ UNCHANGED <<m_tenants, now, begun, failed, since, reads>>

-----------------------------------------------------------------------------
(* The other operations                                                    *)

SetIntervalMinutes(t, x, minutes) ==
    /\ job[t] = Idle /\ reads < MaxReads
    /\ job' = [job EXCEPT ![t] = [at |-> "set_find", tenant |-> x, minutes |-> minutes]]
    /\ reads' = reads + 1
    /\ UNCHANGED <<m_tenants, tc, now, begun, failed, since>>

StoreInterval(t) ==
    /\ job[t].at = "set"
    /\ tc' = [tc EXCEPT ![job[t].tenant].interval_duration =
                 IF job[t].minutes < 1 THEN 1 ELSE job[t].minutes]
    /\ job' = [job EXCEPT ![t] = Idle]
    /\ UNCHANGED <<m_tenants, now, begun, failed, since, reads>>

\* get_server_metrics adds up all tenants, get_tenant_metrics reads one; one nobody
\* has seen has zeros.
GetMetrics(t, asked) ==
    /\ job[t] = Idle /\ reads < MaxReads
    /\ \E x \in asked :
         job' = [job EXCEPT ![t] = [at |-> "load", of |-> x, left |-> asked \cap m_tenants,
                                    sums |-> NoSums]]
    /\ reads' = reads + 1
    /\ UNCHANGED <<m_tenants, tc, now, begun, failed, since>>

\* Mutant: the totals are loaded before the interval's counters.
LoadTotalsFirst(t) ==
    LET Sum(x, counter, next) ==
            job' = [job EXCEPT ![t] = [at |-> next, of |-> x, left |-> job[t].left \ {x},
                      sums |-> [job[t].sums EXCEPT ![counter] = @ + tc[x][counter]]]]
    IN  /\ \/ /\ job[t].at = "load"
              /\ \E x \in job[t].left : Sum(x, "total_requests", "load_errors")
           \/ job[t].at = "load_errors" /\ Sum(job[t].of, "total_errors", "load_total")
           \/ job[t].at = "load_total" /\ Sum(job[t].of, "requests_in_interval", "load_total_errors")
           \/ job[t].at = "load_total_errors" /\ Sum(job[t].of, "errors_in_interval", "load")
           \/ /\ job[t].at = "load" /\ job[t].left = {}
              /\ job' = [job EXCEPT ![t] = [at |-> "report", sums |-> @.sums]]
        /\ UNCHANGED <<m_tenants, tc, now, begun, failed, since, reads>>

\* The four loads of a tenant's counters, one tenant after the other.
Load(t) ==
    LET Sum(x, counter, next) ==
            job' = [job EXCEPT ![t] = [at |-> next, of |-> x, left |-> job[t].left \ {x},
                      sums |-> [job[t].sums EXCEPT ![counter] = @ + tc[x][counter]]]]
    IN  /\ \/ /\ job[t].at = "load"
              /\ \E x \in job[t].left : Sum(x, "requests_in_interval", "load_errors")
           \/ job[t].at = "load_errors" /\ Sum(job[t].of, "errors_in_interval", "load_total")
           \/ job[t].at = "load_total" /\ Sum(job[t].of, "total_requests", "load_total_errors")
           \/ job[t].at = "load_total_errors" /\ Sum(job[t].of, "total_errors", "load")
           \/ /\ job[t].at = "load" /\ job[t].left = {}
              /\ job' = [job EXCEPT ![t] = [at |-> "report", sums |-> @.sums]]
        /\ UNCHANGED <<m_tenants, tc, now, begun, failed, since, reads>>

\* The sums go out as JSON.
Report(t) ==
    /\ job[t].at = "report"
    /\ job' = [job EXCEPT ![t] = Idle]
    /\ UNCHANGED <<m_tenants, tc, now, begun, failed, since, reads>>

Tick ==
    /\ now < MaxTime
    /\ now' = now + 1
    /\ UNCHANGED <<m_tenants, tc, job, begun, failed, since, reads>>

MetricsNext ==
    \/ \E t \in Threads :
         \/ FindTenant(t) \/ CreateTenant(t)
         \/ ReadClock(t) \/ CheckInterval(t) \/ ExchangeStart(t)
         \/ ZeroRequests(t) \/ ZeroErrors(t)
         \/ \E x \in Tenants, err \in BOOLEAN : RecordRequest(t, x, err)
         \/ Count(t) \/ LoadAverage(t) \/ ExchangeAverage(t)
         \/ \E x \in Tenants, m \in Minutes : SetIntervalMinutes(t, x, m)
         \/ StoreInterval(t)
         \/ \E asked \in {Tenants} \cup {{x} : x \in Tenants} : GetMetrics(t, asked)
         \/ Load(t) \/ Report(t)
    \/ Tick

MetricsSpec == MetricsInit /\ [][MetricsNext]_metrics_vars

-----------------------------------------------------------------------------
(* Properties                                                              *)

\* Requests of tenant x that a thread records and whose next step is one of `steps'.
InFlight(x, steps) ==
    {job[t].n : t \in {u \in Threads : job[u].at \in steps /\ job[u].tenant = x}}

\* No request is lost or counted twice in the totals since startup: not when two threads
\* make a new tenant's entry, not over a boundary, not with a report or a change of the
\* interval under way (record_request, MetricsCollector.cpp:37).
TotalsExact ==
    \A x \in Tenants :
      LET early == Before \cup Zeroing \cup {"total"}
          errs  == early \cup {"interval", "total_err"}
      IN  /\ tc[x].total_requests = Cardinality(begun[x] \ InFlight(x, early))
          /\ tc[x].total_errors = Cardinality((begun[x] \cap failed) \ InFlight(x, errs))

\* Every recorded response time is in the tenant's moving average, however many threads
\* update it at once (the compare_exchange_weak loop, MetricsCollector.cpp:74).
SamplesKept ==
    \A x \in Tenants :
      tc[x].avg_response_ms = begun[x] \ InFlight(x, Before \cup Zeroing \cup Adding)

\* Once no thread is between beginning an interval and zeroing its counters, they count
\* nothing from before that interval, however late a thread that saw the boundary too
\* goes on (maybe_reset_interval, MetricsCollector.cpp:16).
IntervalIsFresh ==
    \A x \in Tenants :
      InFlight(x, Zeroing) = {} =>
        /\ tc[x].requests_in_interval <= since[x].requests
        /\ tc[x].errors_in_interval <= since[x].errors

\* A report never shows more requests, or errors, in the interval than since startup,
\* whatever is recorded while it is added up: the totals are counted first and loaded
\* last (get_server_metrics, MetricsCollector.cpp:84).
ReportConsistent ==
    \A t \in Threads : job[t].at = "report" =>
      /\ job[t].sums.requests_in_interval <= job[t].sums.total_requests
      /\ job[t].sums.errors_in_interval <= job[t].sums.total_errors

\* The counters since startup, in every state: the types, totals that are exact and an
\* average of all samples, however calls of record_request overlap.
CountersInv == MetricsTypeOK /\ TotalsExact /\ SamplesKept
=============================================================================
