-------------------------- MODULE RequestExecution --------------------------
(***************************************************************************)
(* A GraphQL request from its arrival to its answer: the connections of    *)
(* HttpSession, the gates and the counters of Server::execute_graphql, the *)
(* cache of parsed queries and the limits of GqlExecutor::execute, and the *)
(* resolution of the top-level fields by resolve_field_selection_details.  *)
(*                                                                         *)
(* Requests run on the worker threads.  One over HTTP brings its context   *)
(* (who the token says the caller is), which is moved into a thread-local  *)
(* slot and is never taken out again.  An operation of a WebSocket calls   *)
(* the overload of execute that leaves the slot alone, and is not counted. *)
(*                                                                         *)
(* A parsed query is shared by the cache and by the requests that execute  *)
(* it; the last to let go destroys it.  A document is the sequence of its  *)
(* fields in the order of the text, each given by its path, and of its     *)
(* definitions that are not executable, each by the name NotExecutable.    *)
(*                                                                         *)
(* Only what a resolver throws is caught.  Any other exception leaves      *)
(* execute and the worker's io_context::run, and ends the process.         *)
(***************************************************************************)
EXTENDS Naturals, Sequences, FiniteSets, FiniteSetsExt

CONSTANTS
    Threads,
    Connections,             \* the sockets an HttpSession may have
    Texts, Document(_),      \* texts, and what parsing gives: the fields, or Unparsable
    Unparsable,
    Guarded(_),              \* the text begins with "mutation" and names no exempt operation
    Users, Tenant(_), Roles(_),   \* what validate_request finds in a caller's token
    Anonymous,               \* the caller without a valid token
    PlatformAdmin,
    Resolvers, Required(_),  \* top-level fields with a resolver, and their required roles
    OrgScoped,               \* k_org_scoped_mutations
    NotExecutable,           \* stands in a document for a definition that is not executable
    Written(_, _),           \* the organizationId a text gives a field: FromVariable, an
                             \* organization, or NoVariables for none
    Unreadable(_, _),        \* a text gives a field an argument that cannot be converted
    Requests,                \* the requests that may arrive
    k_query_cache_max, max_depth, max_complexity,
    MaxRequests

\* An operation of a WebSocket is on no connection of these.
NoConnection == "socket"

NoVariables == "none"
FromVariable == "variable"

ASSUME ExecutionAssumption ==
    /\ k_query_cache_max \in Nat \ {0}
    /\ max_depth \in Nat /\ max_complexity \in Nat /\ MaxRequests \in Nat
    /\ Anonymous \in Users /\ Roles(Anonymous) = {}
    /\ \A r \in Requests : r.text \in Texts /\ r.user \in Users
    /\ IsFiniteSet(Threads) /\ NoConnection \notin Connections
    /\ NotExecutable \notin Resolvers \cup {"__typename"}
    /\ \A text \in Texts, f \in Resolvers : Unreadable(text, f) \in BOOLEAN
    /\ \A text \in Texts : Document(text) # Unparsable =>
          /\ Document(text) \in Seq(Seq(STRING) \ {<<>>})
          /\ \A i \in DOMAIN Document(text) :       \* a nested field is below one before it
               \E k \in 1..i : Document(text)[k] = <<Document(text)[i][1]>>

VARIABLES
    m_query_cache,       \* text -> the parsed query of that number, or None
    heap,                \* the parsed queries that are allocated: number -> text
    tl_resolver_ctx,     \* each thread's slot: the caller its resolvers are run for
    tl_gql_variables,    \* each thread's variables
    job,                 \* the request each thread executes
    http,                \* what each connection's HttpSession is doing
    total_requests, successful_requests, error_count,
    terminated,          \* an exception has left a worker thread: the process has ended
    csrf_refused,        \* history: requests refused before they were executed
    arrived              \* history: requests so far, WebSocket operations included

counters == <<total_requests, successful_requests, error_count, csrf_refused>>
slots    == <<tl_resolver_ctx, tl_gql_variables>>
server   == <<m_query_cache, heap, slots, job, http, counters, arrived>>
vars     == <<server, terminated>>

None == 0
Numbers == 1..MaxRequests
Idle == [at |-> "idle"]
DocumentError == "document"

\* The fields up to the first definition that is not executable.
Executable(doc) == {i \in DOMAIN doc : \A k \in 1..i : doc[k][1] # NotExecutable}

\* What the answer to a document says something about.
Outcome(doc) ==
    {doc[i][1] : i \in Executable(doc)}
       \cup (IF Executable(doc) = DOMAIN doc THEN {} ELSE {DocumentError})

\* Values of an organizationId, and what an answer may name.
Values ==
    {NoVariables} \cup {r.variables : r \in Requests}
       \cup ({Written(text, f) : text \in Texts, f \in Resolvers} \ {FromVariable})
Answerable ==
    {DocumentError}
       \cup UNION {Outcome(Document(q)) : q \in {x \in Texts : Document(x) # Unparsable}}

Steps == {"lookup", "parse", "insert", "limits", "field", "resolver", "finish"}

Job == [at : Steps, n : Numbers, req : Requests,
        on : Connections \cup {NoConnection}, entry : {None} \cup Numbers,
        field : Nat, org : Values, keyed : SUBSET Answerable, failed : SUBSET Answerable]

TypeOK ==
    /\ m_query_cache \in [Texts -> {None} \cup Numbers]
    /\ DOMAIN heap \subseteq Numbers /\ \A e \in DOMAIN heap : heap[e] \in Texts
    /\ tl_resolver_ctx \in [Threads -> Users]
    /\ tl_gql_variables \in [Threads -> Values]
    /\ \A t \in Threads : job[t] = Idle \/ job[t] \in Job
    /\ http \in [Connections -> {"none", "reading", "serving", "writing"}]
    /\ terminated \in BOOLEAN
    /\ \A c \in {total_requests, successful_requests, error_count, csrf_refused, arrived} :
          c \in 0..MaxRequests

Init ==
    /\ m_query_cache = [q \in Texts |-> None] /\ heap = <<>>
    /\ tl_resolver_ctx = [t \in Threads |-> Anonymous]
    /\ tl_gql_variables = [t \in Threads |-> NoVariables]
    /\ job = [t \in Threads |-> Idle]
    /\ http = [k \in Connections |-> "none"]
    /\ total_requests = 0 /\ successful_requests = 0 /\ error_count = 0
    /\ csrf_refused = 0 /\ arrived = 0 /\ terminated = FALSE

-----------------------------------------------------------------------------
(* HttpSession: one request after the other on each connection              *)

BecomesHttp(k, state) == http' = [http EXCEPT ![k] = state]

Accept(k) ==
    /\ http[k] = "none"
    /\ BecomesHttp(k, "reading")
    /\ UNCHANGED <<m_query_cache, heap, slots, job, counters, arrived>>

\* The client is gone, or has sent nothing for 30 seconds.
ReadFails(k) ==
    /\ http[k] = "reading"
    /\ BecomesHttp(k, "none")
    /\ UNCHANGED <<m_query_cache, heap, slots, job, counters, arrived>>

\* handle_request answers all but a POST of a query to /graphql by itself: a preflight, a
\* redirect, a file of the UI or its index page, a body that is not JSON or has no query,
\* an unknown path.  These are not counted; the running average of response times, which
\* they do change, is left out.
AnswerOther(t, k) ==
    /\ job[t] = Idle /\ http[k] = "reading"
    /\ BecomesHttp(k, "writing")
    /\ UNCHANGED <<m_query_cache, heap, slots, job, counters, arrived>>

\* The answer is written: the next request is read, or the connection is shut down.
WriteDone(k) ==
    /\ http[k] = "writing"
    /\ \E next \in {"reading", "none"} : BecomesHttp(k, next)
    /\ UNCHANGED <<m_query_cache, heap, slots, job, counters, arrived>>

-----------------------------------------------------------------------------
(* Arrival                                                                 *)

\* A text that is not an object of JSON counts as no variables.
ParsedVariables(r) == IF r.variables = "junk" THEN NoVariables ELSE r.variables

\* The start of execute, up to the look-up in the cache.
Execute(t, r, k) ==
    /\ tl_gql_variables' = [tl_gql_variables EXCEPT ![t] = ParsedVariables(r)]
    /\ job' = [job EXCEPT ![t] =
          [at |-> IF r.long THEN "finish" ELSE "lookup", n |-> arrived', req |-> r, on |-> k,
           entry |-> None, field |-> 1, org |-> NoVariables,
           keyed |-> {}, failed |-> IF r.long THEN {DocumentError} ELSE {}]]

\* A mutation needs the token, and an allowed Origin or Referer.
CsrfRefuses(r) ==
    /\ Guarded(r.text)
    /\ ~("token" \in r.headers /\ ("origin" \in r.headers \/ "referer" \in r.headers))

Arrive(t) == job[t] = Idle /\ arrived < MaxRequests /\ arrived' = arrived + 1

\* handle_request has read a query and some headers, and calls execute_graphql.
ArriveHttp(t, r, k) == Arrive(t) /\ r.via = "http" /\ http[k] = "reading"

\* Mutant: an anonymous request brings no context.
HttpRequestKeepsCtx(t, r, k) ==
    /\ ArriveHttp(t, r, k) /\ ~CsrfRefuses(r)
    /\ BecomesHttp(k, "serving")
    /\ total_requests' = total_requests + 1
    /\ tl_resolver_ctx' = [tl_resolver_ctx EXCEPT ![t] = IF r.user = Anonymous THEN @ ELSE r.user]
    /\ Execute(t, r, k)
    /\ UNCHANGED <<m_query_cache, heap, successful_requests, error_count, csrf_refused>>

HttpRequest(t, r, k) ==
    /\ ArriveHttp(t, r, k) /\ ~CsrfRefuses(r)
    /\ BecomesHttp(k, "serving")
    /\ total_requests' = total_requests + 1
    /\ tl_resolver_ctx' = [tl_resolver_ctx EXCEPT ![t] = r.user]
    /\ Execute(t, r, k)
    /\ UNCHANGED <<m_query_cache, heap, successful_requests, error_count, csrf_refused>>

\* A refusal is counted neither as a success nor as an error.
HttpRefused(t, r, k) ==
    /\ ArriveHttp(t, r, k) /\ CsrfRefuses(r)
    /\ BecomesHttp(k, "writing")
    /\ total_requests' = total_requests + 1
    /\ csrf_refused' = csrf_refused + 1
    /\ UNCHANGED <<m_query_cache, heap, slots, job, successful_requests, error_count>>

\* A subscribe message: the operation is executed once for its initial value.
SocketOperation(t, r) ==
    /\ Arrive(t) /\ r.via = "socket"
    /\ Execute(t, r, NoConnection)
    /\ UNCHANGED <<m_query_cache, heap, tl_resolver_ctx, http, counters>>

-----------------------------------------------------------------------------
(* The cache of parsed queries                                             *)

Cached(cache) == {cache[q] : q \in Texts} \ {None}
Executing(jobs) == {jobs[t].entry : t \in {u \in Threads : jobs[u] # Idle}} \ {None}

\* Mutant: only the cache keeps a parsed query.
OwnersCacheOnly(cache, jobs) == Cached(cache)

\* The owners of a shared_ptr.
Owners(cache, jobs) == Cached(cache) \cup Executing(jobs)

\* A parsed query nobody owns any more is destroyed.
Release(allocated) == heap' = [e \in DOMAIN allocated \cap Owners(m_query_cache', job') |-> allocated[e]]

\* The look-up under the shared lock.
Lookup(t) ==
    /\ job[t].at = "lookup"
    /\ LET e == m_query_cache[job[t].req.text] IN
       job' = IF e = None THEN [job EXCEPT ![t].at = "parse"]
              ELSE [job EXCEPT ![t].at = "limits", ![t].entry = e]
    /\ UNCHANGED <<m_query_cache, heap, slots, http, counters, arrived>>

\* A text that cannot be parsed ends the request.
Parse(t) ==
    /\ job[t].at = "parse"
    /\ IF Document(job[t].req.text) = Unparsable
       THEN /\ job' = [job EXCEPT ![t].at = "finish", ![t].failed = {DocumentError}]
            /\ UNCHANGED heap
       ELSE /\ job' = [job EXCEPT ![t].at = "insert", ![t].entry = job[t].n]
            /\ heap' = [e \in DOMAIN heap \cup {job[t].n} |->
                          IF e = job[t].n THEN job[t].req.text ELSE heap[e]]
    /\ UNCHANGED <<m_query_cache, slots, http, counters, arrived>>

Occupied == {q \in Texts : m_query_cache[q] # None}

Full == Cardinality(Occupied) >= k_query_cache_max

\* Under the exclusive lock: another thread may have been faster; a full cache loses
\* its first entry, whichever that is.
Insert(t) ==
    /\ job[t].at = "insert"
    /\ LET q == job[t].req.text IN
       IF q \in Occupied THEN UNCHANGED m_query_cache
       ELSE \E evicted \in IF Full THEN {{x} : x \in Occupied} ELSE {{}} :
              m_query_cache' = [x \in Texts |-> IF x = q THEN job[t].n
                                                ELSE IF x \in evicted THEN None
                                                ELSE m_query_cache[x]]
    /\ job' = [job EXCEPT ![t].at = "limits"]
    /\ Release(heap)
    /\ UNCHANGED <<slots, http, counters, arrived>>

-----------------------------------------------------------------------------
(* Limits                                                                  *)

\* analyse_query_complexity: fields in all, and selection sets inside each other.
Complexity(doc) == Cardinality({i \in DOMAIN doc : doc[i][1] # NotExecutable})
Depth(doc) == Max({0} \cup {Len(doc[i]) : i \in DOMAIN doc})

Exceeds(limit, n) == limit > 0 /\ n > limit

\* An empty document, or one over a limit, is not executed.
CheckLimits(t) ==
    /\ job[t].at = "limits"
    /\ LET doc == Document(heap[job[t].entry]) IN
       job' = IF doc = <<>> \/ Exceeds(max_depth, Depth(doc)) \/ Exceeds(max_complexity, Complexity(doc))
              THEN [job EXCEPT ![t].at = "finish", ![t].failed = {DocumentError}]
              ELSE [job EXCEPT ![t].at = "field"]
    /\ UNCHANGED <<m_query_cache, heap, slots, http, counters, arrived>>

-----------------------------------------------------------------------------
(* Fields                                                                  *)

Doc(t) == Document(heap[job[t].entry])
Field(t) == Doc(t)[job[t].field][1]

\* Top-level fields, one after the other: the nested ones belong to the field before.
NextField(doc, i) ==
    LET later == {k \in (i + 1)..Len(doc) : Len(doc[k]) = 1}
    IN  IF later = {} THEN Len(doc) + 1 ELSE Min(later)

\* The field is answered with a value or null (keyed), and with an error (failed).
Answer(t, keyed, failed) ==
    LET f == Field(t)
        i == NextField(Doc(t), job[t].field)
    IN  job' = [job EXCEPT ![t].keyed = @ \cup (IF keyed THEN {f} ELSE {}),
                           ![t].failed = @ \cup (IF failed THEN {f} ELSE {}),
                           ![t].field = i, ![t].org = NoVariables,
                           ![t].at = IF i > Len(Doc(t)) THEN "finish" ELSE "field"]

\* A variable's value, or null where it is missing; a literal as it is written.
Organization(t) ==
    LET written == Written(job[t].req.text, Field(t))
    IN  IF written = FromVariable THEN tl_gql_variables[t] ELSE written

\* The caller holds one of the required roles.
HasRole(ctx, f) == Required(f) = {} \/ Required(f) \cap Roles(ctx) # {}

\* A write must be to the caller's own organization, unless it is a platform_admin's.
InScope(ctx, f, org) ==
    \/ f \notin OrgScoped \/ org = NoVariables \/ Tenant(ctx) = ""
    \/ PlatformAdmin \in Roles(ctx)
    \/ org = Tenant(ctx)

\* A definition that is not executable ends the execution, after the fields before it.
StopAtDefinition(t) ==
    /\ job[t].at = "field" /\ Field(t) = NotExecutable
    /\ job' = [job EXCEPT ![t].at = "finish", ![t].failed = @ \cup {DocumentError}]
    /\ UNCHANGED <<m_query_cache, heap, slots, http, counters, arrived>>

\* __typename is answered from the schema.
TypeName(t) ==
    /\ job[t].at = "field" /\ Field(t) = "__typename"
    /\ Answer(t, TRUE, FALSE)
    /\ UNCHANGED <<m_query_cache, heap, slots, http, counters, arrived>>

\* No resolver, and nothing to take the field from: an error and no value.
MissingResolver(t) ==
    /\ job[t].at = "field" /\ Field(t) \notin Resolvers \cup {"__typename", NotExecutable}
    /\ Answer(t, FALSE, TRUE)
    /\ UNCHANGED <<m_query_cache, heap, slots, http, counters, arrived>>

\* The field is to be resolved, and its arguments are converted.
Reads(t) ==
    /\ job[t].at = "field" /\ Field(t) \in Resolvers
    /\ ~Unreadable(job[t].req.text, Field(t))

\* process_argument_field throws (an integer of more than 64 bits, stoll) before the gates
\* and outside the try: nobody catches it.
ArgumentThrows(t) ==
    /\ job[t].at = "field" /\ Field(t) \in Resolvers
    /\ Unreadable(job[t].req.text, Field(t))
    /\ terminated' = TRUE
    /\ UNCHANGED server

\* FORBIDDEN or CONTEXT_MISMATCH: null, and the next field.
Denied(t) ==
    /\ Reads(t)
    /\ LET ctx == tl_resolver_ctx[t]
       IN  ~HasRole(ctx, Field(t)) \/ ~InScope(ctx, Field(t), Organization(t))
    /\ Answer(t, TRUE, TRUE)
    /\ UNCHANGED <<m_query_cache, heap, slots, http, counters, arrived>>

\* The resolver is called, with a copy of the slot.
CallResolver(t) ==
    /\ Reads(t)
    /\ LET ctx == tl_resolver_ctx[t]
       IN  HasRole(ctx, Field(t)) /\ InScope(ctx, Field(t), Organization(t))
    /\ job' = [job EXCEPT ![t].at = "resolver", ![t].org = Organization(t)]
    /\ UNCHANGED <<m_query_cache, heap, slots, http, counters, arrived>>

\* The field has a selection of its own.
Selects(t) ==
    LET i == job[t].field + 1 IN i \in DOMAIN Doc(t) /\ Len(Doc(t)[i]) > 1

\* A value, an object or list of objects with or without all the fields selected from
\* it, or null.  A selection from a scalar is an error.
ResolverReturns(t) ==
    /\ job[t].at = "resolver"
    /\ \E result \in {"null", "scalar", "complete", "incomplete"} :
         Answer(t, TRUE, Selects(t) /\ result \in {"scalar", "incomplete"})
    /\ UNCHANGED <<m_query_cache, heap, slots, http, counters, arrived>>

\* Mutant: an exception ends the execution.
ResolverThrowsOut(t) ==
    /\ job[t].at = "resolver"
    /\ job' = [job EXCEPT ![t].at = "finish", ![t].keyed = @ \cup {Field(t)},
                          ![t].failed = @ \cup {Field(t)}, ![t].org = NoVariables]
    /\ UNCHANGED <<m_query_cache, heap, slots, http, counters, arrived>>

\* A gql::Error or an exception: null, an error, and the next field.
ResolverThrows(t) ==
    /\ job[t].at = "resolver"
    /\ Answer(t, TRUE, TRUE)
    /\ UNCHANGED <<m_query_cache, heap, slots, http, counters, arrived>>

-----------------------------------------------------------------------------
(* The answer                                                              *)

Http(t) == job[t] # Idle /\ job[t].req.via = "http"

Succeeded(t) == job[t].failed = {}

\* The rest of execute_graphql: the request is counted, the parsed query released.
Respond(t) ==
    /\ job[t].at = "finish"
    /\ IF Http(t)
       THEN /\ BecomesHttp(job[t].on, "writing")
            /\ IF Succeeded(t)
               THEN successful_requests' = successful_requests + 1 /\ UNCHANGED error_count
               ELSE error_count' = error_count + 1 /\ UNCHANGED successful_requests
       ELSE UNCHANGED <<http, successful_requests, error_count>>
    /\ job' = [job EXCEPT ![t] = Idle]
    /\ UNCHANGED m_query_cache
    /\ Release(heap)
    /\ UNCHANGED <<slots, total_requests, csrf_refused, arrived>>

Work ==
    \/ \E k \in Connections : Accept(k) \/ ReadFails(k) \/ WriteDone(k)
    \/ \E t \in Threads :
      \/ \E k \in Connections :
           \/ AnswerOther(t, k)
           \/ \E r \in Requests : HttpRequest(t, r, k) \/ HttpRefused(t, r, k)
      \/ \E r \in Requests : SocketOperation(t, r)
      \/ Lookup(t) \/ Parse(t) \/ Insert(t) \/ CheckLimits(t)
      \/ StopAtDefinition(t) \/ TypeName(t) \/ MissingResolver(t) \/ Denied(t) \/ CallResolver(t)
      \/ ResolverReturns(t) \/ ResolverThrows(t)
      \/ Respond(t)

Next ==
    /\ ~terminated
    /\ \/ Work /\ UNCHANGED terminated
       \/ \E t \in Threads : ArgumentThrows(t)

Spec == Init /\ [][Next]_vars

-----------------------------------------------------------------------------
(* Properties                                                              *)

\* A request executes the parse of its own text, and one that is still there: not when
\* another thread parsed the same text first, not when the entry was evicted under it
\* (GqlExecutor.cpp:3548).
ParseIsOwn ==
    \A t \in Threads :
      job[t].at \in {"insert", "limits", "field", "resolver"} =>
        /\ job[t].entry \in DOMAIN heap
        /\ heap[job[t].entry] = job[t].req.text

\* The cache never holds more than k_query_cache_max entries, each of them the parse of
\* the text it is found by and still allocated; nothing else stays allocated once its
\* request has ended (GqlExecutor.cpp:3581).
CacheIsSound ==
    /\ Cardinality(Occupied) <= k_query_cache_max
    /\ \A q \in Occupied : m_query_cache[q] \in DOMAIN heap /\ heap[m_query_cache[q]] = q
    /\ DOMAIN heap = Cached(m_query_cache) \cup Executing(job)

\* A resolver that a request over HTTP calls runs for that request's caller, with its
\* own variables, whatever the thread executed before (GqlExecutor.hpp:67, "Populated
\* per-request by Server::execute_graphql()").
ResolverServesCaller ==
    \A t \in Threads :
      (job[t].at = "resolver" /\ Http(t)) =>
        /\ tl_resolver_ctx[t] = job[t].req.user
        /\ LET written == Written(job[t].req.text, Field(t))
           IN  job[t].org = IF written = FromVariable THEN ParsedVariables(job[t].req) ELSE written
        /\ HasRole(job[t].req.user, Field(t))

\* A write that runs for a caller of an organization, not a platform_admin, is to that
\* organization: over HTTP the caller's own (GqlExecutor.cpp:3203).
WritesStayInOrganization ==
    \A t \in Threads :
      (/\ job[t].at = "resolver" /\ Field(t) \in OrgScoped /\ job[t].org # NoVariables)
      => \A who \in {tl_resolver_ctx[t]} \cup (IF Http(t) THEN {job[t].req.user} ELSE {}) :
            Tenant(who) \in {"", job[t].org} \/ PlatformAdmin \in Roles(who)

\* Every request over HTTP is counted as arrived when it arrives and as one of refused,
\* successful and failed when it is answered, never as two of them (Server.cpp:1277).  Those
\* in progress when the process ends are counted no more.
RequestsAddUp ==
    total_requests = successful_requests + error_count + csrf_refused
                     + Cardinality({t \in Threads : Http(t)})

\* A field that is denied or whose resolver fails stops neither the fields before nor those
\* after it: an executed document is answered in full, up to a definition that is not
\* executable, each of its top-level fields with a value, null or an error, and none of it is
\* executed when a limit is exceeded (GqlExecutor.cpp:3632).
WithinLimits(doc) ==
    /\ ~Exceeds(max_complexity, Complexity(doc))
    /\ \A i \in DOMAIN doc : ~Exceeds(max_depth, Len(doc[i]))

AnsweredInFull ==
    \A t \in Threads :
      job[t].at = "finish" =>
        LET doc == Document(job[t].req.text)
        IN  \/ /\ doc # Unparsable /\ WithinLimits(doc)
               /\ Outcome(doc) = job[t].keyed \cup job[t].failed
            \/ job[t].failed = {DocumentError} /\ job[t].keyed = {}

\* What ends the process, and every request in progress with it, is an argument that cannot
\* be converted, of a field that execution has reached in a document within the limits: the
\* text alone, its refusal or its other fields never do (GqlExecutor.cpp:2976).
EndsByArgument ==
    terminated =>
      \E t \in Threads :
         /\ job[t].at = "field" /\ Unreadable(job[t].req.text, Field(t))
         /\ WithinLimits(Document(job[t].req.text))
         /\ job[t].field \in Executable(Document(job[t].req.text))

\* The cache of execute, in every state: the types, entries that are sound, and each
\* request on the parse of its own text while entries are evicted.
CacheInv == TypeOK /\ ParseIsOwn /\ CacheIsSound

\* Callers on shared threads, in every state: resolvers run for the caller of their
\* request, and its writes stay in its organization.
IsolationInv == ResolverServesCaller /\ WritesStayInOrganization

\* A connection is served by one thread at a time and has its answer written before the
\* next request on it is looked at: no two answers are under way on one socket
\* (do_read only from on_write, Server.cpp:750).
OneAnswerAtATime ==
    \A k \in Connections :
      Cardinality({t \in Threads : job[t] # Idle /\ job[t].on = k})
        = IF http[k] = "serving" THEN 1 ELSE 0

\* Answers, in every state: no field is left out because another one was denied or its
\* resolver failed, every request that is answered is in one counter of execute_graphql,
\* each connection has one answer at a time, and only an argument that cannot be converted
\* takes the answers away.
AnswersInv == AnsweredInFull /\ RequestsAddUp /\ OneAnswerAtATime /\ EndsByArgument
=============================================================================
