----------------------- MODULE RequestExecutionProofs -----------------------
(***************************************************************************)
(* Proofs about RequestExecution, for any threads, documents, callers and  *)
(* roles: requests of different callers on shared threads stay apart, the  *)
(* cache keeps its bound and owns what it holds, documents are answered in *)
(* full, and every request that is answered is in one counter.             *)
(***************************************************************************)
EXTENDS RequestExecution, FiniteSetTheorems, SequenceTheorems, WellFoundedInduction, TLAPS

\* A request in progress is a record of these fields.
Shaped(j) ==
    /\ j.at \in Steps
    /\ j = [at |-> j.at, n |-> j.n, req |-> j.req, on |-> j.on, entry |-> j.entry,
            field |-> j.field, org |-> j.org, keyed |-> j.keyed, failed |-> j.failed]

Shapes ==
    /\ arrived \in Nat
    /\ job = [t \in Threads |-> job[t]]
    /\ \A t \in Threads : job[t] = Idle \/ Shaped(job[t])
    /\ tl_resolver_ctx = [t \in Threads |-> tl_resolver_ctx[t]]
    /\ tl_gql_variables = [t \in Threads |-> tl_gql_variables[t]]
    /\ m_query_cache = [q \in Texts |-> m_query_cache[q]]

\* Requests are numbered as they arrive, and a parsed query has its request's number:
\* one that has still to be parsed is not allocated.
Numbered ==
    /\ \A e \in DOMAIN heap : e \in 1..arrived
    /\ \A t \in Threads : job[t] # Idle =>
          /\ job[t].n \in 1..arrived
          /\ job[t].req.text \in Texts
          /\ job[t].at \in {"lookup", "parse"} => job[t].n \notin DOMAIN heap
          /\ job[t].at = "insert" => job[t].entry = job[t].n
    /\ \A t, u \in Threads : (job[t] # Idle /\ job[u] # Idle /\ job[t].n = job[u].n) => t = u

\* What the cache holds is the parse of the text it is found by.
EntriesAreSound ==
    \A q \in Texts : m_query_cache[q] # None =>
       m_query_cache[q] \in DOMAIN heap /\ heap[m_query_cache[q]] = q

\* A thread's slots hold what its request brought.
SlotsAreOwn ==
    \A t \in Threads : job[t] # Idle =>
       /\ job[t].req.via = "http" => tl_resolver_ctx[t] = job[t].req.user
       /\ tl_gql_variables[t] = ParsedVariables(job[t].req)

\* A resolver is called behind both gates.
Admitted(t, j) ==
    j.at = "resolver" =>
       LET f == Document(j.req.text)[j.field][1]
       IN  /\ HasRole(tl_resolver_ctx[t], f) /\ InScope(tl_resolver_ctx[t], f, j.org)
           /\ j.org = IF Written(j.req.text, f) = FromVariable THEN tl_gql_variables[t]
                      ELSE Written(j.req.text, f)

GatesHold == \A t \in Threads : Admitted(t, job[t])

IInv == Shapes /\ Numbered /\ EntriesAreSound /\ ParseIsOwn /\ SlotsAreOwn /\ GatesHold

Own == {"insert", "limits", "field", "resolver"}

\* Only the request of t changes.
Moves(t) ==
    /\ job' = [u \in Threads |-> job'[u]]
    /\ \A u \in Threads : u # t => job'[u] = job[u]

\* Nothing is executed at first.
LEMMA ExecutionInit == Init => IInv
<1> SUFFICES ASSUME Init PROVE IInv
  OBVIOUS
<1>1. Shapes
  BY DEF Init, Shapes
<1>2. \A t \in Threads : job[t] = Idle /\ job[t].at = "idle"
  BY DEF Init, Idle
<1>3. DOMAIN heap = {}
  BY DEF Init
<1>4. Numbered /\ EntriesAreSound
  BY <1>2, <1>3 DEF Init, Numbered, EntriesAreSound, None
<1>5. ParseIsOwn /\ SlotsAreOwn /\ GatesHold
  BY <1>2 DEF ParseIsOwn, SlotsAreOwn, GatesHold, Admitted
<1> QED
  BY <1>1, <1>4, <1>5 DEF IInv

\* What the shape of a request says.
LEMMA Running ==
    ASSUME IInv, NEW t \in Threads, job[t].at # "idle"
    PROVE  job[t] # Idle /\ Shaped(job[t])
BY DEF IInv, Shapes, Idle

\* A step of one request that leaves the cache, the parsed queries and the slots alone.
LEMMA LocalStep ==
    ASSUME IInv, NEW t \in Threads, job[t] # Idle, Moves(t), Shaped(job'[t]),
           job'[t].n = job[t].n, job'[t].req = job[t].req,
           job'[t].at \notin {"lookup", "insert"}, job'[t].at = "parse" => job[t].at = "lookup",
           job'[t].at \in Own => /\ job'[t].entry \in DOMAIN heap
                                 /\ heap[job'[t].entry] = job'[t].req.text,
           Admitted(t, job'[t]),
           UNCHANGED <<m_query_cache, heap, slots, arrived>>
    PROVE  IInv'
<1>1. job'[t] # Idle
  BY DEF Shaped, Steps, Idle
<1>2. Shapes'
  BY DEF IInv, Shapes, slots, Shaped, Moves
<1>3. Numbered'
  BY <1>1 DEF IInv, Numbered, slots, Moves
<1>4. EntriesAreSound'
  BY DEF IInv, EntriesAreSound
<1>5. ParseIsOwn'
  BY DEF IInv, ParseIsOwn, Own, Moves
<1>6. SlotsAreOwn'
  BY DEF IInv, SlotsAreOwn, slots, Moves
<1>7. GatesHold'
  BY DEF IInv, GatesHold, Admitted, slots, Moves
<1> QED
  BY <1>2, <1>3, <1>4, <1>5, <1>6, <1>7 DEF IInv

\* A step that no request takes part in; one may have been counted as arrived.
LEMMA OutsideStep ==
    ASSUME IInv, UNCHANGED <<m_query_cache, heap, slots, job>>, arrived' \in {arrived, arrived + 1}
    PROVE  IInv'
<1>1. Shapes' /\ EntriesAreSound' /\ ParseIsOwn' /\ SlotsAreOwn' /\ GatesHold'
  BY DEF IInv, Shapes, EntriesAreSound, ParseIsOwn, SlotsAreOwn, GatesHold, Admitted, slots
<1>2. Numbered'
  BY DEF IInv, Shapes, Numbered
<1> QED
  BY <1>1, <1>2 DEF IInv

\* A request begins to execute, with the next number and with its own variables.
LEMMA BeginStep ==
    ASSUME IInv, NEW t \in Threads, NEW r \in Requests, NEW k, Arrive(t), Execute(t, r, k),
           tl_resolver_ctx' = [tl_resolver_ctx EXCEPT ![t] = tl_resolver_ctx'[t]],
           r.via = "http" => tl_resolver_ctx'[t] = r.user,
           UNCHANGED <<m_query_cache, heap>>
    PROVE  IInv'
<1>1. /\ job[t] = Idle /\ arrived' = arrived + 1 /\ arrived \in Nat
      /\ job'[t].n = arrived' /\ job'[t].req = r /\ job'[t].at \in {"finish", "lookup"}
      /\ Shaped(job'[t]) /\ job'[t] # Idle
      /\ \A u \in Threads : u # t => job'[u] = job[u]
      /\ job' = [u \in Threads |-> job'[u]]
  BY DEF IInv, Shapes, Shaped, Steps, Idle, Arrive, Execute
<1>2. /\ tl_gql_variables'[t] = ParsedVariables(r)
      /\ \A u \in Threads : u # t => /\ tl_gql_variables'[u] = tl_gql_variables[u]
                                     /\ tl_resolver_ctx'[u] = tl_resolver_ctx[u]
      /\ tl_gql_variables' = [u \in Threads |-> tl_gql_variables'[u]]
      /\ tl_resolver_ctx' = [u \in Threads |-> tl_resolver_ctx'[u]]
  BY DEF IInv, Shapes, Execute
<1>3. Shapes'
  BY <1>1, <1>2 DEF IInv, Shapes, Shaped
<1>4. Numbered'
  <2>1. arrived' \notin DOMAIN heap /\ \A u \in Threads : job[u] # Idle => job[u].n # arrived'
    BY <1>1 DEF IInv, Numbered
  <2>2. r.text \in Texts
    BY ExecutionAssumption
  <2> QED
    BY <1>1, <2>1, <2>2 DEF IInv, Numbered
<1>5. EntriesAreSound' /\ ParseIsOwn'
  BY <1>1 DEF IInv, EntriesAreSound, ParseIsOwn
<1>6. SlotsAreOwn'
  BY <1>1, <1>2 DEF IInv, SlotsAreOwn
<1>7. GatesHold'
  BY <1>1, <1>2 DEF IInv, GatesHold, Admitted
<1> QED
  BY <1>3, <1>4, <1>5, <1>6, <1>7 DEF IInv

\* A parsed query that somebody owns after a step is still there.
LEMMA ReleaseKeeps ==
    ASSUME NEW allocated, Release(allocated)
    PROVE  /\ DOMAIN heap' \subseteq DOMAIN allocated
           /\ \A e \in DOMAIN heap' : heap'[e] = allocated[e]
           /\ \A t \in Threads : (job'[t] # Idle /\ job'[t].entry \in DOMAIN allocated
                                  /\ job'[t].entry # None) => job'[t].entry \in DOMAIN heap'
           /\ \A q \in Texts : (m_query_cache'[q] \in DOMAIN allocated
                                  /\ m_query_cache'[q] # None) => m_query_cache'[q] \in DOMAIN heap'
BY DEF Release, Owners, Cached, Executing

\* The field a request is at, by its own text.
LEMMA OwnField ==
    ASSUME IInv, NEW t \in Threads, job[t].at \in Own
    PROVE  /\ job[t].entry \in DOMAIN heap /\ heap[job[t].entry] = job[t].req.text
           /\ Doc(t) = Document(job[t].req.text)
           /\ Field(t) = Document(job[t].req.text)[job[t].field][1]
BY DEF IInv, ParseIsOwn, Own, Doc, Field

\* An answered field: the request goes on to the next one, or to its end.
LEMMA AnswerStep ==
    ASSUME IInv, NEW t \in Threads, job[t].at \in {"field", "resolver"},
           NEW keyed, NEW failed, Answer(t, keyed, failed),
           UNCHANGED <<m_query_cache, heap, slots, arrived>>
    PROVE  IInv'
<1>1. job[t] # Idle /\ Shaped(job[t])
  BY Running
<1>2. job[t].entry \in DOMAIN heap /\ heap[job[t].entry] = job[t].req.text
  BY OwnField DEF Own
<1>3. Moves(t)
  BY <1>1 DEF Answer, Moves, IInv, Shapes
<1>4. /\ job'[t].at \in {"finish", "field"} /\ job'[t].n = job[t].n
      /\ job'[t].req = job[t].req /\ job'[t].entry = job[t].entry
      /\ Shaped(job'[t])
  <2> DEFINE i == NextField(Doc(t), job[t].field)
             at == IF i > Len(Doc(t)) THEN "finish" ELSE "field"
             k == job[t].keyed \cup (IF keyed THEN {Field(t)} ELSE {})
             f == job[t].failed \cup (IF failed THEN {Field(t)} ELSE {})
  <2>1. at \in {"finish", "field"}
    OBVIOUS
  <2>2. job' = [job EXCEPT ![t].keyed = k, ![t].failed = f, ![t].field = i,
                           ![t].org = NoVariables, ![t].at = at]
    BY DEF Answer
  <2> HIDE DEF i, at, k, f
  <2>3. t \in DOMAIN job
    BY DEF IInv, Shapes
  <2>4. job'[t] = [job[t] EXCEPT !.keyed = k, !.failed = f, !.field = i,
                                 !.org = NoVariables, !.at = at]
    BY <2>2, <2>3
  <2>5. job'[t] = [at |-> at, n |-> job[t].n, req |-> job[t].req, on |-> job[t].on,
                   entry |-> job[t].entry, field |-> i, org |-> NoVariables,
                   keyed |-> k, failed |-> f]
    BY <1>1, <2>4 DEF Shaped
  <2> QED
    BY <2>1, <2>5 DEF Shaped, Steps
<1>5. Admitted(t, job'[t])
  BY <1>4 DEF Admitted
<1> QED
  BY <1>1, <1>2, <1>3, <1>4, <1>5, LocalStep DEF Own

\* The look-up in the cache finds the parse of the request's text, or nothing.
LEMMA LookupStep ==
    ASSUME IInv, NEW t \in Threads, Lookup(t)
    PROVE  IInv'
<1>1. job[t] # Idle /\ Shaped(job[t])
  BY Running DEF Lookup
<1>2. job[t].req.text \in Texts
  BY <1>1 DEF IInv, Numbered
<1> DEFINE e == m_query_cache[job[t].req.text]
<1>3. t \in DOMAIN job
  BY DEF IInv, Shapes
<1>4. CASE e = None
  <2>1. job'[t] = [job[t] EXCEPT !.at = "parse"] /\ Moves(t)
    BY <1>3, <1>4 DEF Lookup, Moves, IInv, Shapes
  <2>2. /\ Shaped(job'[t]) /\ job'[t].at = "parse" /\ job'[t].n = job[t].n
        /\ job'[t].req = job[t].req
    BY <1>1, <2>1 DEF Shaped, Steps
  <2>3. Admitted(t, job'[t])
    BY <2>2 DEF Admitted
  <2> QED
    BY <1>1, <2>1, <2>2, <2>3, LocalStep DEF Lookup, Own
<1>5. CASE e # None
  <2>1. e \in DOMAIN heap /\ heap[e] = job[t].req.text
    BY <1>2, <1>5 DEF IInv, EntriesAreSound
  <2>2. job' = [job EXCEPT ![t].at = "limits", ![t].entry = e]
    BY <1>5 DEF Lookup
  <2> HIDE DEF e
  <2>3. job'[t] = [job[t] EXCEPT !.at = "limits", !.entry = e] /\ Moves(t)
    BY <1>3, <2>2 DEF Moves, IInv, Shapes
  <2>4. /\ Shaped(job'[t]) /\ job'[t].at = "limits" /\ job'[t].n = job[t].n
        /\ job'[t].req = job[t].req /\ job'[t].entry = e
    BY <1>1, <2>3 DEF Shaped, Steps
  <2>5. Admitted(t, job'[t])
    BY <2>4 DEF Admitted
  <2> QED
    BY <1>1, <2>1, <2>3, <2>4, <2>5, LocalStep DEF Lookup, Own
<1> QED
  BY <1>4, <1>5

\* A parse is allocated under a number that no other parsed query has.
LEMMA ParseStep ==
    ASSUME IInv, NEW t \in Threads, Parse(t)
    PROVE  IInv'
<1>1. job[t] # Idle /\ Shaped(job[t]) /\ job[t].at = "parse"
  BY Running DEF Parse
<1>2. t \in DOMAIN job
  BY DEF IInv, Shapes
<1>3. CASE Document(job[t].req.text) = Unparsable
  <2>1. job' = [job EXCEPT ![t].at = "finish", ![t].failed = {DocumentError}]
    BY <1>3 DEF Parse
  <2>2. job'[t] = [job[t] EXCEPT !.at = "finish", !.failed = {DocumentError}] /\ Moves(t)
    BY <1>2, <2>1 DEF Moves, IInv, Shapes
  <2>3. /\ Shaped(job'[t]) /\ job'[t].at = "finish" /\ job'[t].n = job[t].n
        /\ job'[t].req = job[t].req
    BY <1>1, <2>2 DEF Shaped, Steps
  <2>4. Admitted(t, job'[t])
    BY <2>3 DEF Admitted
  <2> QED
    BY <1>1, <1>3, <2>2, <2>3, <2>4, LocalStep DEF Parse, Own
<1>4. CASE Document(job[t].req.text) # Unparsable
  <2> DEFINE n == job[t].n
  <2>1. job' = [job EXCEPT ![t].at = "insert", ![t].entry = n]
    BY <1>4 DEF Parse
  <2>2. job'[t] = [job[t] EXCEPT !.at = "insert", !.entry = n] /\ Moves(t)
    BY <1>2, <2>1 DEF Moves, IInv, Shapes
  <2>3. /\ Shaped(job'[t]) /\ job'[t].at = "insert" /\ job'[t].entry = n
        /\ job'[t].n = n /\ job'[t].req = job[t].req
    BY <1>1, <2>2 DEF Shaped, Steps
  <2>4. job'[t] # Idle /\ \A u \in Threads : u # t => job'[u] = job[u]
    <3>1. job'[t] # Idle
      BY <2>3 DEF Idle
    <3> QED
      BY <2>2, <3>1 DEF Moves
  <2>5. /\ n \in 1..arrived /\ n \notin DOMAIN heap /\ job[t].req.text \in Texts
        /\ \A u \in Threads : (job[u] # Idle /\ job[u].n = n) => u = t
    BY <1>1 DEF IInv, Numbered
  <2>6. /\ DOMAIN heap' = DOMAIN heap \cup {n}
        /\ heap'[n] = job[t].req.text
        /\ \A e \in DOMAIN heap : heap'[e] = heap[e]
        /\ UNCHANGED <<m_query_cache, slots, arrived>>
    BY <1>4, <2>5 DEF Parse
  <2> HIDE DEF n
  <2>7. Shapes'
    BY <2>2, <2>3, <2>6 DEF IInv, Shapes, slots, Shaped, Moves
  <2>8. Numbered'
    <3>1. \A e \in DOMAIN heap' : e \in 1..arrived'
      BY <2>5, <2>6 DEF IInv, Numbered
    <3>2. ASSUME NEW u \in Threads, job'[u] # Idle
          PROVE  /\ job'[u].n \in 1..arrived' /\ job'[u].req.text \in Texts
                 /\ job'[u].at \in {"lookup", "parse"} => job'[u].n \notin DOMAIN heap'
                 /\ job'[u].at = "insert" => job'[u].entry = job'[u].n
      <4>1. CASE u = t
        BY <2>3, <2>5, <2>6, <4>1
      <4>2. CASE u # t
        BY <2>4, <2>5, <2>6, <3>2, <4>2 DEF IInv, Numbered
      <4> QED
        BY <4>1, <4>2
    <3>3. \A u \in Threads : job'[u] # Idle => job[u] # Idle /\ job'[u].n = job[u].n
      BY <1>1, <2>3, <2>4, n = job[t].n DEF n
    <3>4. \A u, v \in Threads :
             (job'[u] # Idle /\ job'[v] # Idle /\ job'[u].n = job'[v].n) => u = v
      BY <3>3 DEF IInv, Numbered
    <3> QED
      BY <3>1, <3>2, <3>4 DEF Numbered
  <2>9. EntriesAreSound'
    BY <2>6 DEF IInv, EntriesAreSound
  <2>10. ParseIsOwn'
    BY <2>3, <2>4, <2>6 DEF IInv, ParseIsOwn
  <2>11. SlotsAreOwn'
    <3>1. UNCHANGED <<tl_resolver_ctx, tl_gql_variables>>
      BY <2>6 DEF slots
    <3> QED
      BY <1>1, <2>3, <2>4, <3>1 DEF IInv, SlotsAreOwn
  <2>12. GatesHold'
    <3>1. UNCHANGED <<tl_resolver_ctx, tl_gql_variables>>
      BY <2>6 DEF slots
    <3> QED
      BY <2>3, <2>4, <3>1 DEF IInv, GatesHold, Admitted
  <2> QED
    BY <2>7, <2>8, <2>9, <2>10, <2>11, <2>12 DEF IInv
<1> QED
  BY <1>3, <1>4

\* A step of t after which parsed queries that nobody owns are gone.
LEMMA ReleasingStep ==
    ASSUME IInv, NEW t \in Threads, job[t] # Idle, Release(heap), Moves(t),
           \/ job'[t] = Idle
           \/ /\ Shaped(job'[t]) /\ job'[t].at = "limits" /\ job[t].at \in Own
              /\ job'[t].entry = job[t].entry
              /\ job'[t].n = job[t].n /\ job'[t].req = job[t].req,
           m_query_cache' = [q \in Texts |-> m_query_cache'[q]],
           \A q \in Texts :
              \/ m_query_cache'[q] \in {None, m_query_cache[q]}
              \/ /\ m_query_cache'[q] = job[t].entry /\ q = job[t].req.text
                 /\ job[t].at \in Own,
           UNCHANGED <<slots, arrived>>
    PROVE  IInv'
<1> DEFINE j == job'[t]
<1>1. \A u \in Threads : u # t => job'[u] = job[u]
  BY DEF Moves
<1>2. j # Idle => Shaped(j) /\ j.at = "limits" /\ j.entry = job[t].entry /\ job[t].at \in Own
                  /\ j.n = job[t].n /\ j.req = job[t].req
  OBVIOUS
<1>3. Idle.at = "idle"
  BY DEF Idle
<1>4. None \notin DOMAIN heap
  BY DEF IInv, Shapes, Numbered, None
<1>5. /\ DOMAIN heap' \subseteq DOMAIN heap
      /\ \A e \in DOMAIN heap' : heap'[e] = heap[e]
      /\ \A u \in Threads : (job'[u] # Idle /\ job'[u].entry \in DOMAIN heap)
                              => job'[u].entry \in DOMAIN heap'
      /\ \A q \in Texts : m_query_cache'[q] \in DOMAIN heap => m_query_cache'[q] \in DOMAIN heap'
  BY <1>4, ReleaseKeeps
<1>6. job[t].at \in Own => job[t].entry \in DOMAIN heap /\ heap[job[t].entry] = job[t].req.text
  BY OwnField
<1>7. Shapes'
  BY <1>2 DEF IInv, Shapes, slots, Shaped, Moves
<1>8. Numbered'
  BY <1>1, <1>2, <1>5 DEF IInv, Numbered
<1>9. EntriesAreSound'
  BY <1>5, <1>6 DEF IInv, EntriesAreSound
<1>10. ParseIsOwn'
  <2>1. ASSUME NEW u \in Threads, job'[u].at \in Own
        PROVE  job'[u].entry \in DOMAIN heap' /\ heap'[job'[u].entry] = job'[u].req.text
    <3>1. job'[u] # Idle
      BY <1>3, <2>1 DEF Own
    <3>2. job'[u].entry \in DOMAIN heap /\ heap[job'[u].entry] = job'[u].req.text
      <4>1. CASE u = t
        BY <1>1, <1>2, <1>6, <3>1, <4>1
      <4>2. CASE u # t
        BY <1>1, <2>1, <4>2, OwnField
      <4> QED
        BY <4>1, <4>2
    <3> QED
      BY <1>5, <3>1, <3>2
  <2> QED
    BY <2>1 DEF ParseIsOwn, Own
<1>11. SlotsAreOwn'
  BY <1>1, <1>2 DEF IInv, SlotsAreOwn, slots
<1>12. GatesHold'
  <2>1. job'[t].at # "resolver"
    BY <1>1, <1>2, <1>3
  <2> QED
    BY <1>1, <2>1 DEF IInv, GatesHold, Admitted, slots
<1> QED
  BY <1>7, <1>8, <1>9, <1>10, <1>11, <1>12 DEF IInv

\* A step is one of the running process, or the one that ends it and changes nothing else.
LEMMA StepsAreWork ==
    ASSUME [Next]_vars
    PROVE  Work \/ UNCHANGED server
BY DEF Next, vars, ArgumentThrows

\* Every step keeps the invariant.
LEMMA ExecutionStep == IInv /\ [Next]_vars => IInv'
<1> SUFFICES ASSUME IInv, Work \/ UNCHANGED server PROVE IInv'
  BY StepsAreWork
<1>1. ASSUME NEW k \in Connections,
             \/ Accept(k) \/ ReadFails(k) \/ WriteDone(k)
             \/ \E t \in Threads : AnswerOther(t, k)
             \/ \E t \in Threads, r \in Requests : HttpRefused(t, r, k)
      PROVE  IInv'
  <2>1. UNCHANGED <<m_query_cache, heap, slots, job>> /\ arrived' \in {arrived, arrived + 1}
    BY <1>1 DEF Accept, ReadFails, WriteDone, AnswerOther, HttpRefused, ArriveHttp, Arrive
  <2> QED
    BY <2>1, OutsideStep
<1>2. ASSUME NEW t \in Threads, NEW r \in Requests, NEW k \in Connections, HttpRequest(t, r, k)
      PROVE  IInv'
  <2>1. /\ tl_resolver_ctx' = [tl_resolver_ctx EXCEPT ![t] = tl_resolver_ctx'[t]]
        /\ tl_resolver_ctx'[t] = r.user
    BY <1>2 DEF HttpRequest, IInv, Shapes
  <2> QED
    BY <1>2, <2>1, BeginStep DEF HttpRequest, ArriveHttp
<1>3. ASSUME NEW t \in Threads, NEW r \in Requests, SocketOperation(t, r) PROVE IInv'
  <2>1. /\ tl_resolver_ctx' = [tl_resolver_ctx EXCEPT ![t] = tl_resolver_ctx'[t]]
        /\ r.via # "http"
    BY <1>3 DEF SocketOperation, IInv, Shapes
  <2> QED
    BY <1>3, <2>1, BeginStep DEF SocketOperation
<1>4. ASSUME NEW t \in Threads, CheckLimits(t) PROVE IInv'
  <2>1. job[t] # Idle /\ Shaped(job[t]) /\ t \in DOMAIN job
    BY <1>4, Running DEF CheckLimits, IInv, Shapes
  <2>2. job[t].entry \in DOMAIN heap /\ heap[job[t].entry] = job[t].req.text
    BY <1>4, OwnField DEF CheckLimits, Own
  <2>3. \/ job' = [job EXCEPT ![t].at = "finish", ![t].failed = {DocumentError}]
        \/ job' = [job EXCEPT ![t].at = "field"]
    BY <1>4 DEF CheckLimits
  <2>4. /\ Moves(t)
        /\ \/ job'[t] = [job[t] EXCEPT !.at = "finish", !.failed = {DocumentError}]
           \/ job'[t] = [job[t] EXCEPT !.at = "field"]
    BY <2>1, <2>3 DEF Moves, IInv, Shapes
  <2>5. /\ Shaped(job'[t]) /\ job'[t].at \in {"finish", "field"} /\ job'[t].n = job[t].n
        /\ job'[t].req = job[t].req /\ job'[t].entry = job[t].entry
    BY <2>1, <2>4 DEF Shaped, Steps
  <2>6. Admitted(t, job'[t])
    BY <2>5 DEF Admitted
  <2> QED
    BY <1>4, <2>1, <2>2, <2>4, <2>5, <2>6, LocalStep DEF CheckLimits
<1>10. ASSUME NEW t \in Threads, StopAtDefinition(t) PROVE IInv'
  <2>1. job[t] # Idle /\ Shaped(job[t]) /\ t \in DOMAIN job
    BY <1>10, Running DEF StopAtDefinition, IInv, Shapes
  <2> DEFINE f == job[t].failed \cup {DocumentError}
  <2>2. job' = [job EXCEPT ![t].at = "finish", ![t].failed = f]
    BY <1>10 DEF StopAtDefinition
  <2> HIDE DEF f
  <2>3. Moves(t) /\ job'[t] = [job[t] EXCEPT !.at = "finish", !.failed = f]
    BY <2>1, <2>2 DEF Moves, IInv, Shapes
  <2>4. /\ Shaped(job'[t]) /\ job'[t].at = "finish" /\ job'[t].n = job[t].n
        /\ job'[t].req = job[t].req
    BY <2>1, <2>3 DEF Shaped, Steps
  <2>5. Admitted(t, job'[t])
    BY <2>4 DEF Admitted
  <2> QED
    BY <1>10, <2>1, <2>3, <2>4, <2>5, LocalStep DEF StopAtDefinition, Own
<1>5. ASSUME NEW t \in Threads,
             \/ TypeName(t) \/ MissingResolver(t) \/ Denied(t)
             \/ ResolverReturns(t) \/ ResolverThrows(t)
      PROVE  IInv'
  <2>1. /\ job[t].at \in {"field", "resolver"}
        /\ UNCHANGED <<m_query_cache, heap, slots, arrived>>
        /\ \E keyed, failed : Answer(t, keyed, failed)
    BY <1>5 DEF TypeName, MissingResolver, Denied, Reads, ResolverReturns, ResolverThrows
  <2> QED
    BY <2>1, AnswerStep
<1>6. ASSUME NEW t \in Threads, CallResolver(t) PROVE IInv'
  <2>1. job[t] # Idle /\ Shaped(job[t]) /\ t \in DOMAIN job
    BY <1>6, Running DEF CallResolver, Reads, IInv, Shapes
  <2>2. /\ job[t].entry \in DOMAIN heap /\ heap[job[t].entry] = job[t].req.text
        /\ Field(t) = Document(job[t].req.text)[job[t].field][1]
    BY <1>6, OwnField DEF CallResolver, Reads, Own
  <2> DEFINE o == Organization(t)
  <2>3. job' = [job EXCEPT ![t].at = "resolver", ![t].org = o]
    BY <1>6 DEF CallResolver
  <2>4. /\ HasRole(tl_resolver_ctx[t], Field(t)) /\ InScope(tl_resolver_ctx[t], Field(t), o)
        /\ o = IF Written(job[t].req.text, Field(t)) = FromVariable THEN tl_gql_variables[t]
               ELSE Written(job[t].req.text, Field(t))
    BY <1>6 DEF CallResolver, Organization
  <2> HIDE DEF o
  <2>5. Moves(t) /\ job'[t] = [job[t] EXCEPT !.at = "resolver", !.org = o]
    BY <2>1, <2>3 DEF Moves, IInv, Shapes
  <2>6. /\ Shaped(job'[t]) /\ job'[t].at = "resolver" /\ job'[t].n = job[t].n
        /\ job'[t].req = job[t].req /\ job'[t].entry = job[t].entry
        /\ job'[t].field = job[t].field /\ job'[t].org = o
    BY <2>1, <2>5 DEF Shaped, Steps
  <2>7. Admitted(t, job'[t])
    BY <2>2, <2>4, <2>6 DEF Admitted
  <2> QED
    BY <1>6, <2>1, <2>2, <2>5, <2>6, <2>7, LocalStep DEF CallResolver, Reads
<1>7. ASSUME NEW t \in Threads, Insert(t) PROVE IInv'
  <2>1. job[t] # Idle /\ Shaped(job[t]) /\ t \in DOMAIN job
    BY <1>7, Running DEF Insert, IInv, Shapes
  <2>2. Moves(t) /\ job'[t] = [job[t] EXCEPT !.at = "limits"]
    BY <1>7, <2>1 DEF Insert, Moves, IInv, Shapes
  <2>3. /\ Shaped(job'[t]) /\ job'[t].at = "limits" /\ job'[t].n = job[t].n
        /\ job'[t].req = job[t].req /\ job'[t].entry = job[t].entry
    BY <2>1, <2>2 DEF Shaped, Steps
  <2>4. job[t].entry = job[t].n
    BY <1>7, <2>1 DEF Insert, IInv, Numbered
  <2>5. /\ m_query_cache' = [q \in Texts |-> m_query_cache'[q]]
        /\ \A q \in Texts :
              \/ m_query_cache'[q] \in {None, m_query_cache[q]}
              \/ m_query_cache'[q] = job[t].entry /\ q = job[t].req.text
    BY <1>7, <2>4 DEF Insert, IInv, Shapes
  <2> QED
    BY <1>7, <2>1, <2>2, <2>3, <2>5, ReleasingStep DEF Insert, Own
<1>8. ASSUME NEW t \in Threads, Respond(t) PROVE IInv'
  <2>1. job[t] # Idle
    BY <1>8 DEF Respond, Idle
  <2>2. Moves(t) /\ job'[t] = Idle
    BY <1>8 DEF Respond, Moves, IInv, Shapes
  <2>3. /\ m_query_cache' = [q \in Texts |-> m_query_cache'[q]]
        /\ \A q \in Texts : m_query_cache'[q] \in {None, m_query_cache[q]}
    BY <1>8 DEF Respond, IInv, Shapes
  <2> QED
    BY <1>8, <2>1, <2>2, <2>3, ReleasingStep DEF Respond
<1>9. CASE UNCHANGED server
  BY <1>9, OutsideStep DEF server
<1> QED
  BY <1>1, <1>2, <1>3, <1>4, <1>5, <1>6, <1>7, <1>8, <1>9, <1>10, LookupStep, ParseStep DEF Work

\* The invariant of execution holds in every state.
THEOREM ExecutionInvariant == Spec => []IInv
<1> QED
  BY ExecutionInit, ExecutionStep, PTL DEF Spec

\* Whatever a thread executed before, a request over HTTP has its resolvers run for its own
\* caller and with its own variables, behind the role gate, and its writes stay in that
\* caller's organization (GqlExecutor.cpp:3203).
THEOREM CallersAreIsolated == Spec => []IsolationInv
<1>1. ASSUME IInv PROVE IsolationInv
  <2>1. ASSUME NEW t \in Threads, job[t].at = "resolver"
        PROVE  /\ HasRole(tl_resolver_ctx[t], Field(t))
               /\ InScope(tl_resolver_ctx[t], Field(t), job[t].org)
               /\ job[t].org = IF Written(job[t].req.text, Field(t)) = FromVariable
                               THEN ParsedVariables(job[t].req)
                               ELSE Written(job[t].req.text, Field(t))
               /\ Http(t) => tl_resolver_ctx[t] = job[t].req.user
    <3>1. job[t] # Idle
      BY <2>1 DEF Idle
    <3>2. Field(t) = Document(job[t].req.text)[job[t].field][1]
      BY <1>1, <2>1, OwnField DEF Own
    <3>3. tl_gql_variables[t] = ParsedVariables(job[t].req)
      BY <1>1, <3>1 DEF IInv, SlotsAreOwn
    <3> QED
      BY <1>1, <2>1, <3>1, <3>2, <3>3 DEF IInv, GatesHold, Admitted, SlotsAreOwn, Http
  <2>2. ResolverServesCaller
    BY <2>1 DEF ResolverServesCaller
  <2>3. WritesStayInOrganization
    BY <2>1 DEF WritesStayInOrganization, InScope
  <2> QED
    BY <2>2, <2>3 DEF IsolationInv
<1> QED
  BY <1>1, ExecutionInvariant, PTL

\* A request executes the parse of its own text, still allocated, while entries of the
\* cache are evicted and replaced (GqlExecutor.cpp:3548).
THEOREM ParsesAreOwn == Spec => []ParseIsOwn
<1>1. IInv => ParseIsOwn
  BY DEF IInv
<1> QED
  BY <1>1, ExecutionInvariant, PTL

-----------------------------------------------------------------------------
(* The cache and the answers                                               *)

\* A request in progress, besides its shape: what it brought and what it has gathered.
JobTyped(j) ==
    /\ j.req \in Requests /\ j.on \in Connections \cup {NoConnection}
    /\ j.field \in Nat /\ j.org \in Values
    /\ j.keyed \subseteq Answerable /\ j.failed \subseteq Answerable

\* Requests are counted when they arrive, and no more of them arrive than the bound.
Counts ==
    /\ total_requests \in Nat /\ successful_requests \in Nat /\ error_count \in Nat
    /\ csrf_refused \in Nat
    /\ total_requests <= arrived /\ arrived <= MaxRequests

Typed ==
    /\ tl_resolver_ctx \in [Threads -> Users] /\ tl_gql_variables \in [Threads -> Values]
    /\ http \in [Connections -> {"none", "reading", "serving", "writing"}]
    /\ \A t \in Threads : job[t] # Idle => JobTyped(job[t])

\* Only what could be parsed is allocated.
Parsed == \A e \in DOMAIN heap : heap[e] \in Texts /\ Document(heap[e]) # Unparsable

Within(doc) == doc # Unparsable /\ WithinLimits(doc)

\* The fields that have a value, null or an error so far.
Given(j) == j.keyed \cup j.failed

Covered(doc, j, n) == \A i \in 1..(n - 1) : Len(doc[i]) = 1 => doc[i][1] \in Given(j)

\* No definition that is not executable up to place n.
Free(doc, n) == \A k \in 1..n : doc[k][1] # NotExecutable

\* A request has answered nothing before it executes its document, and has no parsed query
\* before the look-up; every top-level field before the one it is at while it does, having
\* met no definition that ends it; and all or nothing at its end.
Progress(j) ==
    LET doc == Document(j.req.text)
    IN  /\ j.at \in {"lookup", "parse", "insert", "limits"} =>
              j.keyed = {} /\ j.failed = {} /\ j.field = 1
        /\ j.at \in {"lookup", "parse"} => j.entry = None
        /\ j.at \in {"field", "resolver"} =>
              /\ Within(doc) /\ j.field \in DOMAIN doc
              /\ Given(j) \subseteq Outcome(doc)
              /\ Covered(doc, j, j.field) /\ Free(doc, j.field - 1)
        /\ j.at = "resolver" => doc[j.field][1] # NotExecutable
        /\ j.at = "finish" =>
              \/ Within(doc) /\ Outcome(doc) = Given(j)
              \/ j.failed = {DocumentError} /\ j.keyed = {}

Progressing == \A t \in Threads : job[t] # Idle => Progress(job[t])

\* A connection that is being served is served by one request, and every request over HTTP
\* has its connection.
Serving ==
    /\ \A t \in Threads : job[t] # Idle =>
          /\ job[t].on \in Connections <=> job[t].req.via = "http"
          /\ job[t].on \in Connections => http[job[t].on] = "serving"
    /\ \A t, u \in Threads :
          (job[t] # Idle /\ job[u] # Idle /\ job[t].on \in Connections /\ job[t].on = job[u].on)
          => t = u
    /\ \A k \in Connections :
          http[k] = "serving" => \E t \in Threads : job[t] # Idle /\ job[t].on = k

CacheBound == IsFiniteSet(Occupied) /\ CacheIsSound

RequestInv ==
    /\ IInv /\ Typed /\ Counts /\ Parsed /\ Progressing /\ Serving /\ RequestsAddUp /\ CacheBound

\* A step of a request between its beginning and its end.
Inner(t) ==
    /\ Moves(t) /\ job[t] # Idle /\ job'[t] # Idle
    /\ job'[t].n = job[t].n /\ job'[t].req = job[t].req /\ job'[t].on = job[t].on
    /\ UNCHANGED <<slots, http, counters, arrived>>

SameGathered(t) ==
    /\ job'[t].field = job[t].field /\ job'[t].org = job[t].org
    /\ job'[t].keyed = job[t].keyed /\ job'[t].failed = job[t].failed

\* What the inner steps do to the request.
LEMMA LookupMoves ==
    ASSUME IInv, NEW t \in Threads, Lookup(t)
    PROVE  /\ Inner(t) /\ SameGathered(t) /\ job[t].at = "lookup"
           /\ UNCHANGED <<m_query_cache, heap>>
           /\ \/ job'[t].at = "parse" /\ job'[t].entry = job[t].entry
              \/ /\ job'[t].at = "limits" /\ job'[t].entry = m_query_cache[job[t].req.text]
                 /\ job'[t].entry # None
<1>1. job[t] # Idle /\ Shaped(job[t]) /\ t \in DOMAIN job
  BY Running DEF Lookup, IInv, Shapes
<1> DEFINE e == m_query_cache[job[t].req.text]
<1>2. \/ job' = [job EXCEPT ![t].at = "parse"]
      \/ job' = [job EXCEPT ![t].at = "limits", ![t].entry = e] /\ e # None
  BY DEF Lookup
<1> HIDE DEF e
<1>3. /\ Moves(t)
      /\ \/ job'[t] = [job[t] EXCEPT !.at = "parse"]
         \/ job'[t] = [job[t] EXCEPT !.at = "limits", !.entry = e] /\ e # None
  BY <1>1, <1>2 DEF Moves, IInv, Shapes
<1>4. CASE job'[t] = [job[t] EXCEPT !.at = "parse"]
  BY <1>1, <1>3, <1>4 DEF Shaped, Lookup, Inner, SameGathered, Idle
<1>5. CASE job'[t] = [job[t] EXCEPT !.at = "limits", !.entry = e] /\ e # None
  <2>1. /\ job'[t].at = "limits" /\ job'[t].entry = e /\ job'[t] # Idle /\ SameGathered(t)
        /\ job'[t].n = job[t].n /\ job'[t].req = job[t].req /\ job'[t].on = job[t].on
    BY <1>1, <1>5 DEF Shaped, SameGathered, Idle
  <2> QED
    BY <1>1, <1>3, <1>5, <2>1 DEF Lookup, Inner, e
<1> QED
  BY <1>3, <1>4, <1>5

\* The parser's answer: an end with the document's error, or a new parsed query.
LEMMA ParseMoves ==
    ASSUME IInv, NEW t \in Threads, Parse(t)
    PROVE  /\ Inner(t) /\ job[t].at = "parse" /\ UNCHANGED m_query_cache
           /\ job'[t].field = job[t].field /\ job'[t].org = job[t].org
           /\ job'[t].keyed = job[t].keyed
           /\ \/ /\ job'[t].at = "finish" /\ job'[t].failed = {DocumentError}
                 /\ job'[t].entry = job[t].entry /\ UNCHANGED heap
              \/ /\ job'[t].at = "insert" /\ job'[t].failed = job[t].failed
                 /\ job'[t].entry = job[t].n /\ Document(job[t].req.text) # Unparsable
                 /\ DOMAIN heap' = DOMAIN heap \cup {job[t].n}
                 /\ heap'[job[t].n] = job[t].req.text
                 /\ \A e \in DOMAIN heap : e # job[t].n => heap'[e] = heap[e]
<1>1. job[t] # Idle /\ Shaped(job[t]) /\ t \in DOMAIN job /\ job[t].at = "parse"
  BY Running DEF Parse, IInv, Shapes
<1>2. CASE Document(job[t].req.text) = Unparsable
  <2>1. job' = [job EXCEPT ![t].at = "finish", ![t].failed = {DocumentError}]
    BY <1>2 DEF Parse
  <2>2. job'[t] = [job[t] EXCEPT !.at = "finish", !.failed = {DocumentError}] /\ Moves(t)
    BY <1>1, <2>1 DEF Moves, IInv, Shapes
  <2> QED
    BY <1>1, <1>2, <2>2 DEF Shaped, Parse, Inner, Idle
<1>3. CASE Document(job[t].req.text) # Unparsable
  <2> DEFINE n == job[t].n
  <2>1. job' = [job EXCEPT ![t].at = "insert", ![t].entry = n]
    BY <1>3 DEF Parse
  <2>2. job'[t] = [job[t] EXCEPT !.at = "insert", !.entry = n] /\ Moves(t)
    BY <1>1, <2>1 DEF Moves, IInv, Shapes
  <2>3. /\ job'[t].at = "insert" /\ job'[t].entry = n /\ job'[t] # Idle /\ SameGathered(t)
        /\ job'[t].n = job[t].n /\ job'[t].req = job[t].req /\ job'[t].on = job[t].on
    BY <1>1, <2>2 DEF Shaped, SameGathered, Idle
  <2>4. /\ DOMAIN heap' = DOMAIN heap \cup {n} /\ heap'[n] = job[t].req.text
        /\ \A e \in DOMAIN heap : e # n => heap'[e] = heap[e]
    BY <1>3 DEF Parse
  <2> QED
    BY <1>1, <1>3, <2>2, <2>3, <2>4 DEF Parse, Inner, SameGathered
<1> QED
  BY <1>2, <1>3

\* The insertion keeps the request as it is; the cache gains its parse, and may lose one entry.
LEMMA InsertMoves ==
    ASSUME IInv, NEW t \in Threads, Insert(t)
    PROVE  /\ Inner(t) /\ SameGathered(t) /\ job[t].at = "insert" /\ job'[t].at = "limits"
           /\ job'[t].entry = job[t].entry /\ job[t].entry = job[t].n /\ Release(heap)
           /\ \/ m_query_cache' = m_query_cache
              \/ /\ job[t].req.text \notin Occupied
                 /\ \E evicted \in IF Full THEN {{x} : x \in Occupied} ELSE {{}} :
                      m_query_cache' = [x \in Texts |-> IF x = job[t].req.text THEN job[t].n
                                                        ELSE IF x \in evicted THEN None
                                                        ELSE m_query_cache[x]]
<1>1. job[t] # Idle /\ Shaped(job[t]) /\ t \in DOMAIN job
  BY Running DEF Insert, IInv, Shapes
<1>2. Moves(t) /\ job'[t] = [job[t] EXCEPT !.at = "limits"]
  BY <1>1 DEF Insert, Moves, IInv, Shapes
<1>3. /\ job'[t].at = "limits" /\ job'[t].entry = job[t].entry /\ job'[t] # Idle
      /\ SameGathered(t)
      /\ job'[t].n = job[t].n /\ job'[t].req = job[t].req /\ job'[t].on = job[t].on
  BY <1>1, <1>2 DEF Shaped, SameGathered, Idle
<1>4. job[t].entry = job[t].n
  BY <1>1 DEF Insert, IInv, Numbered
<1> QED
  BY <1>1, <1>2, <1>3, <1>4 DEF Insert, Inner

\* The limits let a document through, or end the request with its error.
LEMMA LimitsMoves ==
    ASSUME IInv, NEW t \in Threads, CheckLimits(t)
    PROVE  /\ Inner(t) /\ job[t].at = "limits" /\ UNCHANGED <<m_query_cache, heap>>
           /\ job'[t].field = job[t].field /\ job'[t].org = job[t].org
           /\ job'[t].keyed = job[t].keyed /\ job'[t].entry = job[t].entry
           /\ \/ job'[t].at = "finish" /\ job'[t].failed = {DocumentError}
              \/ /\ job'[t].at = "field" /\ job'[t].failed = job[t].failed
                 /\ Doc(t) # <<>> /\ ~Exceeds(max_depth, Depth(Doc(t)))
                 /\ ~Exceeds(max_complexity, Complexity(Doc(t)))
<1>1. job[t] # Idle /\ Shaped(job[t]) /\ t \in DOMAIN job
  BY Running DEF CheckLimits, IInv, Shapes
<1>2. \/ job' = [job EXCEPT ![t].at = "finish", ![t].failed = {DocumentError}]
      \/ /\ job' = [job EXCEPT ![t].at = "field"]
         /\ Doc(t) # <<>> /\ ~Exceeds(max_depth, Depth(Doc(t)))
         /\ ~Exceeds(max_complexity, Complexity(Doc(t)))
  BY DEF CheckLimits, Doc
<1>3. Moves(t)
  BY <1>1, <1>2 DEF Moves, IInv, Shapes
<1>4. CASE job' = [job EXCEPT ![t].at = "finish", ![t].failed = {DocumentError}]
  <2>1. job'[t] = [job[t] EXCEPT !.at = "finish", !.failed = {DocumentError}]
    BY <1>1, <1>4
  <2> QED
    BY <1>1, <1>3, <2>1 DEF Shaped, CheckLimits, Inner, Idle
<1>5. CASE /\ job' = [job EXCEPT ![t].at = "field"]
           /\ Doc(t) # <<>> /\ ~Exceeds(max_depth, Depth(Doc(t)))
           /\ ~Exceeds(max_complexity, Complexity(Doc(t)))
  <2>1. job'[t] = [job[t] EXCEPT !.at = "field"]
    BY <1>1, <1>5
  <2>2. /\ job'[t].at = "field" /\ job'[t].entry = job[t].entry /\ job'[t] # Idle
        /\ SameGathered(t)
        /\ job'[t].n = job[t].n /\ job'[t].req = job[t].req /\ job'[t].on = job[t].on
    BY <1>1, <2>1 DEF Shaped, SameGathered, Idle
  <2> QED
    BY <1>1, <1>3, <1>5, <2>2 DEF CheckLimits, Inner, SameGathered
<1> QED
  BY <1>2, <1>4, <1>5

\* A resolver is called: the request stays at its field.
LEMMA CallMoves ==
    ASSUME IInv, NEW t \in Threads, CallResolver(t)
    PROVE  /\ Inner(t) /\ job[t].at = "field" /\ job'[t].at = "resolver"
           /\ UNCHANGED <<m_query_cache, heap>>
           /\ job'[t].field = job[t].field /\ job'[t].org = Organization(t)
           /\ job'[t].keyed = job[t].keyed /\ job'[t].failed = job[t].failed
           /\ job'[t].entry = job[t].entry
<1>1. job[t] # Idle /\ Shaped(job[t]) /\ t \in DOMAIN job
  BY Running DEF CallResolver, Reads, IInv, Shapes
<1> DEFINE o == Organization(t)
<1>2. job' = [job EXCEPT ![t].at = "resolver", ![t].org = o]
  BY DEF CallResolver
<1> HIDE DEF o
<1>3. Moves(t) /\ job'[t] = [job[t] EXCEPT !.at = "resolver", !.org = o]
  BY <1>1, <1>2 DEF Moves, IInv, Shapes
<1>4. /\ job'[t].at = "resolver" /\ job'[t].n = job[t].n /\ job'[t].req = job[t].req
      /\ job'[t].on = job[t].on /\ job'[t].entry = job[t].entry /\ job'[t].org = o
      /\ job'[t].field = job[t].field /\ job'[t].keyed = job[t].keyed
      /\ job'[t].failed = job[t].failed /\ job'[t] # Idle
  BY <1>1, <1>3 DEF Shaped, Idle
<1> QED
  BY <1>1, <1>3, <1>4 DEF CallResolver, Reads, Inner, o

\* A definition that is not executable: the request ends, with the document's error.
LEMMA StopMoves ==
    ASSUME IInv, NEW t \in Threads, StopAtDefinition(t)
    PROVE  /\ Inner(t) /\ job[t].at = "field" /\ job'[t].at = "finish"
           /\ Field(t) = NotExecutable /\ UNCHANGED <<m_query_cache, heap>>
           /\ job'[t].field = job[t].field /\ job'[t].org = job[t].org
           /\ job'[t].keyed = job[t].keyed /\ job'[t].failed = job[t].failed \cup {DocumentError}
           /\ job'[t].entry = job[t].entry
<1>1. job[t] # Idle /\ Shaped(job[t]) /\ t \in DOMAIN job
  BY Running DEF StopAtDefinition, IInv, Shapes
<1> DEFINE f == job[t].failed \cup {DocumentError}
<1>2. job' = [job EXCEPT ![t].at = "finish", ![t].failed = f]
  BY DEF StopAtDefinition
<1> HIDE DEF f
<1>3. Moves(t) /\ job'[t] = [job[t] EXCEPT !.at = "finish", !.failed = f]
  BY <1>1, <1>2 DEF Moves, IInv, Shapes
<1>4. /\ job'[t].at = "finish" /\ job'[t].n = job[t].n /\ job'[t].req = job[t].req
      /\ job'[t].on = job[t].on /\ job'[t].entry = job[t].entry /\ job'[t].org = job[t].org
      /\ job'[t].field = job[t].field /\ job'[t].keyed = job[t].keyed
      /\ job'[t].failed = f /\ job'[t] # Idle
  BY <1>1, <1>3 DEF Shaped, Idle
<1> QED
  BY <1>1, <1>3, <1>4 DEF StopAtDefinition, Inner, f

\* An answered field: what is gathered gains its name.
LEMMA AnswerMoves ==
    ASSUME IInv, NEW t \in Threads, job[t].at \in {"field", "resolver"},
           NEW keyed, NEW failed, keyed \/ failed, Answer(t, keyed, failed),
           UNCHANGED <<m_query_cache, heap, slots, http, counters, arrived>>
    PROVE  /\ Inner(t)
           /\ job'[t].field = NextField(Doc(t), job[t].field) /\ job'[t].org = NoVariables
           /\ job'[t].keyed \subseteq job[t].keyed \cup {Field(t)}
           /\ job'[t].failed \subseteq job[t].failed \cup {Field(t)}
           /\ Given(job'[t]) = Given(job[t]) \cup {Field(t)}
           /\ job'[t].entry = job[t].entry
           /\ job'[t].at = IF job'[t].field > Len(Doc(t)) THEN "finish" ELSE "field"
<1>1. job[t] # Idle /\ Shaped(job[t]) /\ t \in DOMAIN job
  BY Running DEF IInv, Shapes
<1> DEFINE i == NextField(Doc(t), job[t].field)
           at == IF i > Len(Doc(t)) THEN "finish" ELSE "field"
           k == job[t].keyed \cup (IF keyed THEN {Field(t)} ELSE {})
           f == job[t].failed \cup (IF failed THEN {Field(t)} ELSE {})
<1>2. job' = [job EXCEPT ![t].keyed = k, ![t].failed = f, ![t].field = i,
                         ![t].org = NoVariables, ![t].at = at]
  BY DEF Answer
<1>3. /\ k \subseteq job[t].keyed \cup {Field(t)} /\ f \subseteq job[t].failed \cup {Field(t)}
      /\ k \cup f = job[t].keyed \cup job[t].failed \cup {Field(t)}
      /\ at \in {"finish", "field"}
  OBVIOUS
<1> HIDE DEF i, at, k, f
<1>4. job'[t] = [job[t] EXCEPT !.keyed = k, !.failed = f, !.field = i,
                               !.org = NoVariables, !.at = at]
  BY <1>1, <1>2
<1>5. Moves(t)
  BY <1>1, <1>2 DEF Moves, IInv, Shapes
<1>6. /\ job'[t].at = at /\ job'[t].n = job[t].n /\ job'[t].req = job[t].req
      /\ job'[t].on = job[t].on /\ job'[t].entry = job[t].entry /\ job'[t].org = NoVariables
      /\ job'[t].field = i /\ job'[t].keyed = k /\ job'[t].failed = f
  BY <1>1, <1>4 DEF Shaped
<1>7. job'[t] # Idle
  BY <1>3, <1>6 DEF Idle
<1>8. Inner(t)
  BY <1>1, <1>5, <1>6, <1>7 DEF Inner
<1>9. at = IF i > Len(Doc(t)) THEN "finish" ELSE "field"
  BY DEF at
<1>10. Given(job'[t]) = Given(job[t]) \cup {Field(t)}
  BY <1>3, <1>6 DEF Given
<1> QED
  BY <1>3, <1>6, <1>8, <1>9, <1>10 DEF i

-----------------------------------------------------------------------------
(* The operators                                                           *)

Less == {p \in Nat \X Nat : p[1] < p[2]}

\* A nonempty set of natural numbers has a least element.
LEMMA Least ==
    ASSUME NEW S, S \subseteq Nat, S # {}
    PROVE  \E x \in S : \A y \in S : x =< y
<1>1. IsWellFoundedOn(Less, Nat)
  BY NatLessThanWellFounded, Zenon DEF OpToRel, Less
<1>2. \E x \in S : \A y \in S : <<y, x>> \notin Less
  BY <1>1, WFMin, Zenon
<1>3. \A x, y \in Nat : <<y, x>> \notin Less => x =< y
  BY DEF Less
<1> QED
  BY <1>2, <1>3

\* The next top-level field is after this one, with only nested ones between.
LEMMA NextFieldValue ==
    ASSUME NEW doc \in Seq(Seq(STRING) \ {<<>>}), NEW i \in DOMAIN doc
    PROVE  LET n == NextField(doc, i)
           IN  /\ n \in (i + 1)..(Len(doc) + 1)
               /\ \A k \in (i + 1)..(n - 1) : Len(doc[k]) # 1
<1> DEFINE later == {k \in (i + 1)..Len(doc) : Len(doc[k]) = 1}
<1>1. Len(doc) \in Nat /\ i \in 1..Len(doc)
  OBVIOUS
<1>2. CASE later = {}
  <2>1. NextField(doc, i) = Len(doc) + 1
    BY <1>2 DEF NextField
  <2> QED
    BY <1>1, <1>2, <2>1
<1>3. CASE later # {}
  <2>1. later \subseteq Nat
    BY <1>1
  <2>2. \E x \in later : \A y \in later : x =< y
    <3> HIDE DEF later
    <3> QED
      BY <1>3, <2>1, Least
  <2>3. Min(later) \in later /\ \A y \in later : Min(later) =< y
    BY <2>2 DEF Min
  <2>4. NextField(doc, i) = Min(later)
    BY <1>3 DEF NextField
  <2>5. PICK n \in later : n = Min(later) /\ \A y \in later : n =< y
    BY <2>3
  <2>6. n \in (i + 1)..Len(doc)
    OBVIOUS
  <2>7. \A k \in (i + 1)..(n - 1) : k \notin later
    <3>1. \A k \in (i + 1)..(n - 1) : ~(n =< k)
      BY <1>1, <2>6
    <3> QED
      BY <2>5, <3>1
  <2>8. \A k \in (i + 1)..(n - 1) : k \in (i + 1)..Len(doc)
    BY <1>1, <2>6
  <2>9. \A k \in (i + 1)..(n - 1) : Len(doc[k]) # 1
    BY <2>7, <2>8
  <2> HIDE DEF later
  <2> QED
    BY <1>1, <2>4, <2>5, <2>6, <2>9
<1> QED
  BY <1>2, <1>3

\* Finitely many natural numbers are bounded: a least count of unbounded ones would be
\* one more than a count of bounded ones.
LEMMA FamilyBounded ==
    ASSUME NEW n \in Nat, NEW f \in [1..n -> Nat]
    PROVE  \E b \in Nat : \A i \in 1..n : f[i] =< b
<1> DEFINE unbounded == {k \in 0..n : \A b \in Nat : \E i \in 1..k : ~(f[i] =< b)}
<1>1. SUFFICES ASSUME unbounded # {} PROVE FALSE
  <2>1. n \in 0..n
    OBVIOUS
  <2> QED
    BY <1>1, <2>1
<1>2. PICK k \in unbounded : \A y \in unbounded : k =< y
  <2>1. unbounded \subseteq Nat
    OBVIOUS
  <2> HIDE DEF unbounded
  <2> QED
    BY <1>1, <2>1, Least
<1>3. k \in 0..n /\ \A b \in Nat : \E i \in 1..k : ~(f[i] =< b)
  BY <1>2
<1>4. k # 0
  BY <1>3
<1>5. k \in 1..n /\ k - 1 \in 0..n /\ k - 1 \notin unbounded
  <2>1. k \in 1..n /\ k - 1 \in 0..n /\ ~(k =< k - 1)
    BY <1>3, <1>4
  <2> HIDE DEF unbounded
  <2> QED
    BY <1>2, <2>1
<1>6. PICK b \in Nat : \A i \in 1..(k - 1) : f[i] =< b
  <2>1. ~(\A b \in Nat : \E i \in 1..(k - 1) : ~(f[i] =< b))
    BY <1>5
  <2> HIDE DEF unbounded
  <2> QED
    BY <2>1, Zenon
<1>7. PICK m \in Nat : m = f[k]
  BY <1>5
<1>8. b + m \in Nat /\ b =< b + m /\ m =< b + m
  OBVIOUS
<1>9. PICK i \in 1..k : ~(f[i] =< b + m)
  BY <1>3, <1>8
<1>10. f[i] \in Nat
  BY <1>5, <1>9
<1>11. i # k
  BY <1>7, <1>8, <1>9
<1>12. i \in 1..(k - 1)
  BY <1>5, <1>9, <1>11
<1>13. f[i] =< b
  BY <1>6, <1>12
<1> QED
  BY <1>9, <1>10, <1>13

\* The paths of a document have a longest one: the lengths are bounded.
LEMMA PathsBounded ==
    ASSUME NEW doc \in Seq(Seq(STRING) \ {<<>>})
    PROVE  \E b \in Nat : \A i \in DOMAIN doc : Len(doc[i]) =< b
<1> DEFINE n == Len(doc)
           f == [i \in 1..n |-> Len(doc[i])]
<1>1. n \in Nat /\ DOMAIN doc = 1..n
  OBVIOUS
<1>2. \A i \in 1..n : Len(doc[i]) \in Nat
  BY <1>1
<1>3. f \in [1..n -> Nat]
  BY <1>2
<1>4. \E b \in Nat : \A i \in 1..n : f[i] =< b
  <2> HIDE DEF f, n
  <2> QED
    BY <1>1, <1>3, FamilyBounded
<1> QED
  BY <1>1, <1>4

\* A bounded nonempty set of natural numbers has a greatest element, which Max picks.
LEMMA MaxIsGreatest ==
    ASSUME NEW S, S \subseteq Nat, S # {}, NEW b \in Nat, \A x \in S : x =< b
    PROVE  Max(S) \in S /\ \A y \in S : Max(S) >= y
<1> DEFINE up == {n \in Nat : \A x \in S : x =< n}
<1>1. PICK m \in up : \A y \in up : m =< y
  <2>1. up \subseteq Nat
    OBVIOUS
  <2>2. b \in up
    OBVIOUS
  <2>3. up # {}
    BY <2>2
  <2> HIDE DEF up
  <2> QED
    BY <2>1, <2>3, Least
<1>2. m \in S
  <2>1. SUFFICES ASSUME m \notin S PROVE FALSE
    OBVIOUS
  <2>2. m # 0
    <3>1. PICK x \in S : x \in Nat /\ x =< m
      BY <1>1
    <3> QED
      BY <2>1, <3>1
  <2>3. m - 1 \in Nat
    BY <1>1, <2>2
  <2>4. \A x \in S : x =< m - 1
    BY <1>1, <2>1, <2>3
  <2>5. m - 1 \in up
    BY <2>3, <2>4
  <2> QED
    BY <1>1, <2>3, <2>5
<1>3. \E x \in S : \A y \in S : x >= y
  BY <1>1, <1>2
<1> QED
  BY <1>3 DEF Max

\* A document whose depth is within the limit has no path beyond it.
LEMMA DepthValue ==
    ASSUME NEW doc \in Seq(Seq(STRING) \ {<<>>})
    PROVE  /\ Depth(doc) \in Nat
           /\ \A i \in DOMAIN doc : Len(doc[i]) \in Nat /\ Len(doc[i]) =< Depth(doc)
<1> DEFINE S == {0} \cup {Len(doc[i]) : i \in DOMAIN doc}
<1>1. PICK b \in Nat : \A i \in DOMAIN doc : Len(doc[i]) =< b
  BY PathsBounded
<1>2. \A i \in DOMAIN doc : Len(doc[i]) \in Nat /\ Len(doc[i]) \in S
  OBVIOUS
<1>3. S \subseteq Nat /\ S # {} /\ \A x \in S : x =< b
  BY <1>1, <1>2
<1>4. Depth(doc) = Max(S)
  BY DEF Depth
<1> HIDE DEF S
<1>5. Max(S) \in S /\ \A y \in S : Max(S) >= y
  BY <1>1, <1>3, MaxIsGreatest
<1>6. PICK m \in Nat : m = Max(S) /\ \A y \in S : m >= y
  BY <1>3, <1>5
<1> QED
  BY <1>2, <1>4, <1>6

-----------------------------------------------------------------------------
(* Steps of a request between its beginning and its end                    *)

\* The names that stand for a document's error and for missing variables.
LEMMA Defaults == DocumentError \in Answerable /\ NoVariables \in Values
BY DEF Answerable, Values

\* An inner step keeps the connection, the counters and the other requests.
LEMMA InnerKeeps ==
    ASSUME RequestInv, NEW t \in Threads, Inner(t), JobTyped(job'[t]), Progress(job'[t])
    PROVE  Typed' /\ Counts' /\ Progressing' /\ Serving' /\ RequestsAddUp'
<1>1. \A u \in Threads :
        /\ job'[u] # Idle <=> job[u] # Idle
        /\ job[u] # Idle => job'[u].req = job[u].req /\ job'[u].on = job[u].on
  BY DEF Inner, Moves
<1>2. UNCHANGED <<tl_resolver_ctx, tl_gql_variables, http, total_requests, successful_requests,
                  error_count, csrf_refused, arrived>>
  BY DEF Inner, slots, counters
<1>3. Typed'
  BY <1>2 DEF RequestInv, Typed, Inner, Moves
<1>4. Counts'
  BY <1>2 DEF RequestInv, Counts
<1>5. Progressing'
  BY DEF RequestInv, Progressing, Inner, Moves
<1>6. Serving'
  BY <1>1, <1>2 DEF RequestInv, Serving
<1>7. \A u \in Threads : Http(u)' <=> Http(u)
  BY <1>1 DEF Http
<1>8. {u \in Threads : Http(u)'} = {u \in Threads : Http(u)}
  BY <1>7
<1>9. RequestsAddUp'
  BY <1>2, <1>8 DEF RequestInv, RequestsAddUp
<1> QED
  BY <1>3, <1>4, <1>5, <1>6, <1>9

\* The document of a request that executes it.
LEMMA ItsDocument ==
    ASSUME RequestInv, NEW t \in Threads, job[t].at \in Own
    PROVE  /\ Doc(t) = Document(job[t].req.text) /\ Doc(t) # Unparsable
           /\ Doc(t) \in Seq(Seq(STRING) \ {<<>>})
           /\ \A i \in DOMAIN Doc(t) : \E k \in 1..i : Doc(t)[k] = <<Doc(t)[i][1]>>
           /\ job[t] # Idle /\ JobTyped(job[t]) /\ Progress(job[t])
<1>1. Doc(t) = Document(job[t].req.text) /\ job[t].entry \in DOMAIN heap
      /\ heap[job[t].entry] = job[t].req.text
  BY OwnField DEF RequestInv
<1>2. job[t].req.text \in Texts /\ Document(job[t].req.text) # Unparsable
  BY <1>1 DEF RequestInv, Parsed
<1>3. job[t] # Idle
  BY DEF Own, Idle
<1>4. JobTyped(job[t]) /\ Progress(job[t])
  BY <1>3 DEF RequestInv, Typed, Progressing
<1> QED
  BY <1>1, <1>2, <1>3, <1>4, ExecutionAssumption

\* Up to the insertion nothing is gathered.
LEMMA EarlySteps ==
    ASSUME RequestInv, NEW t \in Threads, Lookup(t) \/ Parse(t) \/ Insert(t)
    PROVE  Inner(t) /\ JobTyped(job'[t]) /\ Progress(job'[t])
<1>1. job[t] # Idle
  BY DEF Lookup, Parse, Insert, Idle
<1>2. JobTyped(job[t]) /\ Progress(job[t]) /\ IInv
  BY <1>1 DEF RequestInv, Typed, Progressing
<1>3. CASE Lookup(t)
  BY <1>2, <1>3, LookupMoves DEF Inner, SameGathered, JobTyped, Progress
<1>4. CASE Parse(t)
  <2>1. /\ Inner(t) /\ job[t].at = "parse"
        /\ job'[t].field = job[t].field /\ job'[t].org = job[t].org
        /\ job'[t].keyed = job[t].keyed
        /\ \/ job'[t].at = "finish" /\ job'[t].failed = {DocumentError}
           \/ job'[t].at = "insert" /\ job'[t].failed = job[t].failed
    BY <1>2, <1>4, ParseMoves
  <2>2. job[t].keyed = {} /\ job[t].failed = {} /\ job[t].field = 1
    BY <1>2, <2>1 DEF Progress
  <2>3. JobTyped(job'[t])
    BY <1>2, <2>1, <2>2, Defaults DEF JobTyped, Inner
  <2> QED
    BY <2>1, <2>2, <2>3 DEF Progress
<1>5. CASE Insert(t)
  BY <1>2, <1>5, InsertMoves DEF Inner, SameGathered, JobTyped, Progress
<1> QED
  BY <1>3, <1>4, <1>5

\* A document is let through only within the limits, and is begun at its first field.
LEMMA LimitsStep ==
    ASSUME RequestInv, NEW t \in Threads, CheckLimits(t)
    PROVE  Inner(t) /\ JobTyped(job'[t]) /\ Progress(job'[t])
<1>1. IInv /\ job[t].at = "limits"
  BY DEF RequestInv, CheckLimits
<1>2. /\ Doc(t) = Document(job[t].req.text) /\ Doc(t) # Unparsable
      /\ Doc(t) \in Seq(Seq(STRING) \ {<<>>})
      /\ JobTyped(job[t]) /\ Progress(job[t])
  BY <1>1, ItsDocument DEF Own
<1>3. job[t].keyed = {} /\ job[t].failed = {} /\ job[t].field = 1
  BY <1>1, <1>2 DEF Progress
<1>4. /\ Inner(t)
      /\ job'[t].field = job[t].field /\ job'[t].org = job[t].org /\ job'[t].keyed = job[t].keyed
      /\ \/ job'[t].at = "finish" /\ job'[t].failed = {DocumentError}
         \/ /\ job'[t].at = "field" /\ job'[t].failed = job[t].failed
            /\ Doc(t) # <<>> /\ ~Exceeds(max_depth, Depth(Doc(t)))
            /\ ~Exceeds(max_complexity, Complexity(Doc(t)))
  BY <1>1, LimitsMoves
<1>5. JobTyped(job'[t])
  BY <1>2, <1>3, <1>4, Defaults DEF JobTyped, Inner
<1>6. CASE job'[t].at = "finish" /\ job'[t].failed = {DocumentError}
  BY <1>3, <1>4, <1>5, <1>6 DEF Progress
<1>7. CASE /\ job'[t].at = "field" /\ job'[t].failed = job[t].failed
           /\ Doc(t) # <<>> /\ ~Exceeds(max_depth, Depth(Doc(t)))
           /\ ~Exceeds(max_complexity, Complexity(Doc(t)))
  <2>1. \A i \in DOMAIN Doc(t) : ~Exceeds(max_depth, Len(Doc(t)[i]))
    <3>1. /\ Depth(Doc(t)) \in Nat
          /\ \A i \in DOMAIN Doc(t) : Len(Doc(t)[i]) \in Nat /\ Len(Doc(t)[i]) =< Depth(Doc(t))
      BY <1>2, DepthValue
    <3>2. \A l, d \in Nat : l =< d /\ ~Exceeds(max_depth, d) => ~Exceeds(max_depth, l)
      BY ExecutionAssumption DEF Exceeds
    <3> QED
      BY <1>7, <3>1, <3>2
  <2>2. Within(Doc(t))
    BY <1>2, <1>7, <2>1 DEF Within, WithinLimits
  <2>3. job'[t].field = 1 /\ job'[t].field \in DOMAIN Doc(t)
    <3>1. 1 \in DOMAIN Doc(t)
      BY <1>2, <1>7
    <3> QED
      BY <1>3, <1>4, <3>1
  <2>4. Given(job'[t]) = {}
    BY <1>3, <1>4, <1>7 DEF Given
  <2>5. Covered(Doc(t), job'[t], job'[t].field) /\ Free(Doc(t), job'[t].field - 1)
    BY <2>3 DEF Covered, Free
  <2>6. job'[t].req = job[t].req
    BY <1>4 DEF Inner
  <2> QED
    BY <1>2, <1>4, <1>5, <1>7, <2>2, <2>3, <2>4, <2>5, <2>6 DEF Progress
<1> QED
  BY <1>4, <1>5, <1>6, <1>7

\* A resolver is called with a value of the request's variables, or none.
LEMMA CallStep ==
    ASSUME RequestInv, NEW t \in Threads, CallResolver(t)
    PROVE  Inner(t) /\ JobTyped(job'[t]) /\ Progress(job'[t])
<1>1. IInv /\ job[t].at = "field" /\ Field(t) \in Resolvers
  BY DEF RequestInv, CallResolver, Reads
<1>2. /\ JobTyped(job[t]) /\ Progress(job[t])
      /\ Field(t) = Document(job[t].req.text)[job[t].field][1] /\ job[t].req.text \in Texts
  BY <1>1, ItsDocument, ExecutionAssumption DEF Own, Field, JobTyped
<1>a. Field(t) # NotExecutable
  BY <1>1, ExecutionAssumption
<1>3. Organization(t) \in Values
  BY <1>1, <1>2, Defaults DEF Organization, RequestInv, Typed, Values
<1>4. /\ Inner(t) /\ job'[t].at = "resolver"
      /\ job'[t].field = job[t].field /\ job'[t].org = Organization(t)
      /\ job'[t].keyed = job[t].keyed /\ job'[t].failed = job[t].failed
  BY <1>1, CallMoves
<1> QED
  BY <1>1, <1>2, <1>a, <1>3, <1>4 DEF JobTyped, Progress, Inner, Covered, Given

\* The execution ends at a definition that is not executable: every field before it is
\* answered, and the document's error is.
LEMMA StopStep ==
    ASSUME RequestInv, NEW t \in Threads, StopAtDefinition(t)
    PROVE  Inner(t) /\ JobTyped(job'[t]) /\ Progress(job'[t])
<1> DEFINE doc == Document(job[t].req.text)
           i == job[t].field
<1>1. /\ Inner(t) /\ job[t].at = "field" /\ job'[t].at = "finish" /\ Field(t) = NotExecutable
      /\ job'[t].field = job[t].field /\ job'[t].org = job[t].org
      /\ job'[t].keyed = job[t].keyed /\ job'[t].failed = job[t].failed \cup {DocumentError}
  BY StopMoves DEF RequestInv
<1>2. /\ Doc(t) = doc /\ doc \in Seq(Seq(STRING) \ {<<>>})
      /\ \A l \in DOMAIN doc : \E k \in 1..l : doc[k] = <<doc[l][1]>>
      /\ JobTyped(job[t]) /\ Progress(job[t])
  BY <1>1, ItsDocument DEF Own
<1>3. /\ Within(doc) /\ i \in DOMAIN doc /\ Given(job[t]) \subseteq Outcome(doc)
      /\ Covered(doc, job[t], i) /\ Free(doc, i - 1) /\ doc[i][1] = NotExecutable
  BY <1>1, <1>2 DEF Progress, Field
<1>4. JobTyped(job'[t])
  BY <1>1, <1>2, Defaults DEF JobTyped, Inner
<1> HIDE DEF doc
<1>5. i \in 1..Len(doc) /\ DOMAIN doc = 1..Len(doc) /\ Len(doc) \in Nat
  BY <1>2, <1>3
<1> HIDE DEF i
<1>6. Executable(doc) = 1..(i - 1)
  BY <1>3, <1>5 DEF Executable, Free
<1>7. Outcome(doc) = {doc[l][1] : l \in 1..(i - 1)} \cup {DocumentError}
  <2>1. Executable(doc) # DOMAIN doc
    BY <1>5, <1>6
  <2> QED
    BY <1>6, <2>1 DEF Outcome
<1>8. ASSUME NEW l \in 1..(i - 1) PROVE doc[l][1] \in Given(job[t])
  <2>0. l \in DOMAIN doc
    <3>1. l \in 1..Len(doc)
      BY <1>5
    <3> QED
      BY <1>5, <3>1
  <2>1. PICK k \in 1..l : doc[k] = <<doc[l][1]>>
    BY <1>2, <2>0
  <2>2. Len(doc[k]) = 1 /\ doc[k][1] = doc[l][1] /\ k \in 1..(i - 1)
    BY <1>5, <2>1
  <2> QED
    BY <1>3, <2>2 DEF Covered
<1>9. Given(job'[t]) = Given(job[t]) \cup {DocumentError}
  BY <1>1 DEF Given
<1>10. Outcome(doc) = Given(job'[t])
  BY <1>3, <1>7, <1>8, <1>9
<1>11. job'[t].req = job[t].req
  BY <1>1 DEF Inner
<1> QED
  BY <1>1, <1>3, <1>4, <1>10, <1>11 DEF Progress, doc

\* A field that is answered is one of the document's, and the fields before the next one
\* are answered: nothing is skipped, and at the end nothing is left out.
LEMMA FieldStep ==
    ASSUME RequestInv, NEW t \in Threads, job[t].at \in {"field", "resolver"},
           Field(t) # NotExecutable,
           NEW keyed, NEW failed, keyed \/ failed, Answer(t, keyed, failed),
           UNCHANGED <<m_query_cache, heap, slots, http, counters, arrived>>
    PROVE  Inner(t) /\ JobTyped(job'[t]) /\ Progress(job'[t])
<1> DEFINE doc == Document(job[t].req.text)
           i == job[t].field
           n == job'[t].field
           f == Field(t)
<1>1. /\ Doc(t) = doc /\ doc \in Seq(Seq(STRING) \ {<<>>})
      /\ \A l \in DOMAIN doc : \E k \in 1..l : doc[k] = <<doc[l][1]>>
      /\ JobTyped(job[t]) /\ Progress(job[t]) /\ IInv
  BY ItsDocument DEF Own, RequestInv
<1>2. /\ Within(doc) /\ i \in DOMAIN doc /\ Given(job[t]) \subseteq Outcome(doc)
      /\ Covered(doc, job[t], i) /\ Free(doc, i - 1)
  BY <1>1 DEF Progress
<1>3. /\ Inner(t) /\ n = NextField(doc, i) /\ job'[t].org = NoVariables
      /\ job'[t].keyed \subseteq job[t].keyed \cup {f}
      /\ job'[t].failed \subseteq job[t].failed \cup {f}
      /\ Given(job'[t]) = Given(job[t]) \cup {f}
      /\ job'[t].at = IF n > Len(doc) THEN "finish" ELSE "field"
  BY <1>1, AnswerMoves
<1>4. f = doc[i][1]
  BY <1>1 DEF Field
<1>b. Free(doc, i)
  BY <1>1, <1>2, <1>4 DEF Free
<1>5. f \in Answerable /\ f \in Outcome(doc)
  <2>1. f \in Outcome(doc)
    BY <1>2, <1>4, <1>b DEF Outcome, Executable, Free
  <2>2. job[t].req.text \in {x \in Texts : Document(x) # Unparsable}
    BY <1>1, <1>2, ExecutionAssumption DEF JobTyped, Within
  <2> QED
    BY <2>1, <2>2 DEF Answerable
<1>6. job'[t].req = job[t].req /\ job'[t].on = job[t].on
  BY <1>3 DEF Inner
<1>7. /\ n \in (i + 1)..(Len(doc) + 1) /\ Len(doc) \in Nat /\ i \in 1..Len(doc)
      /\ DOMAIN doc = 1..Len(doc)
      /\ \A k \in (i + 1)..(n - 1) : Len(doc[k]) # 1
  <2>1. Len(doc) \in Nat /\ DOMAIN doc = 1..Len(doc)
    BY <1>1
  <2> HIDE DEF doc, i, n
  <2>2. /\ NextField(doc, i) \in (i + 1)..(Len(doc) + 1)
        /\ \A k \in (i + 1)..(NextField(doc, i) - 1) : Len(doc[k]) # 1
    BY <1>1, <1>2, NextFieldValue
  <2> QED
    BY <1>2, <1>3, <2>1, <2>2
<1> HIDE DEF n, f, i, doc
<1>8. JobTyped(job'[t])
  BY <1>1, <1>3, <1>5, <1>6, <1>7, Defaults DEF JobTyped, n
<1>9. Covered(doc, job'[t], n)
  <2>1. ASSUME NEW k \in 1..(n - 1), Len(doc[k]) = 1 PROVE doc[k][1] \in Given(job'[t])
    <3>1. k \notin (i + 1)..(n - 1)
      BY <1>7, <2>1
    <3>2. k \in 1..(i - 1) \/ k = i
      BY <1>7, <3>1
    <3>3. CASE k = i
      BY <1>3, <1>4, <3>3
    <3>4. CASE k \in 1..(i - 1)
      BY <1>2, <1>3, <2>1, <3>4 DEF Covered
    <3> QED
      BY <3>2, <3>3, <3>4
  <2> QED
    BY <2>1 DEF Covered
<1>10. Given(job'[t]) \subseteq Outcome(doc)
  BY <1>2, <1>3, <1>5
<1>c. Free(doc, n - 1)
  <2>1. ASSUME NEW k \in 1..(n - 1) PROVE doc[k][1] # NotExecutable
    <3>0. k \in DOMAIN doc
      <4>1. k \in 1..Len(doc)
        BY <1>7
      <4> QED
        BY <1>7, <4>1
    <3>1. PICK m \in 1..k : doc[m] = <<doc[k][1]>>
      BY <1>1, <3>0
    <3>2. Len(doc[m]) = 1 /\ doc[m][1] = doc[k][1]
      BY <3>1
    <3>4. m \notin (i + 1)..(n - 1)
      BY <1>7, <3>2
    <3>3. m \in 1..i
      BY <1>7, <3>4
    <3> QED
      BY <1>b, <3>2, <3>3 DEF Free
  <2> QED
    BY <2>1 DEF Free
<1>11. CASE n > Len(doc)
  <2>1. n = Len(doc) + 1
    BY <1>7, <1>11
  <2>2. ASSUME NEW l \in DOMAIN doc PROVE doc[l][1] \in Given(job'[t])
    <3>1. PICK k \in 1..l : doc[k] = <<doc[l][1]>>
      BY <1>1
    <3>2. Len(doc[k]) = 1 /\ doc[k][1] = doc[l][1]
      BY <3>1
    <3>3. k \in 1..(n - 1)
      BY <1>7, <2>1, <2>2
    <3> QED
      BY <1>9, <3>2, <3>3 DEF Covered
  <2>3. Outcome(doc) \subseteq Given(job'[t])
    <3>1. Executable(doc) = DOMAIN doc
      BY <1>7, <1>c, <2>1 DEF Executable, Free
    <3> QED
      BY <2>2, <3>1 DEF Outcome
  <2>4. job'[t].at = "finish"
    BY <1>3, <1>11
  <2> QED
    BY <1>2, <1>3, <1>6, <1>8, <1>10, <2>3, <2>4 DEF Progress, doc
<1>12. CASE ~(n > Len(doc))
  <2>1. job'[t].at = "field" /\ n \in DOMAIN doc
    <3>1. n \in 1..Len(doc)
      BY <1>7, <1>12
    <3> QED
      BY <1>3, <1>7, <1>12, <3>1
  <2> QED
    BY <1>2, <1>3, <1>6, <1>8, <1>9, <1>10, <1>c, <2>1 DEF Progress, doc, n
<1> QED
  BY <1>11, <1>12

-----------------------------------------------------------------------------
(* The cache                                                               *)

\* A step that leaves the cache and the allocated queries alone, and no request with
\* another parsed query than it had.
LEMMA CacheKept ==
    ASSUME RequestInv, UNCHANGED <<m_query_cache, heap>>,
           \A u \in Threads : IF job'[u] # Idle
                              THEN job'[u].entry = IF job[u] # Idle THEN job[u].entry ELSE None
                              ELSE job[u] = Idle
    PROVE  Parsed' /\ CacheBound'
<1>1. Occupied' = Occupied
  BY DEF Occupied
<1>2. Cached(m_query_cache)' = Cached(m_query_cache)
  BY DEF Cached
<1>3. Executing(job)' = Executing(job)
  BY DEF Executing
<1>4. Parsed'
  BY DEF RequestInv, Parsed
<1> QED
  BY <1>1, <1>2, <1>3, <1>4 DEF RequestInv, CacheBound, CacheIsSound

\* A parsed query that a request executes is allocated, and the cache is bounded.
LEMMA CacheFacts ==
    ASSUME RequestInv
    PROVE  /\ \A t \in Threads : job[t] # Idle /\ job[t].entry # None => job[t].entry \in DOMAIN heap
           /\ \A q \in Texts : m_query_cache[q] # None => m_query_cache[q] \in DOMAIN heap
           /\ \A e \in DOMAIN heap : e # None
           /\ \A e \in DOMAIN heap : \/ \E q \in Texts : m_query_cache[q] = e
                                     \/ \E t \in Threads : job[t] # Idle /\ job[t].entry = e
           /\ IsFiniteSet(Occupied) /\ Cardinality(Occupied) \in Nat
           /\ Cardinality(Occupied) <= k_query_cache_max /\ k_query_cache_max \in Nat \ {0}
<1>1. DOMAIN heap = Cached(m_query_cache) \cup Executing(job)
  BY DEF RequestInv, CacheBound, CacheIsSound
<1>2. IsFiniteSet(Occupied) /\ Cardinality(Occupied) <= k_query_cache_max
  BY DEF RequestInv, CacheBound, CacheIsSound
<1>3. Cardinality(Occupied) \in Nat /\ k_query_cache_max \in Nat \ {0}
  BY <1>2, FS_CardinalityType, ExecutionAssumption
<1> QED
  BY <1>1, <1>2, <1>3 DEF Cached, Executing

\* The cache is sound after a step when what it then holds is sound, bounded, and all that
\* is then allocated is owned.
LEMMA CacheHolds ==
    ASSUME EntriesAreSound', IsFiniteSet(Occupied'), Cardinality(Occupied') <= k_query_cache_max,
           \A e \in DOMAIN heap' : e # None,
           \A t \in Threads :
              job'[t] # Idle /\ job'[t].entry # None => job'[t].entry \in DOMAIN heap',
           \A e \in DOMAIN heap' : \/ \E q \in Texts : m_query_cache'[q] = e
                                   \/ \E t \in Threads : job'[t] # Idle /\ job'[t].entry = e
    PROVE  CacheBound'
<1>1. \A q \in Occupied' : m_query_cache'[q] \in DOMAIN heap' /\ heap'[m_query_cache'[q]] = q
  BY DEF EntriesAreSound, Occupied
<1>2. Cached(m_query_cache)' \subseteq DOMAIN heap'
  BY DEF EntriesAreSound, Cached
<1>3. Executing(job)' \subseteq DOMAIN heap'
  BY DEF Executing
<1>4. DOMAIN heap' \subseteq Cached(m_query_cache)' \cup Executing(job)'
  BY DEF Cached, Executing
<1> QED
  BY <1>1, <1>2, <1>3, <1>4 DEF CacheBound, CacheIsSound

\* The look-up makes the request one more owner of what it found.
LEMMA LookupCache ==
    ASSUME RequestInv, IInv', NEW t \in Threads, Lookup(t)
    PROVE  Parsed' /\ CacheBound'
<1>1. /\ Inner(t) /\ UNCHANGED <<m_query_cache, heap>> /\ job[t].at = "lookup"
      /\ \/ job'[t].at = "parse" /\ job'[t].entry = job[t].entry
         \/ /\ job'[t].at = "limits" /\ job'[t].entry = m_query_cache[job[t].req.text]
            /\ job'[t].entry # None
  BY LookupMoves DEF RequestInv
<1>2. job[t] # Idle /\ job'[t] # Idle /\ \A u \in Threads : u # t => job'[u] = job[u]
  BY <1>1 DEF Inner, Moves
<1>3. job[t].req.text \in Texts
  BY <1>2 DEF RequestInv, IInv, Numbered
<1>4. CASE job'[t].entry = job[t].entry
  BY <1>1, <1>2, <1>4, CacheKept
<1>5. CASE job'[t].entry = m_query_cache[job[t].req.text] /\ job'[t].entry # None
  <2>1. Occupied' = Occupied /\ Parsed'
    BY <1>1 DEF Occupied, RequestInv, Parsed
  <2>2. \A u \in Threads : job'[u] # Idle /\ job'[u].entry # None => job'[u].entry \in DOMAIN heap'
    BY <1>1, <1>2, <1>3, <1>5, CacheFacts
  <2>3. \A e \in DOMAIN heap' : e # None
    BY <1>1, CacheFacts
  <2>4. job[t].entry # None => \E q \in Texts : m_query_cache[q] = job[t].entry
    <3>1. job[t].entry = None
      BY <1>1, <1>2 DEF RequestInv, Progressing, Progress
    <3> QED
      BY <3>1
  <2>5. \A e \in DOMAIN heap' : \/ \E q \in Texts : m_query_cache'[q] = e
                                \/ \E u \in Threads : job'[u] # Idle /\ job'[u].entry = e
    BY <1>1, <1>2, <2>4, CacheFacts
  <2>6. IsFiniteSet(Occupied') /\ Cardinality(Occupied') <= k_query_cache_max
    BY <2>1, CacheFacts
  <2>7. EntriesAreSound'
    BY DEF IInv
  <2> QED
    BY <2>1, <2>2, <2>3, <2>5, <2>6, <2>7, CacheHolds
<1> QED
  BY <1>1, <1>4, <1>5

\* The parser's result is owned by its request.
LEMMA ParseCache ==
    ASSUME RequestInv, IInv', NEW t \in Threads, Parse(t)
    PROVE  Parsed' /\ CacheBound'
<1> DEFINE n == job[t].n
<1>1. /\ Inner(t) /\ UNCHANGED m_query_cache /\ job[t].at = "parse"
      /\ \/ job'[t].entry = job[t].entry /\ UNCHANGED heap
         \/ /\ job'[t].entry = n /\ Document(job[t].req.text) # Unparsable
            /\ DOMAIN heap' = DOMAIN heap \cup {n} /\ heap'[n] = job[t].req.text
            /\ \A e \in DOMAIN heap : e # n => heap'[e] = heap[e]
  BY ParseMoves DEF RequestInv
<1>2. job[t] # Idle /\ job'[t] # Idle /\ \A u \in Threads : u # t => job'[u] = job[u]
  BY <1>1 DEF Inner, Moves
<1>3. job[t].req.text \in Texts /\ n # None
  BY <1>2 DEF RequestInv, IInv, Shapes, Numbered, None
<1>4. CASE job'[t].entry = job[t].entry /\ UNCHANGED heap
  BY <1>1, <1>2, <1>4, CacheKept
<1>5. CASE /\ job'[t].entry = n /\ Document(job[t].req.text) # Unparsable
           /\ DOMAIN heap' = DOMAIN heap \cup {n} /\ heap'[n] = job[t].req.text
           /\ \A e \in DOMAIN heap : e # n => heap'[e] = heap[e]
  <2> HIDE DEF n
  <2>1. Occupied' = Occupied
    BY <1>1 DEF Occupied
  <2>2. Parsed'
    BY <1>3, <1>5 DEF RequestInv, Parsed
  <2>3. \A u \in Threads : job'[u] # Idle /\ job'[u].entry # None => job'[u].entry \in DOMAIN heap'
    BY <1>2, <1>5, CacheFacts
  <2>4. \A e \in DOMAIN heap' : e # None
    BY <1>3, <1>5, CacheFacts
  <2>5. job[t].entry = None
    BY <1>1, <1>2 DEF RequestInv, Progressing, Progress
  <2>6. \A e \in DOMAIN heap' : \/ \E q \in Texts : m_query_cache'[q] = e
                                \/ \E u \in Threads : job'[u] # Idle /\ job'[u].entry = e
    <3>1. ASSUME NEW e \in DOMAIN heap', e # n
          PROVE  \/ \E q \in Texts : m_query_cache'[q] = e
                 \/ \E u \in Threads : job'[u] # Idle /\ job'[u].entry = e
      <4>1. e \in DOMAIN heap /\ e # None
        BY <1>5, <2>4, <3>1
      <4>2. \/ \E q \in Texts : m_query_cache[q] = e
            \/ \E u \in Threads : u # t /\ job[u] # Idle /\ job[u].entry = e
        BY <2>5, <4>1, CacheFacts
      <4> QED
        BY <1>1, <1>2, <4>2
    <3> QED
      BY <1>2, <1>5, <3>1
  <2>7. IsFiniteSet(Occupied') /\ Cardinality(Occupied') <= k_query_cache_max
    BY <2>1, CacheFacts
  <2>8. EntriesAreSound'
    BY DEF IInv
  <2> QED
    BY <2>2, <2>3, <2>4, <2>6, <2>7, <2>8, CacheHolds
<1> QED
  BY <1>1, <1>4, <1>5

\* What a release leaves is exactly what is owned.
LEMMA ReleaseCache ==
    ASSUME RequestInv, IInv', NEW t \in Threads, Release(heap), Moves(t), job[t] # Idle,
           job'[t] # Idle => job'[t].entry = job[t].entry,
           IsFiniteSet(Occupied'), Cardinality(Occupied') <= k_query_cache_max
    PROVE  Parsed' /\ CacheBound'
<1>1. /\ DOMAIN heap' \subseteq DOMAIN heap
      /\ \A e \in DOMAIN heap' : heap'[e] = heap[e]
      /\ \A u \in Threads : (job'[u] # Idle /\ job'[u].entry \in DOMAIN heap
                             /\ job'[u].entry # None) => job'[u].entry \in DOMAIN heap'
  BY ReleaseKeeps
<1>2. Parsed'
  BY <1>1 DEF RequestInv, Parsed
<1>3. \A e \in DOMAIN heap' : e # None
  BY <1>1, CacheFacts
<1>4. \A u \in Threads : job'[u] # Idle => job[u] # Idle /\ job'[u].entry = job[u].entry
  BY DEF Moves
<1>5. \A u \in Threads : job'[u] # Idle /\ job'[u].entry # None => job'[u].entry \in DOMAIN heap'
  BY <1>1, <1>4, CacheFacts
<1>6. \A e \in DOMAIN heap' : \/ \E q \in Texts : m_query_cache'[q] = e
                              \/ \E u \in Threads : job'[u] # Idle /\ job'[u].entry = e
  BY DEF Release, Owners, Cached, Executing
<1>7. EntriesAreSound'
  BY DEF IInv
<1> QED
  BY <1>2, <1>3, <1>5, <1>6, <1>7, CacheHolds

\* A full cache loses an entry before it gains one: the bound is kept.
LEMMA InsertCache ==
    ASSUME RequestInv, IInv', NEW t \in Threads, Insert(t)
    PROVE  Parsed' /\ CacheBound'
<1> DEFINE q == job[t].req.text
           n == job[t].n
<1>1. /\ Inner(t) /\ job'[t].entry = job[t].entry /\ Release(heap)
      /\ \/ m_query_cache' = m_query_cache
         \/ /\ q \notin Occupied
            /\ \E evicted \in IF Full THEN {{x} : x \in Occupied} ELSE {{}} :
                 m_query_cache' = [x \in Texts |-> IF x = q THEN n
                                                   ELSE IF x \in evicted THEN None
                                                   ELSE m_query_cache[x]]
  BY InsertMoves DEF RequestInv
<1>2. Moves(t) /\ job[t] # Idle
  BY <1>1 DEF Inner
<1>3. q \in Texts /\ n # None
  BY <1>2 DEF RequestInv, IInv, Shapes, Numbered, None
<1>4. IsFiniteSet(Occupied') /\ Cardinality(Occupied') <= k_query_cache_max
  <2>1. CASE m_query_cache' = m_query_cache
    <3>1. Occupied' = Occupied
      BY <2>1 DEF Occupied
    <3> QED
      BY <3>1, CacheFacts
  <2>2. CASE /\ q \notin Occupied
             /\ \E evicted \in IF Full THEN {{x} : x \in Occupied} ELSE {{}} :
                  m_query_cache' = [x \in Texts |-> IF x = q THEN n
                                                    ELSE IF x \in evicted THEN None
                                                    ELSE m_query_cache[x]]
    <3>1. PICK evicted \in IF Full THEN {{x} : x \in Occupied} ELSE {{}} :
                  m_query_cache' = [x \in Texts |-> IF x = q THEN n
                                                    ELSE IF x \in evicted THEN None
                                                    ELSE m_query_cache[x]]
      BY <2>2
    <3> HIDE DEF q, n
    <3>2. Occupied' = (Occupied \ evicted) \cup {q}
      BY <1>3, <3>1 DEF Occupied
    <3>3. PICK c \in Nat : c = Cardinality(Occupied) /\ c <= k_query_cache_max
      BY CacheFacts
    <3>4. IsFiniteSet(Occupied \ evicted) /\ Cardinality(Occupied \ evicted) < k_query_cache_max
      <4>1. CASE Full
        <5>1. PICK x \in Occupied : evicted = {x}
          BY <3>1, <4>1
        <5>2. /\ IsFiniteSet(Occupied \ {x})
              /\ Cardinality(Occupied \ {x}) = Cardinality(Occupied) - 1
          BY CacheFacts, FS_RemoveElement
        <5>3. c - 1 < k_query_cache_max
          BY <3>3, CacheFacts
        <5> QED
          BY <3>3, <5>1, <5>2, <5>3
      <4>2. CASE ~Full
        <5>1. evicted = {}
          BY <3>1, <4>2
        <5>2. Occupied \ evicted = Occupied
          BY <5>1
        <5>3. c < k_query_cache_max
          BY <3>3, <4>2, CacheFacts DEF Full
        <5> QED
          BY <3>3, <5>2, <5>3, CacheFacts
      <4> QED
        BY <4>1, <4>2
    <3>5. q \notin Occupied \ evicted
      BY <2>2
    <3>6. /\ IsFiniteSet((Occupied \ evicted) \cup {q})
          /\ Cardinality((Occupied \ evicted) \cup {q}) = Cardinality(Occupied \ evicted) + 1
      BY <3>4, <3>5, FS_AddElement
    <3>7. PICK d \in Nat : d = Cardinality(Occupied \ evicted)
      BY <3>4, FS_CardinalityType
    <3>8. d + 1 <= k_query_cache_max
      BY <3>4, <3>7, CacheFacts
    <3> QED
      BY <3>2, <3>6, <3>7, <3>8
  <2> QED
    BY <1>1, <2>1, <2>2
<1> QED
  BY <1>1, <1>2, <1>4, ReleaseCache

-----------------------------------------------------------------------------
(* The beginning and the end of a request                                  *)

Answering == {u \in Threads : Http(u)}

\* The requests over HTTP that are in progress are finitely many.
LEMMA AnsweringFinite == IsFiniteSet(Answering) /\ Cardinality(Answering) \in Nat
<1>1. IsFiniteSet(Answering)
  BY FS_Subset, ExecutionAssumption DEF Answering
<1> QED
  BY <1>1, FS_CardinalityType

\* The end of a request: its connection has an answer to write, and one counter goes up.
LEMMA RespondStep ==
    ASSUME RequestInv, IInv', NEW t \in Threads, Respond(t)
    PROVE  RequestInv'
<1>1. job[t] # Idle /\ job'[t] = Idle /\ Moves(t)
  BY DEF Respond, Moves, RequestInv, IInv, Shapes, Idle
<1>2. \A u \in Threads : u # t => job'[u] = job[u]
  BY <1>1 DEF Moves
<1>3. UNCHANGED <<m_query_cache, tl_resolver_ctx, tl_gql_variables, total_requests,
                  csrf_refused, arrived>> /\ Release(heap)
  BY DEF Respond, slots
<1>4. Parsed' /\ CacheBound'
  <2>1. Occupied' = Occupied
    BY <1>3 DEF Occupied
  <2>2. IsFiniteSet(Occupied') /\ Cardinality(Occupied') <= k_query_cache_max
    BY <2>1, CacheFacts
  <2> QED
    BY <1>1, <1>3, <2>2, ReleaseCache
<1>5. Progressing'
  BY <1>1, <1>2 DEF RequestInv, Progressing
<1>6. CASE ~Http(t)
  <2>1. UNCHANGED <<http, successful_requests, error_count>>
    BY <1>6 DEF Respond
  <2>2. job[t].on \notin Connections
    BY <1>1, <1>6 DEF Http, RequestInv, Serving
  <2>3. Typed'
    BY <1>1, <1>2, <1>3, <2>1 DEF RequestInv, Typed
  <2>4. Counts'
    BY <1>3, <2>1 DEF RequestInv, Counts
  <2>5. Serving'
    BY <1>1, <1>2, <2>1, <2>2 DEF RequestInv, Serving
  <2>6. \A u \in Threads : Http(u)' <=> Http(u)
    BY <1>1, <1>2, <1>6 DEF Http
  <2>7. {u \in Threads : Http(u)'} = {u \in Threads : Http(u)}
    BY <2>6
  <2>8. RequestsAddUp'
    BY <1>3, <2>1, <2>7 DEF RequestInv, RequestsAddUp
  <2> QED
    BY <1>4, <1>5, <2>3, <2>4, <2>5, <2>8 DEF RequestInv
<1>7. CASE Http(t)
  <2> DEFINE k == job[t].on
  <2>1. /\ k \in Connections /\ http[k] = "serving" /\ http' = [http EXCEPT ![k] = "writing"]
        /\ \/ successful_requests' = successful_requests + 1 /\ error_count' = error_count
           \/ error_count' = error_count + 1 /\ successful_requests' = successful_requests
    BY <1>1, <1>7 DEF Http, Respond, RequestInv, Serving, BecomesHttp
  <2>2. \A u \in Threads : u # t /\ job[u] # Idle => job[u].on # k
    BY <1>1, <2>1 DEF RequestInv, Serving
  <2>3. http \in [Connections -> {"none", "reading", "serving", "writing"}]
    BY DEF RequestInv, Typed
  <2> HIDE DEF k
  <2>4. Typed'
    BY <1>1, <1>2, <1>3, <2>1 DEF RequestInv, Typed
  <2>5. Counts'
    BY <1>3, <2>1 DEF RequestInv, Counts
  <2>6. /\ http'[k] = "writing" /\ \A c \in Connections : c # k => http'[c] = http[c]
    BY <2>1, <2>3
  <2>7. Serving'
    <3>1. \A u \in Threads : job'[u] # Idle => u # t /\ job[u] # Idle /\ job'[u] = job[u] /\ job[u].on # k
      BY <1>1, <1>2, <2>2
    <3>2. ASSUME NEW u \in Threads, job'[u] # Idle
          PROVE  /\ job'[u].on \in Connections <=> job'[u].req.via = "http"
                 /\ job'[u].on \in Connections => http'[job'[u].on] = "serving"
      BY <2>6, <3>1, <3>2 DEF RequestInv, Serving
    <3>3. ASSUME NEW u \in Threads, NEW v \in Threads, job'[u] # Idle, job'[v] # Idle,
                 job'[u].on \in Connections, job'[u].on = job'[v].on
          PROVE  u = v
      BY <3>1, <3>3 DEF RequestInv, Serving
    <3>4. ASSUME NEW c \in Connections, http'[c] = "serving"
          PROVE  \E u \in Threads : job'[u] # Idle /\ job'[u].on = c
      <4>1. c # k /\ http[c] = "serving"
        BY <2>6, <3>4
      <4>2. PICK u \in Threads : job[u] # Idle /\ job[u].on = c
        BY <4>1 DEF RequestInv, Serving
      <4>3. u # t
        BY <4>1, <4>2 DEF k
      <4> QED
        BY <1>2, <4>2, <4>3
    <3> QED
      BY <3>2, <3>3, <3>4 DEF Serving
  <2>8. RequestsAddUp'
    <3>1. \A u \in Threads : Http(u)' <=> Http(u) /\ u # t
      BY <1>1, <1>2 DEF Http
    <3>2. {u \in Threads : Http(u)'} = Answering \ {t} /\ t \in Answering
      BY <1>7, <3>1 DEF Answering
    <3>3. Cardinality(Answering \ {t}) = Cardinality(Answering) - 1
      BY <3>2, AnsweringFinite, FS_RemoveElement
    <3>4. PICK c \in Nat : c = Cardinality(Answering)
      BY AnsweringFinite
    <3>5. total_requests = successful_requests + error_count + csrf_refused + c
      BY <3>4 DEF RequestInv, RequestsAddUp, Answering
    <3>6. /\ total_requests \in Nat /\ successful_requests \in Nat /\ error_count \in Nat
          /\ csrf_refused \in Nat
      BY DEF RequestInv, Counts
    <3>7. total_requests' = successful_requests' + error_count' + csrf_refused' + (c - 1)
      BY <1>3, <2>1, <3>5, <3>6
    <3> QED
      BY <3>2, <3>3, <3>4, <3>7 DEF RequestsAddUp
  <2> QED
    BY <1>4, <1>5, <2>4, <2>5, <2>7, <2>8 DEF RequestInv
<1> QED
  BY <1>6, <1>7

\* A request that begins has gathered nothing, or only that it is too long.
LEMMA BeginJob ==
    ASSUME RequestInv, NEW t \in Threads, NEW r \in Requests, Arrive(t),
           NEW k \in Connections \cup {NoConnection}, Execute(t, r, k)
    PROVE  /\ job[t] = Idle /\ job'[t] # Idle /\ \A u \in Threads : u # t => job'[u] = job[u]
           /\ job'[t].req = r /\ job'[t].on = k /\ job'[t].entry = None
           /\ JobTyped(job'[t]) /\ Progress(job'[t])
           /\ tl_gql_variables' \in [Threads -> Values]
           /\ arrived' = arrived + 1 /\ arrived' <= MaxRequests
<1>1. job[t] = Idle /\ arrived' = arrived + 1 /\ arrived \in Nat /\ arrived < MaxRequests
  BY DEF Arrive, RequestInv, IInv, Shapes
<1>2. arrived' <= MaxRequests
  BY <1>1, ExecutionAssumption
<1>3. t \in DOMAIN job /\ job = [u \in Threads |-> job[u]]
  BY DEF RequestInv, IInv, Shapes
<1>4. /\ job'[t] = [at |-> IF r.long THEN "finish" ELSE "lookup", n |-> arrived', req |-> r,
                    on |-> k, entry |-> None, field |-> 1, org |-> NoVariables,
                    keyed |-> {}, failed |-> IF r.long THEN {DocumentError} ELSE {}]
      /\ \A u \in Threads : u # t => job'[u] = job[u]
  BY <1>3 DEF Execute
<1>5. /\ job'[t].req = r /\ job'[t].on = k /\ job'[t].entry = None /\ job'[t].field = 1
      /\ job'[t].org = NoVariables /\ job'[t].keyed = {}
      /\ job'[t].failed = IF r.long THEN {DocumentError} ELSE {}
      /\ job'[t].at = IF r.long THEN "finish" ELSE "lookup"
  BY <1>4
<1>6. job'[t] # Idle
  BY <1>5 DEF Idle
<1>7. JobTyped(job'[t])
  BY <1>5, Defaults DEF JobTyped
<1>8. Progress(job'[t])
  BY <1>5 DEF Progress
<1>9. tl_gql_variables' \in [Threads -> Values]
  <2>1. ParsedVariables(r) \in Values
    BY DEF ParsedVariables, Values
  <2>2. tl_gql_variables \in [Threads -> Values]
    BY DEF RequestInv, Typed
  <2> QED
    BY <2>1, <2>2 DEF Execute
<1> QED
  BY <1>1, <1>2, <1>4, <1>5, <1>6, <1>7, <1>8, <1>9

\* A request over HTTP begins: its connection is served, and it is counted.
LEMMA HttpRequestStep ==
    ASSUME RequestInv, IInv', NEW t \in Threads, NEW r \in Requests, NEW k \in Connections,
           HttpRequest(t, r, k)
    PROVE  RequestInv'
<1>1. /\ Arrive(t) /\ Execute(t, r, k) /\ r.via = "http" /\ http[k] = "reading"
      /\ http' = [http EXCEPT ![k] = "serving"] /\ total_requests' = total_requests + 1
      /\ tl_resolver_ctx' = [tl_resolver_ctx EXCEPT ![t] = r.user]
      /\ UNCHANGED <<m_query_cache, heap, successful_requests, error_count, csrf_refused>>
  BY DEF HttpRequest, ArriveHttp, BecomesHttp
<1>2. /\ job[t] = Idle /\ job'[t] # Idle /\ \A u \in Threads : u # t => job'[u] = job[u]
      /\ job'[t].req = r /\ job'[t].on = k /\ job'[t].entry = None
      /\ JobTyped(job'[t]) /\ Progress(job'[t])
      /\ tl_gql_variables' \in [Threads -> Values]
      /\ arrived' = arrived + 1 /\ arrived' <= MaxRequests
  BY <1>1, BeginJob
<1>3. Parsed' /\ CacheBound'
  BY <1>1, <1>2, CacheKept
<1>4. Progressing'
  BY <1>2 DEF RequestInv, Progressing
<1>5. http \in [Connections -> {"none", "reading", "serving", "writing"}]
  BY DEF RequestInv, Typed
<1>6. Typed'
  <2>1. tl_resolver_ctx' \in [Threads -> Users]
    BY <1>1, ExecutionAssumption DEF RequestInv, Typed
  <2>2. http' \in [Connections -> {"none", "reading", "serving", "writing"}]
    BY <1>1, <1>5
  <2>3. \A u \in Threads : job'[u] # Idle => JobTyped(job'[u])
    BY <1>2 DEF RequestInv, Typed
  <2> QED
    BY <1>2, <2>1, <2>2, <2>3 DEF Typed
<1>7. Counts'
  BY <1>1, <1>2, ExecutionAssumption DEF RequestInv, Counts, IInv, Shapes
<1>8. /\ http'[k] = "serving" /\ \A c \in Connections : c # k => http'[c] = http[c]
  BY <1>1, <1>5
<1>9. \A u \in Threads : job[u] # Idle => job[u].on # k
  BY <1>1 DEF RequestInv, Serving
<1>10. Serving'
  <2>1. ASSUME NEW u \in Threads, job'[u] # Idle
        PROVE  /\ job'[u].on \in Connections <=> job'[u].req.via = "http"
               /\ job'[u].on \in Connections => http'[job'[u].on] = "serving"
    <3>1. CASE u = t
      BY <1>1, <1>2, <1>8, <3>1
    <3>2. CASE u # t
      BY <1>2, <1>8, <1>9, <2>1, <3>2 DEF RequestInv, Serving
    <3> QED
      BY <3>1, <3>2
  <2>2. ASSUME NEW u \in Threads, NEW v \in Threads, job'[u] # Idle, job'[v] # Idle,
               job'[u].on \in Connections, job'[u].on = job'[v].on
        PROVE  u = v
    BY <1>2, <1>9, <2>2 DEF RequestInv, Serving
  <2>3. ASSUME NEW c \in Connections, http'[c] = "serving"
        PROVE  \E u \in Threads : job'[u] # Idle /\ job'[u].on = c
    BY <1>2, <1>8, <2>3 DEF RequestInv, Serving
  <2> QED
    BY <2>1, <2>2, <2>3 DEF Serving
<1>11. RequestsAddUp'
  <2>1. \A u \in Threads : Http(u)' <=> Http(u) \/ u = t
    BY <1>1, <1>2 DEF Http
  <2>2. {u \in Threads : Http(u)'} = Answering \cup {t} /\ t \notin Answering
    BY <1>2, <2>1 DEF Answering, Http
  <2>3. Cardinality(Answering \cup {t}) = Cardinality(Answering) + 1
    BY <2>2, AnsweringFinite, FS_AddElement
  <2>4. PICK c \in Nat : c = Cardinality(Answering)
    BY AnsweringFinite
  <2>5. total_requests = successful_requests + error_count + csrf_refused + c
    BY <2>4 DEF RequestInv, RequestsAddUp, Answering
  <2>6. /\ total_requests \in Nat /\ successful_requests \in Nat /\ error_count \in Nat
        /\ csrf_refused \in Nat
    BY DEF RequestInv, Counts
  <2>7. total_requests' = successful_requests' + error_count' + csrf_refused' + (c + 1)
    BY <1>1, <2>5, <2>6
  <2> QED
    BY <2>2, <2>3, <2>4, <2>7 DEF RequestsAddUp
<1> QED
  BY <1>3, <1>4, <1>6, <1>7, <1>10, <1>11 DEF RequestInv

\* An operation of a WebSocket begins: on no connection, and not counted.
LEMMA SocketStep ==
    ASSUME RequestInv, IInv', NEW t \in Threads, NEW r \in Requests, SocketOperation(t, r)
    PROVE  RequestInv'
<1>1. /\ Arrive(t) /\ Execute(t, r, NoConnection) /\ r.via = "socket"
      /\ UNCHANGED <<m_query_cache, heap, tl_resolver_ctx, http, total_requests,
                     successful_requests, error_count, csrf_refused>>
  BY DEF SocketOperation, counters
<1>2. /\ job[t] = Idle /\ job'[t] # Idle /\ \A u \in Threads : u # t => job'[u] = job[u]
      /\ job'[t].req = r /\ job'[t].on = NoConnection /\ job'[t].entry = None
      /\ JobTyped(job'[t]) /\ Progress(job'[t])
      /\ tl_gql_variables' \in [Threads -> Values]
      /\ arrived' = arrived + 1 /\ arrived' <= MaxRequests
  BY <1>1, BeginJob
<1>3. Parsed' /\ CacheBound'
  BY <1>1, <1>2, CacheKept
<1>4. Progressing'
  BY <1>2 DEF RequestInv, Progressing
<1>5. Typed'
  BY <1>1, <1>2 DEF RequestInv, Typed
<1>6. Counts'
  BY <1>1, <1>2, ExecutionAssumption DEF RequestInv, Counts, IInv, Shapes
<1>7. Serving'
  <2>1. NoConnection \notin Connections /\ r.via # "http"
    BY <1>1, ExecutionAssumption
  <2> QED
    BY <1>1, <1>2, <2>1 DEF RequestInv, Serving
<1>8. \A u \in Threads : Http(u)' <=> Http(u)
  BY <1>1, <1>2 DEF Http
<1>9. {u \in Threads : Http(u)'} = {u \in Threads : Http(u)}
  BY <1>8
<1>10. RequestsAddUp'
  BY <1>1, <1>9 DEF RequestInv, RequestsAddUp
<1> QED
  BY <1>3, <1>4, <1>5, <1>6, <1>7, <1>10 DEF RequestInv

\* A connection that is not served changes its state; a refusal is counted as it is made.
LEMMA ConnectionStep ==
    ASSUME RequestInv, IInv', NEW k \in Connections, UNCHANGED <<m_query_cache, heap, slots, job>>,
           http[k] # "serving", NEW s \in {"none", "reading", "writing"},
           http' = [http EXCEPT ![k] = s],
           UNCHANGED <<successful_requests, error_count>>,
           \/ UNCHANGED <<total_requests, csrf_refused, arrived>>
           \/ /\ total_requests' = total_requests + 1 /\ csrf_refused' = csrf_refused + 1
              /\ arrived' = arrived + 1 /\ arrived < MaxRequests
    PROVE  RequestInv'
<1>1. Parsed' /\ CacheBound'
  BY CacheKept DEF RequestInv, CacheBound
<1>2. Progressing'
  BY DEF RequestInv, Progressing
<1>3. http \in [Connections -> {"none", "reading", "serving", "writing"}]
  BY DEF RequestInv, Typed
<1>4. Typed'
  BY <1>3 DEF RequestInv, Typed, slots
<1>5. Counts'
  BY ExecutionAssumption DEF RequestInv, Counts, IInv, Shapes
<1>6. http'[k] = s /\ s # "serving" /\ \A c \in Connections : c # k => http'[c] = http[c]
  BY <1>3
<1>7. Serving'
  BY <1>6 DEF RequestInv, Serving
<1>8. {u \in Threads : Http(u)'} = Answering
  BY DEF Http, Answering
<1>9. RequestsAddUp'
  <2>1. PICK c \in Nat : c = Cardinality(Answering)
    BY AnsweringFinite
  <2>2. total_requests = successful_requests + error_count + csrf_refused + c
    BY <2>1 DEF RequestInv, RequestsAddUp, Answering
  <2>3. /\ total_requests \in Nat /\ successful_requests \in Nat /\ error_count \in Nat
        /\ csrf_refused \in Nat
    BY DEF RequestInv, Counts
  <2>4. total_requests' = successful_requests' + error_count' + csrf_refused' + c
    BY <2>2, <2>3
  <2> QED
    BY <1>8, <2>1, <2>4 DEF RequestsAddUp
<1> QED
  BY <1>1, <1>2, <1>4, <1>5, <1>7, <1>9 DEF RequestInv

\* Nothing is cached, executed or counted at first.
LEMMA RequestInit == Init => RequestInv
<1> SUFFICES ASSUME Init PROVE RequestInv
  OBVIOUS
<1>1. IInv
  BY ExecutionInit
<1>2. \A t \in Threads : job[t] = Idle
  BY DEF Init
<1>3. DOMAIN heap = {}
  BY DEF Init
<1>4. Typed
  BY <1>2, ExecutionAssumption, Defaults DEF Init, Typed
<1>5. Counts
  BY ExecutionAssumption DEF Init, Counts
<1>6. Parsed /\ Progressing
  BY <1>2, <1>3 DEF Parsed, Progressing
<1>7. Serving
  BY <1>2 DEF Init, Serving
<1>8. RequestsAddUp
  <2>1. {t \in Threads : Http(t)} = {}
    BY <1>2 DEF Http
  <2>2. Cardinality({t \in Threads : Http(t)}) = 0
    BY <2>1, FS_EmptySet
  <2> QED
    BY <2>2 DEF Init, RequestsAddUp
<1>9. CacheBound
  <2>1. Occupied = {}
    BY DEF Init, Occupied
  <2>2. IsFiniteSet(Occupied) /\ Cardinality(Occupied) <= k_query_cache_max
    BY <2>1, FS_EmptySet, ExecutionAssumption
  <2>3. Cached(m_query_cache) = {}
    BY DEF Init, Cached
  <2>4. Executing(job) = {}
    BY <1>2 DEF Executing
  <2> QED
    BY <1>3, <2>1, <2>2, <2>3, <2>4 DEF CacheBound, CacheIsSound
<1> QED
  BY <1>1, <1>4, <1>5, <1>6, <1>7, <1>8, <1>9 DEF RequestInv

\* A step of a request that answers a field or calls a resolver leaves the cache alone.
LEMMA LaterCache ==
    ASSUME RequestInv, NEW t \in Threads, Inner(t), job'[t].entry = job[t].entry,
           UNCHANGED <<m_query_cache, heap>>
    PROVE  Parsed' /\ CacheBound'
BY CacheKept DEF Inner, Moves

\* Every step keeps the invariant.
LEMMA RequestNext == RequestInv /\ [Next]_vars => RequestInv'
<1> SUFFICES ASSUME RequestInv, [Next]_vars PROVE RequestInv'
  OBVIOUS
<1>0. IInv /\ IInv'
  BY ExecutionStep DEF RequestInv
<1>a. Work \/ UNCHANGED server
  BY StepsAreWork
<1>1. ASSUME NEW t \in Threads, Inner(t), JobTyped(job'[t]), Progress(job'[t]), Parsed', CacheBound'
      PROVE  RequestInv'
  BY <1>0, <1>1, InnerKeeps DEF RequestInv
<1>2. ASSUME NEW t \in Threads, Lookup(t) \/ Parse(t) \/ Insert(t) PROVE RequestInv'
  BY <1>0, <1>1, <1>2, EarlySteps, LookupCache, ParseCache, InsertCache
<1>3. ASSUME NEW t \in Threads, CheckLimits(t) PROVE RequestInv'
  <2>1. job'[t].entry = job[t].entry /\ UNCHANGED <<m_query_cache, heap>>
    BY <1>0, <1>3, LimitsMoves
  <2>2. Inner(t) /\ JobTyped(job'[t]) /\ Progress(job'[t])
    BY <1>3, LimitsStep
  <2> QED
    BY <1>1, <2>1, <2>2, LaterCache
<1>4. ASSUME NEW t \in Threads, CallResolver(t) PROVE RequestInv'
  <2>1. job'[t].entry = job[t].entry /\ UNCHANGED <<m_query_cache, heap>>
    BY <1>0, <1>4, CallMoves
  <2>2. Inner(t) /\ JobTyped(job'[t]) /\ Progress(job'[t])
    BY <1>4, CallStep
  <2> QED
    BY <1>1, <2>1, <2>2, LaterCache
<1>b. ASSUME NEW t \in Threads, StopAtDefinition(t) PROVE RequestInv'
  <2>1. job'[t].entry = job[t].entry /\ UNCHANGED <<m_query_cache, heap>>
    BY <1>0, <1>b, StopMoves
  <2>2. Inner(t) /\ JobTyped(job'[t]) /\ Progress(job'[t])
    BY <1>b, StopStep
  <2> QED
    BY <1>1, <2>1, <2>2, LaterCache
<1>5. ASSUME NEW t \in Threads, NEW keyed, NEW failed, job[t].at \in {"field", "resolver"},
             Field(t) # NotExecutable, keyed \/ failed, Answer(t, keyed, failed),
             UNCHANGED <<m_query_cache, heap, slots, http, counters, arrived>>
      PROVE  RequestInv'
  <2>1. job'[t].entry = job[t].entry
    BY <1>0, <1>5, AnswerMoves
  <2>2. Inner(t) /\ JobTyped(job'[t]) /\ Progress(job'[t])
    BY <1>5, FieldStep
  <2> QED
    BY <1>1, <1>5, <2>1, <2>2, LaterCache
<1>6. ASSUME NEW t \in Threads,
             \/ TypeName(t) \/ MissingResolver(t) \/ Denied(t)
             \/ ResolverReturns(t) \/ ResolverThrows(t)
      PROVE  RequestInv'
  <2>1. /\ job[t].at \in {"field", "resolver"}
        /\ UNCHANGED <<m_query_cache, heap, slots, http, counters, arrived>>
        /\ \E keyed, failed : (keyed \/ failed) /\ Answer(t, keyed, failed)
    BY <1>6 DEF TypeName, MissingResolver, Denied, Reads, ResolverReturns, ResolverThrows
  <2>2. Field(t) # NotExecutable
    <3>1. CASE TypeName(t) \/ MissingResolver(t) \/ Denied(t)
      BY <3>1, ExecutionAssumption DEF TypeName, MissingResolver, Denied, Reads
    <3>2. CASE job[t].at = "resolver"
      <4>1. Progress(job[t]) /\ Doc(t) = Document(job[t].req.text)
        BY <3>2, ItsDocument DEF Own
      <4> QED
        BY <3>2, <4>1 DEF Progress, Field
    <3> QED
      BY <1>6, <3>1, <3>2 DEF ResolverReturns, ResolverThrows
  <2> QED
    BY <1>5, <2>1, <2>2
<1>7. ASSUME NEW k \in Connections,
             \/ Accept(k) \/ ReadFails(k) \/ WriteDone(k)
             \/ \E t \in Threads : AnswerOther(t, k)
             \/ \E t \in Threads, r \in Requests : HttpRefused(t, r, k)
      PROVE  RequestInv'
  <2>1. /\ UNCHANGED <<m_query_cache, heap, slots, job, successful_requests, error_count>>
        /\ http[k] # "serving"
        /\ \E s \in {"none", "reading", "writing"} : http' = [http EXCEPT ![k] = s]
        /\ \/ UNCHANGED <<total_requests, csrf_refused, arrived>>
           \/ /\ total_requests' = total_requests + 1 /\ csrf_refused' = csrf_refused + 1
              /\ arrived' = arrived + 1 /\ arrived < MaxRequests
    BY <1>7 DEF Accept, ReadFails, WriteDone, AnswerOther, HttpRefused, ArriveHttp, Arrive,
                BecomesHttp, counters
  <2> QED
    BY <1>0, <2>1, ConnectionStep
<1>8. CASE UNCHANGED server
  <2>1. UNCHANGED <<m_query_cache, heap, tl_resolver_ctx, tl_gql_variables, job, http,
                    total_requests, successful_requests, error_count, csrf_refused, arrived>>
    BY <1>8 DEF server, slots, counters
  <2>2. Typed' /\ Counts' /\ Progressing' /\ Serving'
    BY <2>1 DEF RequestInv, Typed, Counts, Progressing, Serving
  <2>3. Parsed' /\ CacheBound'
    <3>1. \A u \in Threads : IF job'[u] # Idle
                             THEN job'[u].entry = IF job[u] # Idle THEN job[u].entry ELSE None
                             ELSE job[u] = Idle
      BY <2>1
    <3> QED
      BY <2>1, <3>1, CacheKept
  <2>4. {t \in Threads : Http(t)'} = {t \in Threads : Http(t)}
    BY <2>1 DEF Http
  <2>5. RequestsAddUp'
    BY <2>1, <2>4 DEF RequestInv, RequestsAddUp
  <2> QED
    BY <1>0, <2>2, <2>3, <2>5 DEF RequestInv
<1> QED
  BY <1>0, <1>a, <1>2, <1>3, <1>4, <1>b, <1>6, <1>7, <1>8, HttpRequestStep, SocketStep,
     RespondStep DEF Work

\* The invariant of the cache and of the answers holds in every state.
THEOREM RequestInvariant == Spec => []RequestInv
<1> QED
  BY RequestInit, RequestNext, PTL DEF Spec

\* When the process has ended, a thread has reached the field whose argument ended it.
Ending == terminated \in BOOLEAN /\ EndsByArgument

\* Only an argument ends the process, after which there are no steps.
LEMMA EndingStep == RequestInv /\ Ending /\ [Next]_vars => Ending'
<1> SUFFICES ASSUME RequestInv, Ending, [Next]_vars PROVE Ending'
  OBVIOUS
<1>1. CASE ~terminated /\ Work /\ UNCHANGED terminated
  BY <1>1 DEF Ending, EndsByArgument
<1>2. ASSUME NEW t \in Threads, ArgumentThrows(t) PROVE Ending'
  <2>1. /\ job[t].at = "field" /\ Unreadable(job[t].req.text, Field(t)) /\ terminated'
        /\ Field(t) \in Resolvers /\ UNCHANGED <<job, heap>>
    BY <1>2 DEF ArgumentThrows, server
  <2>2. /\ Progress(job[t]) /\ Doc(t) = Document(job[t].req.text)
        /\ Doc(t) \in Seq(Seq(STRING) \ {<<>>})
    BY <2>1, ItsDocument DEF Own
  <2> DEFINE doc == Document(job[t].req.text)
             i == job[t].field
  <2>3. Within(doc) /\ i \in DOMAIN doc /\ Free(doc, i - 1) /\ doc[i][1] # NotExecutable
    BY <2>1, <2>2, ExecutionAssumption DEF Progress, Field
  <2>4. i \in Executable(doc)
    <3>1. i \in 1..Len(doc) /\ Len(doc) \in Nat
      BY <2>2, <2>3
    <3> HIDE DEF doc, i
    <3> QED
      BY <2>3, <3>1 DEF Executable, Free
  <2>5. WithinLimits(doc)
    BY <2>3 DEF Within
  <2>6. Field(t)' = Field(t)
    BY <2>1 DEF Field, Doc
  <2>7. terminated' \in BOOLEAN
    BY <1>2 DEF ArgumentThrows
  <2> QED
    BY <2>1, <2>4, <2>5, <2>6, <2>7 DEF Ending, EndsByArgument
<1>3. CASE UNCHANGED vars
  BY <1>3 DEF Ending, EndsByArgument, vars, server, Field, Doc
<1> QED
  BY <1>1, <1>2, <1>3 DEF Next

\* An exception ends the process only where the argument of a field cannot be converted.
LEMMA EndingHolds == Spec => []Ending
<1>1. Init => Ending
  BY DEF Init, Ending, EndsByArgument
<1> QED
  BY <1>1, EndingStep, RequestInvariant, PTL DEF Spec

\* Whatever is parsed, found, evicted and released at once: the cache is never larger than
\* its bound, holds under each text a parse of that text that is allocated, and nothing is
\* allocated that neither the cache nor a request owns (GqlExecutor.cpp:3581).
THEOREM CacheIsCorrect == Spec => []CacheInv
<1>1. ASSUME RequestInv, Ending PROVE CacheInv
  <2>1. ParseIsOwn /\ CacheIsSound
    BY <1>1 DEF RequestInv, IInv, CacheBound
  <2>2. /\ arrived \in Nat /\ arrived <= MaxRequests /\ MaxRequests \in Nat
        /\ \A e \in 1..arrived : e \in Numbers
    BY <1>1, ExecutionAssumption DEF RequestInv, Counts, IInv, Shapes, Numbers
  <2>3. DOMAIN heap \subseteq Numbers /\ \A e \in DOMAIN heap : heap[e] \in Texts
    BY <1>1, <2>2 DEF RequestInv, IInv, Numbered, Parsed
  <2>4. m_query_cache \in [Texts -> {None} \cup Numbers]
    BY <1>1, <2>3 DEF RequestInv, IInv, Shapes, EntriesAreSound
  <2>5. ASSUME NEW t \in Threads PROVE job[t] = Idle \/ job[t] \in Job
    <3>1. SUFFICES ASSUME job[t] # Idle PROVE job[t] \in Job
      OBVIOUS
    <3>2. Shaped(job[t]) /\ JobTyped(job[t]) /\ job[t].n \in Numbers
      BY <1>1, <2>2, <3>1 DEF RequestInv, IInv, Shapes, Typed, Numbered
    <3>3. job[t].entry \in {None} \cup Numbers
      BY <1>1, <2>3, <3>1, CacheFacts
    <3> QED
      BY <3>2, <3>3 DEF Shaped, JobTyped, Job
  <2>6. /\ tl_resolver_ctx \in [Threads -> Users] /\ tl_gql_variables \in [Threads -> Values]
        /\ http \in [Connections -> {"none", "reading", "serving", "writing"}]
    BY <1>1 DEF RequestInv, Typed
  <2>7. \A c \in {total_requests, successful_requests, error_count, csrf_refused, arrived} :
           c \in 0..MaxRequests
    <3>1. PICK n \in Nat : n = Cardinality(Answering)
      BY AnsweringFinite
    <3>2. total_requests = successful_requests + error_count + csrf_refused + n
      BY <1>1, <3>1 DEF RequestInv, RequestsAddUp, Answering
    <3>3. /\ total_requests \in Nat /\ successful_requests \in Nat /\ error_count \in Nat
          /\ csrf_refused \in Nat /\ total_requests <= arrived
      BY <1>1 DEF RequestInv, Counts
    <3> QED
      BY <2>2, <3>2, <3>3
  <2>8. TypeOK
    BY <1>1, <2>3, <2>4, <2>5, <2>6, <2>7 DEF TypeOK, Ending
  <2> QED
    BY <2>1, <2>8 DEF CacheInv
<1> QED
  BY <1>1, RequestInvariant, EndingHolds, PTL

\* Whichever fields are denied or have a resolver that fails: an executed document is
\* answered in full up to a definition that is not executable, every request over HTTP that
\* is answered is in one counter, a connection has one answer at a time; and the process ends
\* only where the argument of a field that it has reached cannot be converted
\* (GqlExecutor.cpp:3632, Server.cpp:1277, Server.cpp:750, GqlExecutor.cpp:2976).
THEOREM AnswersAreComplete == Spec => []AnswersInv
<1>1. ASSUME RequestInv, Ending PROVE AnswersInv
  <2>1. RequestsAddUp
    BY <1>1 DEF RequestInv
  <2>2. AnsweredInFull
    <3>1. ASSUME NEW t \in Threads, job[t].at = "finish" PROVE job[t] # Idle
      BY <3>1 DEF Idle
    <3> QED
      BY <1>1, <3>1 DEF RequestInv, Progressing, Progress, AnsweredInFull, Within, Given
  <2>3. ASSUME NEW k \in Connections
        PROVE  Cardinality({t \in Threads : job[t] # Idle /\ job[t].on = k})
                 = IF http[k] = "serving" THEN 1 ELSE 0
    <3> DEFINE S == {t \in Threads : job[t] # Idle /\ job[t].on = k}
    <3>1. CASE http[k] = "serving"
      <4>1. PICK t \in Threads : job[t] # Idle /\ job[t].on = k
        BY <1>1, <3>1 DEF RequestInv, Serving
      <4>2. \A u \in Threads : job[u] # Idle /\ job[u].on = k => u = t
        BY <1>1, <4>1 DEF RequestInv, Serving
      <4>3. S = {t}
        BY <4>1, <4>2
      <4> HIDE DEF S
      <4>4. Cardinality(S) = 1
        BY <4>3, FS_Singleton
      <4> QED
        BY <3>1, <4>4 DEF S
    <3>2. CASE http[k] # "serving"
      <4>1. S = {}
        BY <1>1, <3>2 DEF RequestInv, Serving
      <4> HIDE DEF S
      <4>2. Cardinality(S) = 0
        BY <4>1, FS_EmptySet
      <4> QED
        BY <3>2, <4>2 DEF S
    <3> QED
      BY <3>1, <3>2
  <2>4. OneAnswerAtATime
    BY <2>3 DEF OneAnswerAtATime
  <2> QED
    BY <1>1, <2>1, <2>2, <2>4 DEF AnswersInv, Ending
<1> QED
  BY <1>1, RequestInvariant, EndingHolds, PTL
=============================================================================
