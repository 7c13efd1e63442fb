--------------------------- MODULE ConfigSnapshots ---------------------------
(***************************************************************************)
(* Configuration snapshots: the SQLite store of isched_DatabaseManager.cpp,*)
(* the resolvers applyConfiguration, activateSnapshot and                  *)
(* rollbackConfiguration of isched_GqlExecutor.cpp, and the tail of        *)
(* Server::execute_graphql, which loads the schema that a resolver queued. *)
(*                                                                         *)
(* A request runs on one thread.  Each call into the store is atomic       *)
(* (config_db_mutex_), each access to the pending schema change is         *)
(* (m_pending_change_mutex), and anything may happen in between.  A row is *)
(* known by its place in the table; its SDL by the row.                    *)
(***************************************************************************)
EXTENDS Naturals, Sequences, FiniteSets, SequencesExt

CONSTANTS Threads, Tenants, Versions,
          Contents,       \* the kinds of snapshot that are submitted, see Content
          Stores,         \* the tables a process may find when it first starts
          MaxSnapshots,   \* bound on rows
          MaxAdded,       \* bound on rows of a table that still gets more
          MaxTime,        \* bound on the clock, in seconds
          WebSockets,     \* whether requests also come over WebSocket sessions
          MaxFaults,      \* bound on SQLite failures
          MaxRestarts     \* bound on process restarts

\* types: only types.  field: declares a Query field and has no binding for it.
\* bound: declares the field and brings its resolver binding.  All fields are one.
\* mistyped: only types, and a binding with a member that is no string.
Content == {"types", "field", "bound", "mistyped"}

\* The version compared with when a tenant has no active snapshot, and no version.
Zero == "0"
Unset == "unset"

Row == [tenant : Tenants, version : Versions, content : Content,
        created : 0..MaxTime, active : BOOLEAN]

ASSUME ConfigAssumption ==
    /\ IsFiniteSet(Threads)
    /\ Contents \subseteq Content
    /\ Zero \notin Versions /\ Unset \notin Versions
    /\ WebSockets \in BOOLEAN
    /\ \A s \in Stores :
          /\ s = [i \in 1..Len(s) |-> s[i]] /\ Len(s) \in 0..MaxSnapshots
          /\ \A i \in 1..Len(s) : s[i] \in Row /\ ~s[i].active
    /\ MaxAdded \in Nat /\ MaxAdded <= MaxSnapshots
    /\ MaxSnapshots \in Nat /\ MaxTime \in Nat /\ MaxFaults \in Nat /\ MaxRestarts \in Nat

VARIABLES
    snaps,       \* config_snapshots as the open connection sees it
    durable,     \* what is committed of it
    txn,         \* a transaction was left open on the connection
    now,         \* the clock, in the seconds created_at is stored in
    call,        \* the request each thread is serving
    pending,     \* m_pending_schema_change: the row whose SDL is queued, or 0
    bound,       \* row whose resolver binding is registered, or 0
    loaded,      \* row whose SDL was merged last, for each tenant, or 0
    announced,   \* row named by the last configurationActivated event, or 0
    activations, \* history: rows activated since the process started, latest last
    disturbed,   \* history: requests overlapped, or a schema was refused or not looked for
    faults, restarts

store  == <<snaps, durable, txn>>
memory == <<pending, bound, loaded, announced, activations>>
bounds == <<now, faults, restarts>>
vars   == <<store, memory, bounds, call, disturbed>>

Ids == 1..MaxSnapshots

Idle == [op |-> "idle"]

\* by: the resolver; id: the row it acts on; changed: it has changed the store as
\* others see it; hides: the row for whose activation it answers with an error although
\* it has changed the store, or 0.
Call ==
       {Idle}
  \cup [op : {"save"}, tenant : Tenants, version : Versions, content : Content]
  \cup [op : {"activate", "queue", "bind", "publish"}, by : {"activate", "rollback"},
        id : Ids, changed : BOOLEAN]
  \cup [op : {"drain"}, hides : Ids \cup {0}]
  \cup [op : {"clear", "load", "loading"}, id : Ids]

TypeOK ==
    /\ snaps \in Seq(Row) /\ Len(snaps) <= MaxSnapshots
    /\ durable \in Seq(Row) /\ Len(durable) <= Len(snaps)
    /\ txn \in BOOLEAN
    /\ now \in 0..MaxTime
    /\ call \in [Threads -> Call]
    /\ pending \in Ids \cup {0}
    /\ bound \in Ids \cup {0}
    /\ loaded \in [Tenants -> Ids \cup {0}]
    /\ announced \in [Tenants -> Ids \cup {0}]
    /\ activations \in [Tenants -> Seq(Ids)]
    /\ disturbed \in BOOLEAN
    /\ faults \in 0..MaxFaults /\ restarts \in 0..MaxRestarts

AllIdle == [t \in Threads |-> Idle]

Init ==
    /\ snaps \in Stores /\ durable = snaps /\ txn = FALSE
    /\ now \in 0..MaxTime /\ \A i \in 1..Len(snaps) : snaps[i].created <= now
    /\ faults = 0 /\ restarts = 0 /\ disturbed = FALSE
    /\ call = AllIdle
    /\ pending = 0 /\ bound = 0
    /\ loaded = [tn \in Tenants |-> 0]
    /\ announced = [tn \in Tenants |-> 0]
    /\ activations = [tn \in Tenants |-> <<>>]

-----------------------------------------------------------------------------
(* The store                                                               *)

Rows(s, tn) == {i \in 1..Len(s) : s[i].tenant = tn}

ActiveRows(s, tn) == {i \in Rows(s, tn) : s[i].active}

\* get_active_config_snapshot, by its version (LIMIT 1).
ActiveVersion(tn) ==
    IF ActiveRows(snaps, tn) = {} THEN {Zero}
    ELSE {snaps[i].version : i \in ActiveRows(snaps, tn)}

\* The row with that id, or none.
get_config_snapshot(id) == {i \in 1..Len(snaps) : i = id}

\* list_config_snapshots: newest first by created_at, ties in any order.
Listings(tn) ==
    {q \in SetToSeqs(Rows(snaps, tn)) :
        \A i, j \in 1..Len(q) : i < j => snaps[q[i]].created >= snaps[q[j]].created}

\* Mutant: the other snapshots of the tenant are not deactivated.
ActivatedBeside(s, id) == [s EXCEPT ![id].active = TRUE]

\* The two updates of activate_config_snapshot.
Activated(s, id) ==
    [i \in 1..Len(s) |->
        IF i = id THEN [s[i] EXCEPT !.active = TRUE]
        ELSE IF s[i].tenant = s[id].tenant THEN [s[i] EXCEPT !.active = FALSE]
        ELSE s[i]]

Fault == faults < MaxFaults /\ faults' = faults + 1

\* The resolver answers, with success or with an error that hides row id, if any.
Answer(t, id) == call' = [call EXCEPT ![t] = [op |-> "drain", hides |-> id]]
Succeed(t)    == Answer(t, 0)
Fail(t, id)   == Answer(t, id)

-----------------------------------------------------------------------------
(* applyConfiguration                                                      *)

\* A save in progress counts towards the bound.
Room == Len(snaps) + Cardinality({t \in Threads : call[t].op = "save"}) < MaxAdded

Submit(t, tn, v, c) ==
    call' = [call EXCEPT ![t] = [op |-> "save", tenant |-> tn, version |-> v, content |-> c]]

\* The expectedVersion gate reads the active version in a call of its own.
ApplyCheck(t, tn, v, c, e) ==
    /\ call[t] = Idle
    /\ Room
    /\ e = Unset \/ e \in ActiveVersion(tn)
    /\ Submit(t, tn, v, c)
    /\ UNCHANGED <<store, memory, bounds>>

\* save_config_snapshot.  The row joins a transaction that was left open.
ApplySave(t) ==
    /\ call[t].op = "save"
    /\ LET row == [tenant |-> call[t].tenant, version |-> call[t].version,
                   content |-> call[t].content, created |-> now, active |-> FALSE]
       IN  \/ /\ snaps' = Append(snaps, row)
              /\ durable' = IF txn THEN durable ELSE Append(durable, row)
              /\ Succeed(t)
              /\ UNCHANGED faults
           \/ /\ Fault
              /\ Fail(t, 0)
              /\ UNCHANGED <<snaps, durable>>
    /\ UNCHANGED <<txn, memory, now, restarts>>

-----------------------------------------------------------------------------
(* activateSnapshot and rollbackConfiguration                              *)

\* The snapshot is looked up first.
ActivateBegin(t, id) ==
    /\ call[t] = Idle
    /\ get_config_snapshot(id) # {}
    /\ call' = [call EXCEPT ![t] = [op |-> "activate", by |-> "activate", id |-> id,
                                    changed |-> FALSE]]
    /\ UNCHANGED <<store, memory, bounds>>

\* Mutant: the newest row.
RollbackTargetNewest(q) == Head(q)

\* The row after the active one in a listing q, else the first inactive one.
RollbackTarget(q) ==
    LET inactive == {i \in 1..Len(q) : ~snaps[q[i]].active}
        after == {i \in inactive : \E j \in 1..(i - 1) : snaps[q[j]].active}
        pick == IF after # {} THEN after ELSE inactive
    IN  q[Min(pick)]

\* A step of the listing's statement that fails ends the list, as its last row does.
RollbackBegin(t, tn) ==
    /\ call[t] = Idle
    /\ \E q \in Listings(tn), n \in 2..MaxSnapshots :
          /\ \/ n = Len(q) /\ UNCHANGED faults
             \/ n < Len(q) /\ Fault
          /\ call' = [call EXCEPT ![t] = [op |-> "activate", by |-> "rollback",
                                          id |-> RollbackTarget(SubSeq(q, 1, n)),
                                          changed |-> FALSE]]
    /\ UNCHANGED <<store, memory, now, restarts>>

\* activate_config_snapshot committed.
ActivateStore(t) ==
    /\ call[t].op = "activate" /\ ~txn
    /\ LET id == call[t].id
       IN  /\ snaps' = Activated(snaps, id)
           /\ durable' = snaps'
           /\ activations' = [activations EXCEPT ![snaps[id].tenant] =
                                Append(RemoveFirst(@, id), id)]
           /\ call' = [call EXCEPT ![t].op = "queue", ![t].changed = snaps' # snaps]
    /\ UNCHANGED <<txn, pending, bound, loaded, announced, bounds>>

\* Mutant: the update that was done is committed, not rolled back.
ActivateFailsHalf(t) ==
    /\ call[t].op = "activate"
    /\ ~txn /\ Fault
    /\ snaps' = [i \in 1..Len(snaps) |->
                   IF snaps[i].tenant = snaps[call[t].id].tenant
                   THEN [snaps[i] EXCEPT !.active = FALSE] ELSE snaps[i]]
    /\ durable' = snaps'
    /\ Fail(t, IF snaps' = snaps THEN 0 ELSE call[t].id)
    /\ UNCHANGED <<txn, memory, now, restarts>>

\* BEGIN fails inside an open transaction; a failing update is rolled back.
ActivateFails(t) ==
    /\ call[t].op = "activate"
    /\ \/ txn /\ UNCHANGED faults
       \/ ~txn /\ Fault
    /\ Fail(t, 0)
    /\ UNCHANGED <<store, memory, now, restarts>>

\* COMMIT fails and the function returns without a ROLLBACK: where SQLite has not
\* rolled back by itself, the transaction stays open with both updates in it.
CommitFails(t) ==
    /\ call[t].op = "activate" /\ ~txn
    /\ Fault
    /\ snaps' = Activated(snaps, call[t].id)
    /\ txn' = TRUE
    /\ Fail(t, IF snaps' = snaps THEN 0 ELSE call[t].id)
    /\ UNCHANGED <<durable, memory, now, restarts>>

\* Mutant: only activateSnapshot queues a schema change.
QueueSchemaNotRollback(t) ==
    /\ call[t].op = "queue"
    /\ IF call[t].by = "activate"
       THEN /\ pending' = call[t].id
            /\ call' = [call EXCEPT ![t].op = "bind"]
       ELSE /\ Succeed(t)
            /\ UNCHANGED pending
    /\ UNCHANGED <<store, bound, loaded, announced, activations, bounds>>

\* set_pending_schema_change; rollbackConfiguration ends with it.
QueueSchema(t) ==
    /\ call[t].op = "queue"
    /\ pending' = call[t].id
    /\ IF call[t].by = "activate"
       THEN call' = [call EXCEPT ![t].op = "bind"]
       ELSE Succeed(t)
    /\ UNCHANGED <<store, bound, loaded, announced, activations, bounds>>

\* The exception leaves the resolver where a member of the binding is no string
\* (json::type_error: only parse_error is caught), and where the field has a resolver
\* already (register_resolver).
RegisterBinding(t) ==
    /\ call[t].op = "bind"
    /\ LET content == snaps[call[t].id].content
           throws  == content = "mistyped" \/ (content = "bound" /\ bound # 0)
       IN  /\ IF throws
              THEN Fail(t, IF call[t].changed THEN call[t].id ELSE 0)
              ELSE call' = [call EXCEPT ![t].op = "publish"]
           /\ bound' = IF content = "bound" /\ ~throws THEN call[t].id ELSE bound
    /\ UNCHANGED <<store, pending, loaded, announced, activations, bounds>>

PublishActivated(t) ==
    /\ call[t].op = "publish"
    /\ announced' = [announced EXCEPT ![snaps[call[t].id].tenant] = call[t].id]
    /\ Succeed(t)
    /\ UNCHANGED <<store, pending, bound, loaded, activations, bounds>>

-----------------------------------------------------------------------------
(* The tail of execute_graphql, which every HTTP request runs              *)

\* A request that leaves the configuration alone: another operation, an
\* applyConfiguration whose arguments, expectedVersion or SDL are refused, an
\* activateSnapshot of an unknown row, a rollback with fewer than two rows.
OtherRequest(t) ==
    /\ call[t] = Idle
    /\ Succeed(t)
    /\ UNCHANGED <<store, memory, bounds>>

\* WsSession::handle_subscribe executes any operation, and does no more.
AnswerOverSocket(t) ==
    /\ call[t].op = "drain" /\ WebSockets
    /\ call' = [call EXCEPT ![t] = Idle]
    /\ UNCHANGED <<store, memory, bounds>>

\* get_pending_schema_change
GetPending(t) ==
    /\ call[t].op = "drain"
    /\ call' = [call EXCEPT ![t] =
                  IF pending = 0 THEN Idle ELSE [op |-> "clear", id |-> pending]]
    /\ UNCHANGED <<store, memory, bounds>>

\* clear_pending_schema_change, whatever is queued by now.
ClearPending(t) ==
    /\ call[t].op = "clear"
    /\ pending' = 0
    /\ call' = [call EXCEPT ![t].op = "load"]
    /\ UNCHANGED <<store, bound, loaded, announced, activations, bounds>>

LoadBegin(t) ==
    /\ call[t].op = "load"
    /\ call' = [call EXCEPT ![t].op = "loading"]
    /\ UNCHANGED <<store, memory, bounds>>

\* load_schema: an SDL with a Query field that has no resolver is ignored.  The
\* executor's schema is not locked, so that a load that overlaps another may be lost.
LoadSchema(t) ==
    /\ call[t].op = "loading"
    /\ LET id == call[t].id
           tn == snaps[id].tenant
           loadable == snaps[id].content \in {"types", "mistyped"} \/ bound # 0
       IN  \/ loadable /\ loaded' = [loaded EXCEPT ![tn] = id]
           \/ /\ ~loadable \/ \E u \in Threads \ {t} : call[u].op = "loading"
              /\ UNCHANGED loaded
    /\ call' = [call EXCEPT ![t] = Idle]
    /\ UNCHANGED <<store, pending, bound, announced, activations, bounds>>

-----------------------------------------------------------------------------

Tick ==
    /\ now < MaxTime
    /\ now' = now + 1
    /\ UNCHANGED <<store, memory, faults, restarts, call>>

\* Mutant: opening the store again writes every row as inactive.
RestartDeactivates ==
    /\ restarts < MaxRestarts
    /\ restarts' = restarts + 1
    /\ durable' = [i \in 1..Len(durable) |-> [durable[i] EXCEPT !.active = FALSE]]
    /\ snaps' = durable' /\ txn' = FALSE
    /\ call' = AllIdle
    /\ pending' = 0 /\ bound' = 0
    /\ loaded' = [tn \in Tenants |-> 0]
    /\ announced' = [tn \in Tenants |-> 0]
    /\ activations' = [tn \in Tenants |-> <<>>]
    /\ UNCHANGED <<now, faults>>

\* The process dies and comes back: the committed rows are all that is left.
Restart ==
    /\ restarts < MaxRestarts
    /\ restarts' = restarts + 1
    /\ snaps' = durable /\ txn' = FALSE
    /\ call' = AllIdle
    /\ pending' = 0 /\ bound' = 0
    /\ loaded' = [tn \in Tenants |-> 0]
    /\ announced' = [tn \in Tenants |-> 0]
    /\ activations' = [tn \in Tenants |-> <<>>]
    /\ UNCHANGED <<durable, now, faults>>

Begin(t) ==
    \/ \E tn \in Tenants, v \in Versions, c \in Contents, e \in Versions \cup {Zero, Unset} :
          ApplyCheck(t, tn, v, c, e)
    \/ \E id \in Ids : ActivateBegin(t, id)
    \/ \E tn \in Tenants : RollbackBegin(t, tn)
    \/ OtherRequest(t)

Continue(t) ==
    \/ ApplySave(t)
    \/ ActivateStore(t) \/ ActivateFails(t) \/ CommitFails(t)
    \/ QueueSchema(t) \/ RegisterBinding(t) \/ PublishActivated(t)
    \/ AnswerOverSocket(t)
    \/ GetPending(t) \/ ClearPending(t) \/ LoadBegin(t) \/ LoadSchema(t)

Step == (\E t \in Threads : Begin(t) \/ Continue(t)) \/ Tick \/ Restart

Disturbs ==
    \/ Cardinality({t \in Threads : call'[t] # Idle}) > 1
    \/ \E t \in Threads :
         /\ call'[t] = Idle
         /\ \/ call[t].op = "drain" /\ pending' # 0
            \/ call[t].op = "loading" /\ loaded'[snaps[call[t].id].tenant] # call[t].id

Next == Step /\ disturbed' = (disturbed \/ Disturbs)

Spec == Init /\ [][Next]_vars

-----------------------------------------------------------------------------
(* Properties                                                              *)

Quiet == call = AllIdle

\* A tenant never has two active snapshots, in the connection's view or on disk,
\* through failures of any statement, an unfinished transaction and restarts.
OneActive ==
    \A tn \in Tenants :
       /\ Cardinality(ActiveRows(snaps, tn)) <= 1
       /\ Cardinality(ActiveRows(durable, tn)) <= 1

\* A tenant that once had an active snapshot on disk has one ever after: the switch
\* from one to the other cannot be seen half done, by a crash either.
StaysConfigured ==
    [][\A tn \in Tenants : ActiveRows(durable, tn) # {} => ActiveRows(durable', tn) # {}]_vars

\* A request that answers with an error has changed nothing of the store that others
\* see, but for the three ways in which an activation can fail after its updates: its
\* COMMIT failed and left the transaction open, a member of its binding is no string, or
\* its field had a resolver already.
FailureChangesNothing ==
    \A t \in Threads :
       call[t].op = "drain" /\ call[t].hides # 0 =>
          LET content == snaps[call[t].hides].content
          IN  txn \/ content = "mistyped" \/ (content = "bound" /\ bound # 0)

\* isched_GqlExecutor.hpp:319, "checks this after every execute() and calls
\* load_schema() accordingly": with no request in progress, a tenant's last loaded
\* SDL is that of its active snapshot.  It takes requests that did not overlap, over
\* HTTP, without a failure of the store or a refused schema: two requests share one
\* queue entry, which is read and cleared in two calls, and a WebSocket session never
\* looks at it.
LoadedIsActive ==
    (Quiet /\ ~disturbed /\ faults = 0) =>
       \A tn \in Tenants :
          activations[tn] # <<>> => loaded[tn] \in ActiveRows(snaps, tn)

\* isched_GqlExecutor.cpp:1209, "Rolls back to the previously-activated snapshot for
\* a tenant": the row a rollback activates is the last one in force before the active
\* one.  It takes a tenant all of whose rows were activated, in the order in which
\* they were saved and in seconds of their own: the target is chosen by created_at.
RollbackRestoresPrevious ==
    [][\A t \in Threads, tn \in Tenants :
          LET acts == activations[tn]
          IN  (/\ call[t].op = "activate" /\ call[t].by = "rollback"
               /\ call'[t].op = "queue" /\ snaps[call[t].id].tenant = tn
               /\ ~disturbed /\ faults = 0
               /\ Len(acts) > 1 /\ ToSet(acts) = Rows(snaps, tn)
               /\ \A i, j \in 1..Len(acts) :
                    i < j => snaps[acts[i]].created < snaps[acts[j]].created)
              => call[t].id = acts[Len(acts) - 1]]_vars

\* The store, in every state: the types, and at most one active snapshot for a tenant,
\* whichever statement of activate_config_snapshot fails.
StoreInv == TypeOK /\ OneActive
=============================================================================
