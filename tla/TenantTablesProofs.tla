------------------------- MODULE TenantTablesProofs -------------------------
(***************************************************************************)
(* Proofs about TenantTables: the types with the bounds of its counters,   *)
(* that an answer of success or error means what it says, and that no      *)
(* document is overwritten unasked.                                        *)
(***************************************************************************)
EXTENDS TenantTables, FiniteSetTheorems, TLAPS

\* A request whose write is still to come.
Pending(t) == call[t].op \in {"update", "delete", "insert", "replace"}

\* A transaction is open only after a COMMIT has failed, and only it sees other rows than
\* the committed ones; a connection that is held inside one is held while it lasts.
Isolated ==
    /\ ~poisoned => ~txn
    /\ ~txn => view = db
    /\ \A t \in Threads : call[t].op \in {"update", "delete"} /\ call[t].conn = "open" => txn

\* Numbers are given out once: that of a request still to write is in no row, was not
\* refused and is no other's.
Numbered ==
    /\ \A n \in refused : 1 <= n /\ n <= requests
    /\ \A r \in Rows : db[r] <= requests /\ db[r] \notin refused
    /\ \A t \in Threads : Pending(t) =>
          /\ 1 <= call[t].n /\ call[t].n <= requests /\ call[t].n \notin refused
          /\ \A r \in Rows : db[r] # call[t].n
    /\ \A t, u \in Threads : Pending(t) /\ Pending(u) /\ t # u => call[t].n # call[u].n

\* Every creation and deletion of the data source is a request of its own.
Budget == created <= requests /\ deleted <= requests

\* An upload that replaces asked to, and a document it found stays.
Replacing ==
    \A t \in Threads : call[t].op = "replace" =>
       call[t].overwrite = TRUE /\ (~txn => db["document"] # Absent)

\* While no COMMIT has failed, the data source agrees with what was created and deleted, ...
Counted == deleted + (IF db["source"] = Absent THEN 0 ELSE 1) = created

\* ... an update has its user, or was noted when that was deleted; what reads a row back
\* has written, or was noted, and again if the user is there after all, ...
Knows(t) ==
    /\ call[t].op = "update" => db["user"] # Absent \/ call[t].n \in missed
    /\ call[t].op = "fetch" =>
          (call[t].n \in applied \cup reborn
           \/ (call[t].row = "user" /\ db["user"] = Absent /\ call[t].n \in missed))

Known == \A t \in Threads : Knows(t)

\* ... and success means a committed write.
Honest == granted \subseteq applied \cup reborn

TenantInv ==
    /\ TypeOK /\ Isolated /\ Numbered /\ Budget /\ Replacing
    /\ ~poisoned => Counted /\ Known /\ Honest

-----------------------------------------------------------------------------
(* The requests in progress                                                *)

\* The fields of a request in progress are what their names say.
LEMMA Fields ==
    ASSUME call \in [Threads -> Call], NEW t \in Threads
    PROVE  /\ Pending(t) => call[t].n \in Values
           /\ call[t].op \in {"update", "delete"} => call[t].conn \in Conns
           /\ call[t].op \in {"insert", "replace"} => call[t].overwrite \in BOOLEAN
           /\ call[t].op = "fetch" => call[t].n \in Values /\ call[t].row \in Rows
  <1>1. call[t] \in Call
    OBVIOUS
  <1> QED
    BY <1>1, SMT DEF Call, Idle, Pending

\* The records that the actions make are requests.
LEMMA Records ==
    /\ Idle \in Call
    /\ \A op \in {"users", "sources", "documents"} : [op |-> op] \in Call
    /\ \A op \in {"update", "delete"}, n \in Values, c \in Conns : [op |-> op, n |-> n, conn |-> c] \in Call
    /\ \A op \in {"insert", "replace"}, n \in Values, w \in BOOLEAN :
          [op |-> op, n |-> n, overwrite |-> w] \in Call
    /\ \A n \in Values, r \in Rows : [op |-> "fetch", n |-> n, row |-> r] \in Call
  BY SMT DEF Call, Idle

\* One thread goes on to c; the others stay where they are.
LEMMA Moved ==
    ASSUME call \in [Threads -> Call], NEW t \in Threads, NEW c,
           call' = [call EXCEPT ![t] = c]
    PROVE  /\ c \in Call => call' \in [Threads -> Call]
           /\ call'[t] = c
           /\ \A u \in Threads \ {t} : call'[u] = call[u]
  OBVIOUS

-----------------------------------------------------------------------------
(* Steps by what they do to the rows and the answers                       *)

\* The step is about request n, which begins with it or had its write still to come.
Own(t, n) ==
    \/ call[t] = Idle /\ requests' = requests + 1 /\ n = requests'
    \/ Pending(t) /\ requests' = requests /\ n = call[t].n

\* Tables are made, statements fail, the counters stay in their bounds.
Bounded ==
    /\ tables' \subseteq Rows /\ made' \subseteq Rows
    /\ requests' \in Values /\ requests <= requests'
    /\ faults' \in 0..MaxFaults /\ restarts' \in 0..MaxRestarts

Untouched == UNCHANGED <<db, view, txn, applied, created, missed, reborn, poisoned>>

\* The number of a step is new to the rows, the refusals and the other requests.
LEMMA Fresh ==
    ASSUME TenantInv, NEW t \in Threads, NEW n, Own(t, n), Bounded
    PROVE  /\ n \in Values /\ 1 <= n /\ n <= requests' /\ n \notin refused
           /\ \A r \in Rows : db[r] # n
           /\ \A u \in Threads \ {t} : Pending(u) => call[u].n # n
  <1>1. CASE call[t] = Idle /\ requests' = requests + 1 /\ n = requests'
    BY <1>1, SMT DEF TenantInv, TypeOK, Numbered, Bounded, Values
  <1>2. CASE Pending(t) /\ requests' = requests /\ n = call[t].n
    BY <1>2, Fields, SMT DEF TenantInv, TypeOK, Numbered, Bounded, Values
  <1> QED
    BY <1>1, <1>2 DEF Own

\* A request goes on, or ends with or without success, and its write, if any, was before;
\* or it has met no row and goes on to read it back.
LEMMA QuietStep ==
    ASSUME TenantInv, NEW t \in Threads, NEW c \in Call, call' = [call EXCEPT ![t] = c],
           c.op \notin {"update", "delete", "insert", "replace"},
           c.op = "fetch" /\ ~poisoned => Knows(t)',
           Bounded, Untouched, UNCHANGED <<refused, deleted>>,
           granted' \subseteq Values,
           ~poisoned => granted' \subseteq applied \cup reborn
    PROVE  TenantInv'
  <1>1. /\ call' \in [Threads -> Call] /\ call'[t] = c
        /\ \A u \in Threads \ {t} : call'[u] = call[u]
    BY Zenon, Moved DEF TenantInv, TypeOK
  <1>2. \A u \in Threads : /\ call'[u].op \in {"update", "delete", "insert", "replace"} => u # t
                           /\ u # t => call'[u] = call[u]
    BY <1>1
  <1>3. TypeOK'
    BY <1>1, Zenon DEF TenantInv, TypeOK, Bounded, Untouched
  <1>4. Isolated'
    BY <1>2, Zenon DEF TenantInv, Isolated, Untouched
  <1>5. Numbered'
    <2>1. \A n \in refused' : 1 <= n /\ n <= requests'
      BY SMT DEF TenantInv, TypeOK, Numbered, Bounded, Values
    <2>2. \A r \in Rows : db'[r] <= requests' /\ db'[r] \notin refused'
      BY SMT DEF TenantInv, TypeOK, Numbered, Bounded, Untouched, Values
    <2>3. \A u \in Threads : Pending(u)' => Pending(u) /\ call'[u] = call[u]
      BY <1>2, Zenon DEF Pending
    <2>4. ASSUME NEW u \in Threads, Pending(u)'
          PROVE  /\ 1 <= call'[u].n /\ call'[u].n <= requests' /\ call'[u].n \notin refused'
                 /\ \A r \in Rows : db'[r] # call'[u].n
      BY <2>3, <2>4, Fields, SMT DEF TenantInv, TypeOK, Numbered, Bounded, Untouched, Values
    <2>5. \A u, w \in Threads : Pending(u)' /\ Pending(w)' /\ u # w => call'[u].n # call'[w].n
      BY <2>3 DEF TenantInv, Numbered
    <2> QED
      BY <2>1, <2>2, <2>4, <2>5, Zenon DEF Numbered
  <1>6. Budget'
    BY SMT DEF TenantInv, TypeOK, Budget, Bounded, Untouched, Values
  <1>7. Replacing'
    BY <1>2, Zenon DEF TenantInv, Replacing, Untouched
  <1>8. ~poisoned' => Counted' /\ Known' /\ Honest'
    <2> SUFFICES ASSUME ~poisoned PROVE Counted' /\ Known' /\ Honest'
      BY Zenon DEF Untouched
    <2>1. Counted /\ Known
      BY Zenon DEF TenantInv
    <2>2. Counted'
      BY <2>1, Zenon DEF Counted, Untouched
    <2>3. Known'
      <3> SUFFICES ASSUME NEW u \in Threads PROVE Knows(u)'
        BY Zenon DEF Known
      <3>1. CASE u = t /\ c.op = "fetch"
        <4>1. Knows(t)'
          BY <3>1
        <4> QED
          BY <3>1, <4>1
      <3>3. CASE u = t /\ c.op # "fetch"
        BY <1>1, <3>3 DEF Knows
      <3>2. CASE u # t
        <4>1. call'[u] = call[u] /\ Knows(u)
          BY <1>2, <2>1, <3>2 DEF Known
        <4> QED
          BY <4>1, SMT DEF Knows, Untouched
      <3> QED
        BY <3>1, <3>2, <3>3
    <2>4. Honest'
      BY Zenon DEF Honest, Untouched
    <2> QED
      BY <2>2, <2>3, <2>4
  <1> QED
    BY <1>3, <1>4, <1>5, <1>6, <1>7, <1>8, Zenon DEF TenantInv

\* Numbers stay apart when the number of the step is refused, or written, or the request
\* that has it goes on to its write.
LEMMA NumberedKept ==
    ASSUME TenantInv, NEW t \in Threads, NEW c, call' = [call EXCEPT ![t] = c],
           NEW n, Own(t, n), Bounded,
           \/ refused' = refused \cup {n} /\ db' = db
           \/ refused' = refused /\ \A r \in Rows : db'[r] \in {db[r], Absent, n},
           c.op \in {"update", "delete", "insert", "replace"} =>
              c.n = n /\ refused' = refused /\ db' = db
    PROVE  Numbered'
  <1>1. /\ call'[t] = c
        /\ \A u \in Threads \ {t} : call'[u] = call[u]
    BY Zenon, Moved DEF TenantInv, TypeOK
  <1>2. /\ n \in Values /\ 1 <= n /\ n <= requests' /\ n \notin refused
        /\ \A r \in Rows : db[r] # n
        /\ \A u \in Threads \ {t} : Pending(u) => call[u].n # n
    BY Zenon, Fresh
  <1>3. ASSUME NEW m \in refused'
        PROVE  1 <= m /\ m <= requests'
    <2>1. m \in refused => m \in Nat /\ 1 <= m /\ m <= requests
      BY SMT DEF TenantInv, TypeOK, Numbered, Values
    <2>2. m \in refused \/ m = n
      OBVIOUS
    <2>3. requests \in Nat /\ requests' \in Nat /\ requests <= requests'
      BY SMT DEF TenantInv, TypeOK, Bounded, Values
    <2> QED
      BY <1>2, <2>1, <2>2, <2>3
  <1>4. ASSUME NEW r \in Rows
        PROVE  db'[r] <= requests' /\ db'[r] \notin refused'
    <2>1. /\ db[r] \in Nat /\ db[r] <= requests /\ db[r] \notin refused /\ db[r] # n
          /\ requests \in Nat /\ requests' \in Nat /\ requests <= requests' /\ 0 \notin refused
      BY <1>2, SMT DEF TenantInv, TypeOK, Numbered, Bounded, Values
    <2> QED
      BY <1>2, <2>1, SMT DEF Absent
  <1>5. \A u \in Threads \ {t} : Pending(u)' => Pending(u) /\ call'[u] = call[u]
    BY <1>1 DEF Pending
  <1>6. ASSUME NEW u \in Threads, Pending(u)'
        PROVE  /\ 1 <= call'[u].n /\ call'[u].n <= requests' /\ call'[u].n \notin refused'
               /\ \A r \in Rows : db'[r] # call'[u].n
    <2>1. CASE u = t
      BY <1>1, <1>2, <1>6, <2>1, SMT DEF Pending
    <2>2. CASE u # t
      <3>1. Pending(u) /\ call'[u] = call[u] /\ call[u].n \in Values /\ call[u].n # n
        BY <1>2, <1>5, <1>6, <2>2, Fields DEF TenantInv, TypeOK
      <3>2. /\ 1 <= call[u].n /\ call[u].n <= requests /\ call[u].n \notin refused
            /\ \A r \in Rows : db[r] # call[u].n
        BY <3>1 DEF TenantInv, Numbered
      <3> QED
        BY <1>2, <3>1, <3>2, SMT DEF TenantInv, TypeOK, Bounded, Values, Absent
    <2> QED
      BY <2>1, <2>2
  <1>7. \A u, w \in Threads : Pending(u)' /\ Pending(w)' /\ u # w => call'[u].n # call'[w].n
    BY <1>1, <1>2, <1>5 DEF TenantInv, Numbered, Pending
  <1> QED
    BY <1>3, <1>4, <1>6, <1>7, Zenon DEF Numbered

\* A request ends with an error before it wrote, or goes on to its write.
LEMMA UnwrittenStep ==
    ASSUME TenantInv, NEW t \in Threads, NEW c \in Call, call' = [call EXCEPT ![t] = c],
           NEW n, Own(t, n), Bounded, Untouched, UNCHANGED <<granted, deleted>>,
           \/ c = Idle /\ refused' = refused \cup {n}
           \/ /\ refused' = refused /\ requests' = requests + 1
              /\ c.op \in {"update", "delete", "insert", "replace"} /\ c.n = n,
           c.op \in {"update", "delete"} =>
              /\ c.conn = "open" => txn
              /\ ~poisoned => db["user"] # Absent,
           c.op = "replace" => c.overwrite = TRUE /\ (~txn => db["document"] # Absent)
    PROVE  TenantInv'
  <1>1. /\ call' \in [Threads -> Call] /\ call'[t] = c
        /\ \A u \in Threads \ {t} : call'[u] = call[u]
    BY Zenon, Moved DEF TenantInv, TypeOK
  <1>2. n \in Values
    BY Zenon, Fresh
  <1>3. c.op \in {"idle", "update", "delete", "insert", "replace"}
    BY DEF Idle
  <1>4. TypeOK'
    BY <1>1, <1>2 DEF TenantInv, TypeOK, Bounded, Untouched
  <1>5. Isolated'
    <2>1. ASSUME NEW u \in Threads, call'[u].op \in {"update", "delete"}, call'[u].conn = "open"
          PROVE  txn'
      <3>1. CASE u = t
        BY <1>1, <2>1, <3>1, Zenon DEF Untouched
      <3>2. CASE u # t
        BY <1>1, <2>1, <3>2, Zenon DEF TenantInv, Isolated, Untouched
      <3> QED
        BY <3>1, <3>2
    <2> QED
      BY <2>1, Zenon DEF TenantInv, Isolated, Untouched
  <1>6. Numbered'
    <2>1. \/ refused' = refused \cup {n} /\ db' = db
          \/ refused' = refused /\ \A r \in Rows : db'[r] \in {db[r], Absent, n}
      BY DEF Untouched
    <2>2. c.op \in {"update", "delete", "insert", "replace"} => c.n = n /\ refused' = refused /\ db' = db
      BY DEF Idle, Untouched
    <2> QED
      BY <2>1, <2>2, NumberedKept, Zenon
  <1>7. Budget'
    BY SMT DEF TenantInv, TypeOK, Budget, Bounded, Untouched, Values
  <1>8. Replacing'
    <2>1. ASSUME NEW u \in Threads, call'[u].op = "replace"
          PROVE  call'[u].overwrite = TRUE /\ (~txn' => db'["document"] # Absent)
      <3>1. CASE u = t
        BY <1>1, <2>1, <3>1, SMT DEF Untouched
      <3>2. CASE u # t
        BY <1>1, <2>1, <3>2, SMT DEF TenantInv, Replacing, Untouched
      <3> QED
        BY <3>1, <3>2
    <2> QED
      BY <2>1, Zenon DEF Replacing
  <1>9. ~poisoned' => Counted' /\ Known' /\ Honest'
    <2> SUFFICES ASSUME ~poisoned PROVE Counted' /\ Known' /\ Honest'
      BY Zenon DEF Untouched
    <2>1. Counted /\ Known /\ Honest
      BY Zenon DEF TenantInv
    <2>2. Counted'
      BY <2>1, Zenon DEF Counted, Untouched
    <2>3. Known'
      <3> SUFFICES ASSUME NEW u \in Threads PROVE Knows(u)'
        BY Zenon DEF Known
      <3>1. CASE u = t
        <4>1. c.op # "fetch" /\ db' = db /\ (c.op = "update" => db["user"] # Absent)
          BY <1>3 DEF Untouched
        <4> QED
          BY <1>1, <3>1, <4>1, SMT DEF Knows
      <3>2. CASE u # t
        <4>1. call'[u] = call[u] /\ Knows(u)
          BY <1>1, <2>1, <3>2 DEF Known
        <4> QED
          BY <4>1, SMT DEF Knows, Untouched
      <3> QED
        BY <3>1, <3>2
    <2>4. Honest'
      BY <2>1, Zenon DEF Honest, Untouched
    <2> QED
      BY <2>2, <2>3, <2>4
  <1> QED
    BY <1>4, <1>5, <1>6, <1>7, <1>8, <1>9, Zenon DEF TenantInv

\* What one statement does to the rows, as the committed database and an open transaction
\* see them, and to the count of the row's lives.
LEMMA WriteEffect ==
    ASSUME TenantInv, NEW k \in Conns, NEW r \in Rows, NEW v \in Values, NEW n \in Values,
           k = "open" => txn, k = "clean" => ~txn, Write(k, r, v, n)
    PROVE  /\ db' \in [Rows -> Values] /\ view' \in [Rows -> Values] /\ applied' \subseteq Values
           /\ k = "clean" => db' = view' /\ applied' = applied \cup {n}
           /\ k = "open" => db' = db /\ applied' = applied
           /\ \A q \in Rows : db'[q] = IF k = "clean" /\ q = r THEN v ELSE db[q]
           /\ created' \in {created, created + 1}
           /\ created' # created => r = "source" /\ Read(k, r) = Absent /\ v # Absent
           /\ r = "source" /\ Read(k, r) = Absent /\ v # Absent => created' = created + 1
           /\ k = "clean" => Read(k, r) = db[r]
  <1>0. /\ created' \in {created, created + 1}
        /\ created' # created => r = "source" /\ Read(k, r) = Absent /\ v # Absent
        /\ r = "source" /\ Read(k, r) = Absent /\ v # Absent => created' = created + 1
    BY Zenon DEF Write
  <1>1. view' = [view EXCEPT ![r] = v] /\ view' \in [Rows -> Values] /\ Rows = {"user", "source", "document"}
    BY DEF Write, TenantInv, TypeOK, Rows
  <1>2. CASE k = "clean"
    <2>1. view = db
      BY <1>2, Zenon DEF TenantInv, Isolated
    <2>2. db' = view' /\ applied' = applied \cup {n} /\ Read(k, r) = db[r] /\ k # "open"
      BY <1>2 DEF Write, Read
    <2>3. applied' \subseteq Values
      BY <2>2 DEF TenantInv, TypeOK
    <2>4. \A q \in Rows : db'[q] = IF q = r THEN v ELSE db[q]
      BY <1>1, <2>1, <2>2 DEF TenantInv, TypeOK
    <2> QED
      BY <1>0, <1>1, <1>2, <2>2, <2>3, <2>4, SMT
  <1>3. CASE k = "open"
    <2>1. db' = db /\ applied' = applied /\ k # "clean"
      BY <1>3 DEF Write
    <2>2. db' \in [Rows -> Values] /\ applied' \subseteq Values
      BY <2>1 DEF TenantInv, TypeOK
    <2> QED
      BY <1>0, <1>1, <1>3, <2>1, <2>2, SMT
  <1> QED
    BY <1>2, <1>3 DEF Conns

\* What the histories of updates note of it: those whose user is deleted, and those of them
\* whose user is there again.
LEMMA Noted ==
    ASSUME TenantInv, Note, ~poisoned, NEW u \in Threads, Knows(u), call'[u] = call[u], applied \subseteq applied'
    PROVE  Knows(u)'
  <1>1. missed \subseteq missed' /\ reborn \subseteq reborn'
    BY DEF Note
  <1>2. CASE call[u].op = "update"
    <2>1. db["user"] # Absent /\ db'["user"] = Absent => call[u].n \in missed'
      BY <1>2 DEF Note
    <2> QED
      BY <1>1, <1>2, <2>1 DEF Knows
  <1>3. CASE call[u].op = "fetch"
    <2>1. db["user"] = Absent /\ db'["user"] # Absent /\ call[u].n \in missed => call[u].n \in reborn'
      BY <1>3 DEF Note
    <2> QED
      BY <1>1, <1>3, <2>1 DEF Knows
  <1> QED
    BY <1>2, <1>3 DEF Knows

\* ... which are numbers of requests.
LEMMA NotedTypes ==
    ASSUME TypeOK, Note
    PROVE  missed' \subseteq Values /\ reborn' \subseteq Values
  <1>1. \A t \in Threads : call[t].op = "update" => call[t].n \in Values
    BY Fields DEF TypeOK, Pending
  <1> QED
    BY <1>1 DEF Note, TypeOK

\* A statement that creates or changes a row, and the request goes on to read it back.
Stores(t, k, r, n) ==
    /\ Write(k, r, n, n) /\ UNCHANGED <<deleted, granted>>
    /\ Read(k, r) = Absent /\ r = "source" => requests' = requests + 1
    /\ FetchRow(t, n, r)

\* A statement that deletes a row, and the request ends.
Removes(t, k, r, n) ==
    /\ Write(k, r, Absent, n) /\ granted' = granted \cup {n}
    /\ \/ r = "user" /\ deleted' = deleted
       \/ r = "source" /\ requests' = requests + 1 /\ Read(k, r) # Absent /\ deleted' = deleted + 1
    /\ Goto(t, Idle)

\* A request writes a row and goes on to read it back, or deletes a row and ends.
LEMMA WrittenStep ==
    ASSUME TenantInv, NEW t \in Threads, NEW k \in Conns, NEW r \in Rows, NEW n, NEW v, NEW c \in Call,
           Own(t, n), Bounded, k = "open" => txn, k = "clean" => ~txn,
           UNCHANGED <<txn, poisoned, refused>>,
           Write(k, r, v, n), call' = [call EXCEPT ![t] = c],
           \/ /\ v = n /\ c.op = "fetch" /\ c.n = n /\ UNCHANGED <<deleted, granted>>
              /\ Read(k, r) = Absent /\ r = "source" => requests' = requests + 1
           \/ /\ v = Absent /\ c.op = "idle" /\ granted' = granted \cup {n}
              /\ \/ r = "user" /\ deleted' = deleted
                 \/ r = "source" /\ requests' = requests + 1 /\ Read(k, r) # Absent /\ deleted' = deleted + 1
    PROVE  TenantInv'
  <1>1. /\ call' \in [Threads -> Call] /\ call'[t] = c
        /\ \A u \in Threads \ {t} : call'[u] = call[u]
    BY Zenon, Moved DEF TenantInv, TypeOK
  <1>2. n \in Values /\ Absent \in Values /\ 1 <= n
    BY Fresh, TenantAssumption, SMT DEF Absent, Values
  <1>3. v \in Values
    BY <1>2
  <1>4. /\ db' \in [Rows -> Values] /\ view' \in [Rows -> Values] /\ applied' \subseteq Values
        /\ k = "clean" => db' = view' /\ applied' = applied \cup {n}
        /\ k = "open" => db' = db /\ applied' = applied
        /\ \A q \in Rows : db'[q] = IF k = "clean" /\ q = r THEN v ELSE db[q]
        /\ created' \in {created, created + 1}
        /\ created' # created => r = "source" /\ Read(k, r) = Absent /\ v # Absent
        /\ r = "source" /\ Read(k, r) = Absent /\ v # Absent => created' = created + 1
        /\ k = "clean" => Read(k, r) = db[r]
    BY <1>2, <1>3, WriteEffect, Zenon
  <1>5. c.op \notin {"update", "delete", "insert", "replace"}
    OBVIOUS
  <1>6. Budget' /\ created' \in Values /\ deleted' \in Values
    <2>1. /\ created \in Nat /\ deleted \in Nat /\ requests \in Nat /\ requests' \in Nat
          /\ requests <= requests' /\ requests' <= MaxRequests /\ MaxRequests \in Nat
          /\ created <= requests /\ deleted <= requests
      BY TenantAssumption, SMT DEF TenantInv, TypeOK, Bounded, Values, Budget
    <2>2. created' # created => requests' = requests + 1
      BY <1>4, SMT
    <2>3. deleted' = deleted \/ (deleted' = deleted + 1 /\ requests' = requests + 1)
      BY SMT
    <2> QED
      BY <1>4, <2>1, <2>2, <2>3, SMT DEF Budget, Values
  <1>7. TypeOK'
    <2>1. missed' \subseteq Values /\ reborn' \subseteq Values
      BY NotedTypes, Zenon DEF Write, TenantInv
    <2>2. granted' \subseteq Values
      BY <1>2 DEF TenantInv, TypeOK
    <2> QED
      BY <1>1, <1>4, <1>6, <2>1, <2>2 DEF TenantInv, TypeOK, Bounded
  <1>8. Isolated'
    <2>1. ~poisoned' => ~txn'
      BY Zenon DEF TenantInv, Isolated
    <2>2. ~txn' => view' = db'
      <3>1. CASE k = "clean"
        BY <1>4, <3>1
      <3>2. CASE k = "open"
        BY <3>2, Zenon
      <3> QED
        BY <3>1, <3>2 DEF Conns
    <2>3. ASSUME NEW u \in Threads, call'[u].op \in {"update", "delete"}, call'[u].conn = "open"
          PROVE  txn'
      <3>1. u # t
        BY <1>1, <1>5, <2>3
      <3> QED
        BY <1>1, <2>3, <3>1, Zenon DEF TenantInv, Isolated
    <2> QED
      BY <2>1, <2>2, <2>3, Zenon DEF Isolated
  <1>9. Numbered'
    <2>1. refused' = refused /\ \A q \in Rows : db'[q] \in {db[q], Absent, n}
      BY <1>4
    <2> QED
      BY <1>5, <2>1, NumberedKept, Zenon
  <1>10. Replacing'
    <2>1. ASSUME NEW u \in Threads, call'[u].op = "replace"
          PROVE  call'[u].overwrite = TRUE /\ (~txn' => db'["document"] # Absent)
      <3>1. call'[u] = call[u]
        BY <1>1, <1>5, <2>1
      <3>2. call[u].overwrite = TRUE /\ (~txn => db["document"] # Absent)
        BY <2>1, <3>1 DEF TenantInv, Replacing
      <3>3. db'["document"] = db["document"] \/ db'["document"] = n
        BY <1>4 DEF Rows
      <3>4. n # Absent
        BY <1>2, SMT DEF Absent
      <3> QED
        BY <3>1, <3>2, <3>3, <3>4
    <2> QED
      BY <2>1, Zenon DEF Replacing
  <1>11. ~poisoned' => Counted' /\ Known' /\ Honest'
    <2> SUFFICES ASSUME ~poisoned PROVE Counted' /\ Known' /\ Honest'
      OBVIOUS
    <2>1. Counted /\ Known /\ Honest
      BY Zenon DEF TenantInv
    <2>2. k = "clean"
      BY Zenon DEF TenantInv, Isolated, Conns
    <2>3. applied' = applied \cup {n} /\ Note /\ reborn \subseteq reborn'
      BY <1>4, <2>2 DEF Write, Note
    <2>4. Counted'
      <3>1. /\ created \in Nat /\ deleted \in Nat /\ "source" \in Rows
            /\ db'["source"] = IF r = "source" THEN v ELSE db["source"]
        BY <1>4, <2>2, SMT DEF TenantInv, TypeOK, Values, Rows
      <3>2. CASE r # "source"
        <4>1. created' = created /\ deleted' = deleted /\ db'["source"] = db["source"]
          BY <1>4, <3>1, <3>2
        <4> QED
          BY <2>1, <4>1 DEF Counted
      <3>3. CASE r = "source" /\ v = Absent
        <4>1. created' = created /\ deleted' = deleted + 1 /\ db["source"] # Absent /\ db'["source"] = Absent
          BY <1>2, <1>4, <2>2, <3>1, <3>3, SMT DEF Absent
        <4> QED
          BY <2>1, <3>1, <4>1 DEF Counted
      <3>4. CASE r = "source" /\ v # Absent
        <4>1. /\ created' = IF db["source"] = Absent THEN created + 1 ELSE created
              /\ deleted' = deleted /\ db'["source"] # Absent
          BY <1>4, <2>2, <3>1, <3>4
        <4> QED
          BY <2>1, <3>1, <4>1 DEF Counted
      <3> QED
        BY <3>2, <3>3, <3>4
    <2>5. Known'
      <3> SUFFICES ASSUME NEW u \in Threads PROVE Knows(u)'
        BY Zenon DEF Known
      <3>1. CASE u = t
        <4>1. call'[u] = c /\ (c.op = "fetch" => c.n \in applied') /\ c.op # "update"
          BY <1>1, <1>5, <2>3, <3>1
        <4> QED
          BY <4>1 DEF Knows
      <3>2. CASE u # t
        BY <1>1, <2>1, <2>3, <3>2, Noted DEF Known
      <3> QED
        BY <3>1, <3>2
    <2>6. Honest'
      BY <2>1, <2>3 DEF Honest
    <2> QED
      BY <2>4, <2>5, <2>6
  <1> QED
    BY <1>6, <1>7, <1>8, <1>9, <1>10, <1>11, Zenon DEF TenantInv

\* A row is stored, ...
LEMMA StoresStep ==
    ASSUME TenantInv, NEW t \in Threads, NEW k \in Conns, NEW r \in Rows, NEW n,
           Own(t, n), Bounded, k = "open" => txn, k = "clean" => ~txn,
           UNCHANGED <<txn, poisoned, refused>>, Stores(t, k, r, n)
    PROVE  TenantInv'
  <1>1. n \in Values
    BY Fresh
  <1> DEFINE c == [op |-> "fetch", n |-> n, row |-> r]
  <1>2. c \in Call
    BY <1>1, Records
  <1>3. /\ Write(k, r, n, n) /\ call' = [call EXCEPT ![t] = c]
        /\ c.op = "fetch" /\ c.n = n /\ UNCHANGED <<deleted, granted>>
        /\ Read(k, r) = Absent /\ r = "source" => requests' = requests + 1
    BY DEF Stores, FetchRow, Goto
  <1> HIDE DEF c
  <1> QED
    BY <1>2, <1>3, WrittenStep, Zenon

\* ... or deleted.
LEMMA RemovesStep ==
    ASSUME TenantInv, NEW t \in Threads, NEW k \in Conns, NEW r \in Rows, NEW n,
           Own(t, n), Bounded, k = "open" => txn, k = "clean" => ~txn,
           UNCHANGED <<txn, poisoned, refused>>, Removes(t, k, r, n)
    PROVE  TenantInv'
  <1>1. Idle \in Call /\ Idle.op = "idle"
    BY Records DEF Idle
  <1> QED
    BY <1>1, WrittenStep, Zenon DEF Removes, Goto

-----------------------------------------------------------------------------
(* The actions                                                             *)

\* The tables are empty at first.
LEMMA TenantInit == Init => TenantInv
  <1> SUFFICES ASSUME Init PROVE TenantInv
    OBVIOUS
  <1>1. call = [t \in Threads |-> Idle] /\ Idle \in Call /\ Idle.op = "idle"
    BY Records DEF Init, Idle
  <1>2. 0 \in Values /\ 0 \in 0..MaxFaults /\ 0 \in 0..MaxRestarts
    BY TenantAssumption, SMT DEF Values
  <1>3. TypeOK
    BY <1>1, <1>2 DEF Init, TypeOK, Absent
  <1>4. Isolated /\ Replacing
    BY <1>1 DEF Init, Isolated, Replacing
  <1>5. Numbered
    <2>1. \A t \in Threads : ~Pending(t)
      BY <1>1 DEF Pending
    <2> QED
      BY <2>1, SMT DEF Init, Numbered, Absent, Rows
  <1>6. Budget
    BY SMT DEF Init, Budget
  <1>7. Counted /\ Known /\ Honest
    BY <1>1, SMT DEF Init, Counted, Known, Knows, Honest, Absent, Rows
  <1> QED
    BY <1>3, <1>4, <1>5, <1>6, <1>7 DEF TenantInv

\* A request that begins has the next number.
LEMMA RequestBegins ==
    ASSUME TenantInv, NEW t \in Threads, Request(t)
    PROVE  /\ Own(t, requests') /\ requests' = requests + 1
           /\ requests' \in Values /\ requests <= requests'
  BY TenantAssumption, SMT DEF TenantInv, TypeOK, Request, Own, Values

\* A failing statement stays in its bound.
LEMMA FaultBounded ==
    ASSUME TenantInv, Fault \/ UNCHANGED faults
    PROVE  faults' \in 0..MaxFaults
  BY TenantAssumption, SMT DEF TenantInv, TypeOK, Fault

\* A table is made, or that fails.
LEMMA EnsureBounded ==
    ASSUME TenantInv, NEW r \in Rows, Ensure(r)
    PROVE  tables' \subseteq Rows /\ made' \subseteq Rows /\ faults' \in 0..MaxFaults
  <1>1. faults' \in 0..MaxFaults
    BY FaultBounded, Zenon DEF Ensure
  <1> QED
    BY <1>1 DEF Ensure, TenantInv, TypeOK

\* The steps of initialize_tenant, and the queries of documents.
LEMMA TableStep ==
    ASSUME TenantInv, NEW t \in Threads,
           \/ InitializeTenant(t) \/ EnsureUsersTable(t) \/ EnsureDataSourcesTable(t)
           \/ EnsureSchemaDocumentsTable(t) \/ SchemaDocuments(t)
    PROVE  TenantInv'
  <1>1. /\ granted \subseteq Values
        /\ ~poisoned => granted \subseteq applied \cup reborn
    BY Zenon DEF TenantInv, TypeOK, Honest
  <1>2. Idle.op = "idle" /\ Idle \in Call /\ \A op \in {"users", "sources", "documents"} :
           [op |-> op] \in Call /\ [op |-> op].op = op
    BY Records DEF Idle
  <1>3. requests \in Values /\ requests <= requests /\ restarts \in 0..MaxRestarts /\ faults \in 0..MaxFaults
        /\ tables \subseteq Rows /\ made \subseteq Rows
    BY SMT DEF TenantInv, TypeOK, Values
  <1>4. \E c \in Call : /\ call' = [call EXCEPT ![t] = c]
                        /\ c.op \notin {"update", "delete", "insert", "replace"} /\ c.op # "fetch"
    <2>1. CASE InitializeTenant(t)
      BY <1>2, <2>1 DEF InitializeTenant, Goto
    <2>2. CASE EnsureUsersTable(t)
      BY <1>2, <2>2 DEF EnsureUsersTable, Goto
    <2>3. CASE EnsureDataSourcesTable(t)
      BY <1>2, <2>3 DEF EnsureDataSourcesTable, Goto
    <2>4. CASE EnsureSchemaDocumentsTable(t)
      BY <1>2, <2>4 DEF EnsureSchemaDocumentsTable, Goto
    <2>5. CASE SchemaDocuments(t)
      <3>1. call' = call /\ call[t] = Idle
        BY <2>5 DEF SchemaDocuments, Request
      <3>2. call' = [call EXCEPT ![t] = Idle]
        BY <3>1 DEF TenantInv, TypeOK
      <3> QED
        BY <1>2, <3>2
    <2> QED
      BY <2>1, <2>2, <2>3, <2>4, <2>5
  <1>5. Bounded
    <2>1. CASE InitializeTenant(t)
      BY <1>3, <2>1, RequestBegins DEF InitializeTenant, Bounded, data, bounds
    <2>2. CASE EnsureUsersTable(t)
      BY <1>3, <2>2, EnsureBounded DEF EnsureUsersTable, Bounded, Rows
    <2>3. CASE EnsureDataSourcesTable(t)
      BY <1>3, <2>3, EnsureBounded DEF EnsureDataSourcesTable, Bounded, Rows
    <2>4. CASE EnsureSchemaDocumentsTable(t)
      BY <1>3, <2>4, EnsureBounded DEF EnsureSchemaDocumentsTable, Bounded, Rows
    <2>5. CASE SchemaDocuments(t)
      BY <1>3, <2>5, RequestBegins, EnsureBounded DEF SchemaDocuments, Bounded, Rows
    <2> QED
      BY <2>1, <2>2, <2>3, <2>4, <2>5
  <1>6. Untouched /\ UNCHANGED <<refused, deleted>> /\ granted' = granted
    BY Zenon DEF InitializeTenant, EnsureUsersTable, EnsureDataSourcesTable, EnsureSchemaDocumentsTable,
                 SchemaDocuments, Untouched, data, history
  <1> QED
    BY <1>1, <1>4, <1>5, <1>6, QuietStep, Zenon

\* The row is read back.
LEMMA FetchStep ==
    ASSUME TenantInv, NEW t \in Threads, NEW k \in Conns, NEW r \in Rows, Fetched(t, k, r)
    PROVE  TenantInv'
  <1>1. call[t].op = "fetch" /\ call[t].row = r /\ (k = "open" => txn)
    BY DEF Fetched, Free
  <1>2. call[t].n \in Values
    BY <1>1, Fields DEF TenantInv, TypeOK
  <1>3. granted' = granted \/ (Read(k, r) # Absent /\ granted' = granted \cup {call[t].n})
    BY Zenon DEF Fetched
  <1>4. granted' \subseteq Values
    BY <1>2, <1>3 DEF TenantInv, TypeOK
  <1>5. ASSUME ~poisoned
        PROVE  granted' \subseteq applied \cup reborn
    <2>1. Known /\ Honest /\ k = "clean"
      BY <1>1, <1>5, Zenon DEF TenantInv, Isolated, Conns
    <2>2. Knows(t) /\ Read(k, r) = db[r]
      BY <2>1, SMT DEF Known, Read
    <2>3. Read(k, r) # Absent => call[t].n \in applied \cup reborn
      BY <1>1, <2>2 DEF Knows
    <2> QED
      BY <1>3, <2>1, <2>3 DEF Honest
  <1>6. Bounded
    <2>1. faults' \in 0..MaxFaults
      BY FaultBounded, Zenon DEF Fetched
    <2> QED
      BY <2>1, SMT DEF Fetched, data, Bounded, TenantInv, TypeOK, Values
  <1>7. call' = [call EXCEPT ![t] = Idle] /\ Idle \in Call /\ Idle.op = "idle"
    BY Records DEF Fetched, Goto, Idle
  <1>8. Untouched /\ UNCHANGED <<refused, deleted>>
    BY Zenon DEF Fetched, Untouched, data
  <1>9. Idle.op \notin {"update", "delete", "insert", "replace"} /\ Idle.op # "fetch"
    BY <1>7
  <1> QED
    BY <1>4, <1>5, <1>6, <1>7, <1>8, <1>9, QuietStep, Zenon

\* A request ends with an error.
LEMMA RefuseStep ==
    ASSUME TenantInv, NEW t \in Threads, NEW n, Own(t, n), Bounded, Untouched,
           UNCHANGED <<granted, deleted>>, Refuse(t, n)
    PROVE  TenantInv'
  <1>1. call' = [call EXCEPT ![t] = Idle] /\ refused' = refused \cup {n} /\ Idle \in Call /\ Idle.op = "idle"
    BY Records DEF Refuse, Goto, Idle
  <1>2. Idle.op \notin {"update", "delete"} /\ Idle.op # "replace"
    BY <1>1
  <1> QED
    BY <1>1, <1>2, UnwrittenStep, Zenon

\* An INSERT stores the row or ends the request with an error.
LEMMA InsertStep ==
    ASSUME TenantInv, NEW t \in Threads, NEW k \in Conns, NEW r \in Rows, NEW n,
           Own(t, n), Free(k), Insert(t, k, r, n),
           requests' \in Values, requests <= requests',
           r = "source" => requests' = requests + 1,
           UNCHANGED <<tables, txn, made, granted, deleted, poisoned, bounds>>
    PROVE  TenantInv'
  <1>1. Bounded
    BY DEF Bounded, bounds, TenantInv, TypeOK
  <1>2. CASE CanWrite(k, r) /\ Read(k, r) = Absent
    <2>1. (k = "open" => txn) /\ (k = "clean" => ~txn)
      BY <1>2, Zenon DEF Free, CanWrite
    <2>2. Write(k, r, n, n) /\ FetchRow(t, n, r) /\ UNCHANGED refused
      BY <1>2, Zenon DEF Insert
    <2>3. Stores(t, k, r, n)
      BY <2>2, Zenon DEF Stores
    <2> QED
      BY <1>1, <2>1, <2>2, <2>3, StoresStep, Zenon
  <1>3. CASE ~(CanWrite(k, r) /\ Read(k, r) = Absent)
    <2>1. Refuse(t, n) /\ Untouched
      BY <1>3, Zenon DEF Insert, NoWrite, Untouched
    <2> QED
      BY <1>1, <2>1, RefuseStep, Zenon
  <1> QED
    BY <1>2, <1>3

\* A user or data source is created.
LEMMA CreateStep ==
    ASSUME TenantInv, NEW t \in Threads, CreateUser(t) \/ CreateDataSource(t)
    PROVE  TenantInv'
  <1>1. Request(t) /\ UNCHANGED <<tables, txn, made, granted, deleted, poisoned, bounds>>
    BY Zenon DEF CreateUser, CreateDataSource
  <1>2. PICK k \in Conns : Free(k) /\ (Insert(t, k, "user", requests') \/ Insert(t, k, "source", requests'))
    BY Zenon DEF CreateUser, CreateDataSource, create_user, create_data_source
  <1>3. "user" \in Rows /\ "source" \in Rows /\ "user" # "source"
    BY DEF Rows
  <1>4. Own(t, requests') /\ requests' = requests + 1 /\ requests' \in Values /\ requests <= requests'
    BY <1>1, RequestBegins
  <1>5. CASE Insert(t, k, "user", requests')
    BY <1>1, <1>2, <1>3, <1>4, <1>5, InsertStep, Zenon
  <1>6. CASE Insert(t, k, "source", requests')
    BY <1>1, <1>2, <1>3, <1>4, <1>6, InsertStep, Zenon
  <1> QED
    BY <1>2, <1>5, <1>6

\* A schema document is stored where there was none.
LEMMA UploadInsertStep ==
    ASSUME TenantInv, NEW t \in Threads, UploadInsert(t)
    PROVE  TenantInv'
  <1>1. PICK k \in Conns : Free(k) /\ Insert(t, k, "document", call[t].n)
    BY Zenon DEF UploadInsert, insert_schema_document
  <1>2. Own(t, call[t].n) /\ call[t].op = "insert" /\ requests' = requests
    BY DEF UploadInsert, Own, Pending
  <1>3. requests' \in Values /\ requests <= requests' /\ "document" \in Rows /\ "document" # "source"
    BY <1>2, SMT DEF TenantInv, TypeOK, Values, Rows
  <1>4. UNCHANGED <<tables, txn, made, granted, deleted, poisoned, bounds>>
    BY Zenon DEF UploadInsert
  <1> QED
    BY <1>1, <1>2, <1>3, <1>4, InsertStep, Zenon

\* updateUser and deleteUser look for the user.
LEMMA CheckStep ==
    ASSUME TenantInv, NEW t \in Threads, UpdateUser(t) \/ DeleteUser(t)
    PROVE  TenantInv'
  <1>1. /\ Request(t)
        /\ UNCHANGED <<data, applied, granted, missed, reborn, created, deleted, poisoned, bounds>>
        /\ \E k \in Conns, op \in {"update", "delete"} : Checked(t, k, op)
    BY Zenon DEF UpdateUser, DeleteUser
  <1>2. PICK k \in Conns, op \in {"update", "delete"} : Checked(t, k, op)
    BY <1>1
  <1>3. Own(t, requests') /\ requests' = requests + 1 /\ requests' \in Values /\ requests <= requests'
    BY <1>1, RequestBegins
  <1>4. Bounded
    BY <1>1, <1>3 DEF Bounded, bounds, data, TenantInv, TypeOK
  <1>5. Untouched /\ UNCHANGED <<granted, deleted>>
    BY <1>1, Zenon DEF Untouched, data
  <1>6. CASE "user" \in Tables(k) /\ Read(k, "user") # Absent
    <2> DEFINE c == [op |-> op, n |-> requests', conn |-> k]
    <2>2. c \in Call
      BY <1>3, Records
    <2>3. c.op = op /\ c.n = requests' /\ c.conn = k
      OBVIOUS
    <2>4. call' = [call EXCEPT ![t] = c] /\ refused' = refused
      BY <1>2, <1>6, Zenon DEF Checked, Goto
    <2> HIDE DEF c
    <2>5. c.op \in {"update", "delete", "insert", "replace"} /\ c.op # "replace"
      BY <2>3
    <2>6. c.conn = "open" => txn
      BY <1>2, <2>3, Zenon DEF Checked, Free
    <2>7. ~poisoned => db["user"] # Absent
      <3> SUFFICES ASSUME ~poisoned PROVE db["user"] # Absent
        OBVIOUS
      <3>1. k # "open"
        BY <2>3, <2>6, Zenon DEF TenantInv, Isolated
      <3> QED
        BY <1>6, <3>1 DEF Read
    <2> QED
      BY <1>3, <1>4, <1>5, <2>2, <2>3, <2>4, <2>5, <2>6, <2>7, UnwrittenStep, Zenon
  <1>7. CASE ~("user" \in Tables(k) /\ Read(k, "user") # Absent)
    <2>1. Refuse(t, requests')
      BY <1>2, <1>7, Zenon DEF Checked
    <2> QED
      BY <1>3, <1>4, <1>5, <2>1, RefuseStep, Zenon
  <1> QED
    BY <1>6, <1>7

\* A second statement is on the connection of the first.
LEMMA HeldConnection ==
    ASSUME TenantInv, NEW t \in Threads, call[t].op \in {"update", "delete"}
    PROVE  /\ call[t].conn \in Conns /\ (call[t].conn = "open" => txn)
           /\ call[t].n \in Values /\ Pending(t)
  <1>1. Pending(t)
    BY DEF Pending
  <1>2. call[t].conn = "open" => txn
    BY Zenon DEF TenantInv, Isolated
  <1> QED
    BY <1>1, <1>2, Fields DEF TenantInv, TypeOK

\* updateUser writes the row, or meets none.
LEMMA UpdateUserWriteStep ==
    ASSUME TenantInv, NEW t \in Threads, UpdateUserWrite(t)
    PROVE  TenantInv'
  <1>1. /\ call[t].op = "update" /\ requests' = requests /\ "user" \in Rows /\ "user" # "source"
        /\ UNCHANGED <<tables, txn, made, granted, deleted, poisoned, requests, bounds>>
    BY DEF UpdateUserWrite, Rows
  <1>2. PICK k : k = call[t].conn
    OBVIOUS
  <1>3. PICK n : n = call[t].n
    OBVIOUS
  <1>5. k \in Conns /\ (k = "open" => txn) /\ n \in Values /\ Pending(t)
    BY <1>1, <1>2, <1>3, HeldConnection
  <1>6. Own(t, n)
    BY <1>1, <1>3, <1>5, Zenon DEF Own
  <1>7. Bounded
    BY <1>1, SMT DEF Bounded, bounds, TenantInv, TypeOK, Values
  <1>8. IF CanWrite(k, "user")
        THEN /\ IF Read(k, "user") # Absent THEN Write(k, "user", n, n) ELSE NoWrite
             /\ FetchRow(t, n, "user")
             /\ UNCHANGED refused
        ELSE Refuse(t, n) /\ NoWrite
    BY <1>2, <1>3, Zenon DEF UpdateUserWrite
  <1>9. CASE ~CanWrite(k, "user")
    BY <1>1, <1>6, <1>7, <1>8, <1>9, RefuseStep, Zenon DEF NoWrite, Untouched
  <1>10. CASE CanWrite(k, "user") /\ Read(k, "user") # Absent
    <2>1. (k = "clean" => ~txn) /\ Write(k, "user", n, n) /\ UNCHANGED refused
      BY <1>8, <1>10, Zenon DEF CanWrite
    <2>2. FetchRow(t, n, "user")
      BY <1>8, <1>10
    <2>3. Stores(t, k, "user", n)
      BY <1>1, <1>10, <2>1, <2>2, Zenon DEF Stores
    <2> QED
      BY <1>1, <1>5, <1>6, <1>7, <2>1, <2>3, StoresStep, Zenon
  <1>11. CASE CanWrite(k, "user") /\ Read(k, "user") = Absent
    <2> DEFINE c == [op |-> "fetch", n |-> n, row |-> "user"]
    <2>1. Untouched /\ UNCHANGED <<refused, deleted>> /\ granted' = granted
      BY <1>1, <1>8, <1>11, Zenon DEF NoWrite, Untouched
    <2>2. call' = [call EXCEPT ![t] = c]
      BY <1>8, <1>11 DEF FetchRow, Goto
    <2>3. c \in Call
      BY <1>1, <1>5, Records
    <2>4. c.op = "fetch" /\ c.row = "user" /\ c.n = n
      OBVIOUS
    <2> HIDE DEF c
    <2>5. call'[t] = c
      BY <2>2, Moved, Zenon DEF TenantInv, TypeOK
    <2>6. ASSUME ~poisoned PROVE Knows(t)'
      <3>1. Known /\ k = "clean"
        BY <1>5, <2>6, Zenon DEF TenantInv, Isolated, Conns
      <3>2. db["user"] = Absent /\ n \in missed
        BY <1>1, <1>3, <1>11, <3>1, SMT DEF Known, Knows, Read
      <3>3. db' = db /\ missed' = missed
        BY <2>1 DEF Untouched
      <3> QED
        BY <2>4, <2>5, <3>2, <3>3, SMT DEF Knows
    <2>7. /\ granted' \subseteq Values
          /\ ~poisoned => granted' \subseteq applied \cup reborn
      BY <2>1, Zenon DEF TenantInv, TypeOK, Honest
    <2>8. c.op \notin {"update", "delete", "insert", "replace"}
      BY <2>4
    <2> QED
      BY <1>7, <2>1, <2>2, <2>3, <2>6, <2>7, <2>8, QuietStep, Zenon
  <1> QED
    BY <1>9, <1>10, <1>11

\* deleteUser deletes the row, or meets none.
LEMMA DeleteUserWriteStep ==
    ASSUME TenantInv, NEW t \in Threads, DeleteUserWrite(t)
    PROVE  TenantInv'
  <1>1. /\ call[t].op = "delete" /\ requests' = requests /\ "user" \in Rows
        /\ UNCHANGED <<tables, txn, made, deleted, poisoned, requests, bounds>>
    BY DEF DeleteUserWrite, Rows
  <1>2. PICK k : k = call[t].conn
    OBVIOUS
  <1>3. PICK n : n = call[t].n
    OBVIOUS
  <1>4. k \in Conns /\ (k = "open" => txn) /\ n \in Values /\ Pending(t)
    BY <1>1, <1>2, <1>3, HeldConnection
  <1>5. Own(t, n)
    BY <1>1, <1>3, <1>4, Zenon DEF Own
  <1>6. Bounded
    BY <1>1, SMT DEF Bounded, bounds, TenantInv, TypeOK, Values
  <1>7. IF CanWrite(k, "user")
        THEN /\ Write(k, "user", Absent, n)
             /\ granted' = granted \cup {n}
             /\ Goto(t, Idle) /\ UNCHANGED refused
        ELSE Refuse(t, n) /\ NoWrite /\ UNCHANGED granted
    BY <1>2, <1>3, Zenon DEF DeleteUserWrite
  <1>8. CASE ~CanWrite(k, "user")
    BY <1>1, <1>5, <1>6, <1>7, <1>8, RefuseStep, Zenon DEF NoWrite, Untouched
  <1>9. CASE CanWrite(k, "user")
    <2>1. (k = "clean" => ~txn) /\ UNCHANGED refused
      BY <1>7, <1>9, Zenon DEF CanWrite
    <2>2. Removes(t, k, "user", n)
      BY <1>1, <1>7, <1>9, Zenon DEF Removes
    <2> QED
      BY <1>1, <1>4, <1>5, <1>6, <2>1, <2>2, RemovesStep, Zenon
  <1> QED
    BY <1>8, <1>9

\* updateDataSource and deleteDataSource are one statement each.
LEMMA DataSourceStep ==
    ASSUME TenantInv, NEW t \in Threads, UpdateDataSource(t) \/ DeleteDataSource(t)
    PROVE  TenantInv'
  <1>1. Request(t) /\ UNCHANGED <<tables, txn, made, poisoned, bounds>>
    BY Zenon DEF UpdateDataSource, DeleteDataSource
  <1>2. PICK n : n = requests'
    OBVIOUS
  <1>3. Own(t, n) /\ requests' = requests + 1 /\ requests' \in Values /\ requests <= requests'
    BY <1>1, <1>2, RequestBegins
  <1>4. Bounded
    BY <1>1, <1>3 DEF Bounded, bounds, TenantInv, TypeOK
  <1>5. "source" \in Rows
    BY DEF Rows
  <1>6. CASE UpdateDataSource(t)
    <2>1. PICK k \in Conns : Free(k) /\ update_data_source(t, k, n)
      BY <1>2, <1>6, Zenon DEF UpdateDataSource
    <2>2. UNCHANGED <<granted, deleted>>
      BY <1>6, Zenon DEF UpdateDataSource
    <2>3. CASE CanWrite(k, "source") /\ Read(k, "source") # Absent
      <3>1. (k = "open" => txn) /\ (k = "clean" => ~txn) /\ UNCHANGED refused
        BY <2>1, <2>3, Zenon DEF Free, CanWrite, update_data_source
      <3>2. Stores(t, k, "source", n)
        BY <1>3, <1>5, <2>1, <2>2, <2>3, Zenon DEF update_data_source, Stores
      <3> QED
        BY <1>1, <1>3, <1>4, <1>5, <3>1, <3>2, StoresStep, Zenon
    <2>4. CASE ~(CanWrite(k, "source") /\ Read(k, "source") # Absent)
      <3>1. Refuse(t, n) /\ Untouched
        BY <1>1, <2>1, <2>4, Zenon DEF update_data_source, NoWrite, Untouched
      <3> QED
        BY <1>1, <1>3, <1>4, <2>2, <3>1, RefuseStep, Zenon
    <2> QED
      BY <2>3, <2>4
  <1>7. CASE DeleteDataSource(t)
    <2>1. PICK k \in Conns : Free(k) /\ delete_data_source(t, k, n)
      BY <1>2, <1>7, Zenon DEF DeleteDataSource
    <2>2. CASE CanWrite(k, "source") /\ Read(k, "source") # Absent
      <3>1. (k = "open" => txn) /\ (k = "clean" => ~txn) /\ UNCHANGED refused
        BY <2>1, <2>2, Zenon DEF Free, CanWrite, delete_data_source
      <3>2. Removes(t, k, "source", n)
        BY <1>3, <2>1, <2>2, Zenon DEF delete_data_source, Removes
      <3> QED
        BY <1>1, <1>3, <1>4, <1>5, <3>1, <3>2, RemovesStep, Zenon
    <2>3. CASE ~(CanWrite(k, "source") /\ Read(k, "source") # Absent)
      <3>1. Refuse(t, n) /\ Untouched /\ UNCHANGED <<granted, deleted>>
        BY <1>1, <2>1, <2>3, Zenon DEF delete_data_source, NoWrite, Untouched
      <3> QED
        BY <1>1, <1>3, <1>4, <3>1, RefuseStep, Zenon
    <2> QED
      BY <2>2, <2>3
  <1> QED
    BY <1>6, <1>7

\* uploadSchemaDocument looks for the document.
LEMMA UploadStep ==
    ASSUME TenantInv, NEW t \in Threads, NEW overwrite \in BOOLEAN, Upload(t, overwrite)
    PROVE  TenantInv'
  <1>1. /\ Request(t) /\ Ensure("document") /\ "document" \in Rows
        /\ UNCHANGED <<db, txn, view, applied, granted, missed, reborn, created, deleted, poisoned, restarts>>
    BY DEF Upload, Rows
  <1>2. Own(t, requests') /\ requests' = requests + 1 /\ requests' \in Values /\ requests <= requests'
    BY <1>1, RequestBegins
  <1>3. Bounded
    <2>1. tables' \subseteq Rows /\ made' \subseteq Rows /\ faults' \in 0..MaxFaults
      BY <1>1, EnsureBounded
    <2> QED
      BY <1>1, <1>2, <2>1 DEF Bounded, TenantInv, TypeOK
  <1>4. Untouched /\ UNCHANGED <<granted, deleted>>
    BY <1>1, Zenon DEF Untouched
  <1>5. PICK k \in Conns :
           /\ Free(k)
           /\ LET exists == "document" \in Tables(k)' /\ Read(k, "document") # Absent
              IN  IF exists /\ ~overwrite
                  THEN Refuse(t, requests')
                  ELSE /\ Goto(t, [op |-> IF exists THEN "replace" ELSE "insert",
                                   n |-> requests', overwrite |-> overwrite])
                       /\ UNCHANGED refused
    BY DEF Upload
  <1> DEFINE exists == "document" \in Tables(k)' /\ Read(k, "document") # Absent
  <1>6. CASE exists /\ ~overwrite
    BY <1>2, <1>3, <1>4, <1>5, <1>6, RefuseStep, Zenon
  <1>7. CASE exists /\ overwrite
    <2> DEFINE c == [op |-> "replace", n |-> requests', overwrite |-> TRUE]
    <2>1. c \in Call
      BY <1>2, Records
    <2>2. call' = [call EXCEPT ![t] = c] /\ refused' = refused
      BY <1>5, <1>7 DEF Goto
    <2>3. c.op = "replace" /\ c.n = requests' /\ c.overwrite = TRUE
      OBVIOUS
    <2> HIDE DEF c
    <2>4. c.op \in {"update", "delete", "insert", "replace"} /\ c.op \notin {"update", "delete"}
      BY <2>3
    <2>5. ~txn => db["document"] # Absent
      <3> SUFFICES ASSUME ~txn PROVE db["document"] # Absent
        OBVIOUS
      <3>1. k # "open" /\ Read(k, "document") # Absent
        BY <1>5, <1>7, Zenon DEF Free
      <3> QED
        BY <3>1 DEF Read
    <2> QED
      BY <1>2, <1>3, <1>4, <2>1, <2>2, <2>3, <2>4, <2>5, UnwrittenStep, Zenon
  <1>8. CASE ~exists
    <2> DEFINE c == [op |-> "insert", n |-> requests', overwrite |-> overwrite]
    <2>1. c \in Call
      BY <1>2, Records
    <2>2. call' = [call EXCEPT ![t] = c] /\ refused' = refused
      BY <1>5, <1>8 DEF Goto
    <2>3. c.op = "insert" /\ c.n = requests'
      OBVIOUS
    <2> HIDE DEF c
    <2>4. c.op \in {"update", "delete", "insert", "replace"} /\ c.op \notin {"update", "delete"} /\ c.op # "replace"
      BY <2>3
    <2> QED
      BY <1>2, <1>3, <1>4, <2>1, <2>2, <2>3, <2>4, UnwrittenStep, Zenon
  <1> QED
    BY <1>6, <1>7, <1>8, Zenon

\* A schema document is replaced in a transaction, whose COMMIT may fail.
LEMMA UploadReplaceStep ==
    ASSUME TenantInv, NEW t \in Threads, UploadReplace(t)
    PROVE  TenantInv'
  <1>1. /\ call[t].op = "replace" /\ requests' = requests /\ "document" \in Rows /\ "document" # "source"
        /\ UNCHANGED <<tables, txn, made, granted, deleted, poisoned, requests, restarts>>
    BY DEF UploadReplace, Rows
  <1>2. PICK n : n = call[t].n
    OBVIOUS
  <1>3. Own(t, n)
    BY <1>1, <1>2 DEF Own, Pending
  <1>4. faults' \in 0..MaxFaults
    BY FaultBounded, Zenon DEF UploadReplace
  <1>5. Bounded
    BY <1>1, <1>4, SMT DEF Bounded, TenantInv, TypeOK, Values
  <1>6. \/ /\ CanWrite("clean", "document") /\ Write("clean", "document", n, n)
           /\ FetchRow(t, n, "document") /\ UNCHANGED refused
        \/ Refuse(t, n) /\ NoWrite
    BY <1>2, Zenon DEF UploadReplace
  <1>7. CASE /\ CanWrite("clean", "document") /\ Write("clean", "document", n, n)
             /\ FetchRow(t, n, "document") /\ UNCHANGED refused
    <2>1. "clean" \in Conns /\ "clean" # "open" /\ ~txn
      BY <1>7, Zenon DEF Conns, CanWrite
    <2>2. Stores(t, "clean", "document", n)
      BY <1>1, <1>7, Zenon DEF Stores
    <2> QED
      BY <1>1, <1>3, <1>5, <1>7, <2>1, <2>2, StoresStep, Zenon
  <1>8. CASE Refuse(t, n) /\ NoWrite
    BY <1>1, <1>3, <1>5, <1>8, RefuseStep, Zenon DEF NoWrite, Untouched
  <1> QED
    BY <1>6, <1>7, <1>8, Zenon

\* COMMIT fails: the write stays in a transaction that is left open.
LEMMA CommitFailsStep ==
    ASSUME TenantInv, NEW t \in Threads, UploadCommitFails(t)
    PROVE  TenantInv'
  <1>1. /\ call[t].op = "replace" /\ "document" \in Rows /\ Idle \in Call /\ Idle.op = "idle"
        /\ txn' = TRUE /\ poisoned' = TRUE /\ view' = [view EXCEPT !["document"] = call[t].n]
        /\ call' = [call EXCEPT ![t] = Idle] /\ refused' = refused \cup {call[t].n}
        /\ UNCHANGED <<tables, made, db, applied, granted, missed, reborn, created, deleted, requests, restarts>>
    BY Records DEF UploadCommitFails, Refuse, Goto, Rows, Idle
  <1>2. PICK n : n = call[t].n
    OBVIOUS
  <1>3. Own(t, n)
    BY <1>1, <1>2 DEF Own, Pending
  <1>4. faults' \in 0..MaxFaults
    BY FaultBounded, Zenon DEF UploadCommitFails
  <1>5. Bounded
    BY <1>1, <1>4, SMT DEF Bounded, TenantInv, TypeOK, Values
  <1>6. n \in Values
    BY <1>3, <1>5, Fresh
  <1>7. /\ call' \in [Threads -> Call] /\ call'[t] = Idle
        /\ \A u \in Threads \ {t} : call'[u] = call[u]
    BY <1>1, Moved, Zenon DEF TenantInv, TypeOK
  <1>8. TypeOK'
    BY <1>1, <1>2, <1>5, <1>6, <1>7 DEF TenantInv, TypeOK, Bounded
  <1>9. Isolated'
    BY <1>1, Zenon DEF Isolated
  <1>10. Numbered'
    <2>1. refused' = refused \cup {n} /\ db' = db /\ Idle.op \notin {"update", "delete", "insert", "replace"}
      BY <1>1, <1>2
    <2> QED
      BY <1>1, <1>3, <1>5, <2>1, NumberedKept, Zenon
  <1>11. Budget'
    BY <1>1, Zenon DEF TenantInv, Budget
  <1>12. Replacing'
    <2>1. ASSUME NEW u \in Threads, call'[u].op = "replace" PROVE call'[u].overwrite = TRUE
      BY <1>1, <1>7, <2>1 DEF TenantInv, Replacing
    <2> QED
      BY <1>1, <2>1, Zenon DEF Replacing
  <1>13. ~poisoned' => Counted' /\ Known' /\ Honest'
    BY <1>1, Zenon
  <1> QED
    BY <1>8, <1>9, <1>10, <1>11, <1>12, <1>13, Zenon DEF TenantInv

\* The process dies and comes back.
LEMMA RestartStep ==
    ASSUME TenantInv, Restart
    PROVE  TenantInv'
  <1>1. /\ txn' = FALSE /\ view' = db /\ made' = {} /\ call' = [t \in Threads |-> Idle] /\ Idle \in Call /\ Idle.op = "idle"
        /\ UNCHANGED <<tables, db, applied, granted, refused, missed, reborn, created, deleted, poisoned, requests, faults>>
    BY Records DEF Restart, history, Idle
  <1>2. restarts' \in 0..MaxRestarts
    BY TenantAssumption, SMT DEF Restart, TenantInv, TypeOK
  <1>3. TypeOK'
    BY <1>1, <1>2 DEF TenantInv, TypeOK
  <1>4. Isolated' /\ Replacing'
    BY <1>1 DEF Isolated, Replacing
  <1>5. Numbered'
    <2>1. \A t \in Threads : ~Pending(t)'
      BY <1>1 DEF Pending
    <2> QED
      BY <1>1, <2>1, Zenon DEF TenantInv, Numbered
  <1>6. Budget'
    BY <1>1, Zenon DEF TenantInv, Budget
  <1>7. ~poisoned' => Counted' /\ Known' /\ Honest'
    <2> SUFFICES ASSUME ~poisoned PROVE Counted' /\ Known' /\ Honest'
      BY <1>1, Zenon
    <2>1. Counted' /\ Honest'
      BY <1>1, Zenon DEF TenantInv, Counted, Honest
    <2>2. Known'
      BY <1>1 DEF Known, Knows
    <2> QED
      BY <2>1, <2>2
  <1> QED
    BY <1>3, <1>4, <1>5, <1>6, <1>7, Zenon DEF TenantInv

\* Every step keeps the invariant.
LEMMA TenantNext == TenantInv /\ [Next]_vars => TenantInv'
  <1> SUFFICES ASSUME TenantInv, [Next]_vars PROVE TenantInv'
    OBVIOUS
  <1>1. ASSUME NEW t \in Threads, Begin(t) PROVE TenantInv'
    <2>1. CASE InitializeTenant(t) \/ SchemaDocuments(t)
      BY <2>1, TableStep, Zenon
    <2>2. CASE CreateUser(t) \/ CreateDataSource(t)
      BY <2>2, CreateStep, Zenon
    <2>3. CASE UpdateUser(t) \/ DeleteUser(t)
      BY <2>3, CheckStep, Zenon
    <2>4. CASE UpdateDataSource(t) \/ DeleteDataSource(t)
      BY <2>4, DataSourceStep, Zenon
    <2>5. CASE \E overwrite \in BOOLEAN : Upload(t, overwrite)
      BY <2>5, UploadStep, Zenon
    <2> QED
      BY <1>1, <2>1, <2>2, <2>3, <2>4, <2>5, Zenon DEF Begin
  <1>2. ASSUME NEW t \in Threads, Continue(t) PROVE TenantInv'
    <2>1. CASE EnsureUsersTable(t) \/ EnsureDataSourcesTable(t) \/ EnsureSchemaDocumentsTable(t)
      BY <2>1, TableStep, Zenon
    <2>2. CASE UpdateUserWrite(t)
      BY <2>2, UpdateUserWriteStep, Zenon
    <2>3. CASE DeleteUserWrite(t)
      BY <2>3, DeleteUserWriteStep, Zenon
    <2>4. CASE UploadInsert(t)
      BY <2>4, UploadInsertStep, Zenon
    <2>5. CASE UploadReplace(t)
      BY <2>5, UploadReplaceStep, Zenon
    <2>6. CASE UploadCommitFails(t)
      BY <2>6, CommitFailsStep, Zenon
    <2>7. CASE FetchUser(t) \/ FetchSource(t) \/ FetchDocument(t)
      <3>1. PICK k \in Conns, r \in Rows : Fetched(t, k, r)
        BY <2>7 DEF FetchUser, FetchSource, FetchDocument, Rows
      <3> QED
        BY <3>1, FetchStep, Zenon
    <2> QED
      BY <1>2, <2>1, <2>2, <2>3, <2>4, <2>5, <2>6, <2>7, Zenon DEF Continue
  <1>3. CASE Restart
    BY <1>3, RestartStep, Zenon
  <1>4. CASE UNCHANGED vars
    <2>1. UNCHANGED <<tables, db, txn, view, made, call, applied, granted, refused, missed, reborn, created, deleted,
                      poisoned, requests, faults, restarts>>
      BY <1>4, Zenon DEF vars, data, history, bounds
    <2>2. TypeOK' /\ Isolated' /\ Replacing' /\ Budget'
      BY <2>1, Zenon DEF TenantInv, TypeOK, Isolated, Replacing, Budget
    <2>3. Numbered'
      BY <2>1, Zenon DEF TenantInv, Numbered, Pending
    <2>4. ~poisoned' => Counted' /\ Known' /\ Honest'
      BY <2>1, Zenon DEF TenantInv, Counted, Known, Knows, Honest
    <2> QED
      BY <2>2, <2>3, <2>4, Zenon DEF TenantInv
  <1> QED
    BY <1>1, <1>2, <1>3, <1>4, Zenon DEF Next

-----------------------------------------------------------------------------
(* What is proved                                                          *)

\* The invariant of a tenant's tables holds in every state.
LEMMA TenantAlways == Spec => []TenantInv
  BY TenantInit, TenantNext, PTL DEF Spec

\* A request answered with success, a deletion too, has its write in the committed database,
\* or is an updateUser whose user was deleted between its statements and made again before
\* it was read back; and each data source was deleted by one of the requests that say so,
\* for any number of threads and requests.  After a COMMIT that failed neither is claimed.
THEOREM SuccessIsTrue == Spec => []SuccessInv
  <1>1. TenantInv => SuccessInv
    <2> SUFFICES ASSUME TenantInv PROVE SuccessInv
      OBVIOUS
    <2>1. TypeOK
      BY Zenon DEF TenantInv
    <2>2. SuccessIsCommitted
      BY Zenon DEF TenantInv, Honest, SuccessIsCommitted
    <2>3. DeletedOnce
      BY Zenon DEF TenantInv, Counted, DeletedOnce
    <2> QED
      BY <2>1, <2>2, <2>3 DEF SuccessInv
  <1> QED
    BY <1>1, TenantAlways, PTL

\* A request answered with an error has left nothing that anybody reads, but for the
\* transaction that a failed COMMIT of replace_schema_document leaves open.
THEOREM ErrorIsTrue == Spec => []ErrorLeavesNothing
  <1>1. TenantInv => ErrorLeavesNothing
    <2> SUFFICES ASSUME TenantInv, NEW r \in Rows
                 PROVE  db[r] \notin refused /\ (view[r] \in refused => txn)
      BY DEF ErrorLeavesNothing
    <2>1. db[r] \notin refused
      BY DEF TenantInv, Numbered
    <2>2. ~txn => view = db
      BY Zenon DEF TenantInv, Isolated
    <2> QED
      BY <2>1, <2>2, Zenon
  <1> QED
    BY <1>1, TenantAlways, PTL

\* Only a replace_schema_document changes a document that is there.
LEMMA DocumentKept ==
    ASSUME TenantInv, Next, db["document"] # Absent, db'["document"] # db["document"]
    PROVE  \E t \in Threads : /\ call[t].op = "replace" /\ call[t].overwrite
                              /\ call[t].n = db'["document"]
  <1>1. db' # db
    OBVIOUS
  <1>2. "document" \in Rows
    BY DEF Rows
  <1>3. ASSUME NEW k \in Conns, NEW r \in Rows, NEW v \in Values, NEW n \in Values,
               Free(k) \/ (k = "open" => txn), CanWrite(k, r), Write(k, r, v, n)
        PROVE  k = "clean" /\ r = "document" /\ db'["document"] = v /\ Read(k, r) = db[r]
    <2>1. (k = "open" => txn) /\ (k = "clean" => ~txn)
      BY <1>3, Zenon DEF Free, CanWrite
    <2>2. /\ \A q \in Rows : db'[q] = IF k = "clean" /\ q = r THEN v ELSE db[q]
          /\ k = "clean" => Read(k, r) = db[r]
      BY <1>3, <2>1, WriteEffect, Zenon
    <2> QED
      BY <1>2, <2>2
  <1>4. ASSUME NEW t \in Threads, NEW k \in Conns, NEW r \in Rows, NEW n \in Values,
               Free(k), Insert(t, k, r, n)
        PROVE  FALSE
    <2>1. CanWrite(k, r) /\ Read(k, r) = Absent /\ Write(k, r, n, n)
      BY <1>1, <1>4, Zenon DEF Insert, NoWrite
    <2> QED
      BY <1>3, <1>4, <2>1
  <1>5. ASSUME NEW t \in Threads, Begin(t) PROVE FALSE
    <2>1. CASE InitializeTenant(t) \/ SchemaDocuments(t) \/ UpdateUser(t) \/ DeleteUser(t)
      BY <1>1, <2>1, Zenon DEF InitializeTenant, SchemaDocuments, UpdateUser, DeleteUser, data
    <2>2. CASE \E overwrite \in BOOLEAN : Upload(t, overwrite)
      BY <1>1, <2>2, Zenon DEF Upload
    <2>3. CASE CreateUser(t) \/ CreateDataSource(t)
      <3>1. requests' \in Values
        BY <2>3, RequestBegins DEF CreateUser, CreateDataSource
      <3>2. PICK k \in Conns, r \in Rows : Free(k) /\ Insert(t, k, r, requests')
        BY <2>3 DEF CreateUser, CreateDataSource, create_user, create_data_source, Rows
      <3> QED
        BY <1>4, <3>1, <3>2, Zenon
    <2>4. CASE UpdateDataSource(t) \/ DeleteDataSource(t)
      <3>1. requests' \in Values /\ Absent \in Values
        BY <2>4, RequestBegins, TenantAssumption, SMT DEF UpdateDataSource, DeleteDataSource, Absent, Values
      <3>2. PICK k \in Conns : Free(k) /\ (update_data_source(t, k, requests') \/ delete_data_source(t, k, requests'))
        BY <2>4, Zenon DEF UpdateDataSource, DeleteDataSource
      <3>3. PICK v \in Values : CanWrite(k, "source") /\ Write(k, "source", v, requests')
        BY <1>1, <3>1, <3>2, Zenon DEF update_data_source, delete_data_source, NoWrite
      <3>4. "source" \in Rows /\ "source" # "document"
        BY DEF Rows
      <3> QED
        BY <1>3, <3>1, <3>2, <3>3, <3>4, Zenon
    <2> QED
      BY <1>5, <2>1, <2>2, <2>3, <2>4, Zenon DEF Begin
  <1>6. ASSUME NEW t \in Threads, Continue(t)
        PROVE  call[t].op = "replace" /\ call[t].overwrite /\ call[t].n = db'["document"]
    <2>1. CASE EnsureUsersTable(t) \/ EnsureDataSourcesTable(t) \/ EnsureSchemaDocumentsTable(t)
      BY <1>1, <2>1, Zenon DEF EnsureUsersTable, EnsureDataSourcesTable, EnsureSchemaDocumentsTable
    <2>2. CASE UpdateUserWrite(t) \/ DeleteUserWrite(t)
      <3>1. call[t].op \in {"update", "delete"}
        BY <2>2 DEF UpdateUserWrite, DeleteUserWrite
      <3>2. /\ call[t].conn \in Conns /\ (call[t].conn = "open" => txn) /\ call[t].n \in Values
            /\ Absent \in Values /\ "user" \in Rows /\ "user" # "document"
        BY <3>1, HeldConnection, TenantAssumption, SMT DEF Absent, Values, Rows
      <3>3. PICK v \in Values : CanWrite(call[t].conn, "user") /\ Write(call[t].conn, "user", v, call[t].n)
        BY <1>1, <2>2, <3>2, Zenon DEF UpdateUserWrite, DeleteUserWrite, NoWrite
      <3> QED
        BY <1>3, <3>2, <3>3, Zenon
    <2>3. CASE UploadInsert(t)
      <3>1. call[t].n \in Values
        BY <2>3, Fields DEF UploadInsert, Pending, TenantInv, TypeOK
      <3>2. PICK k \in Conns : Free(k) /\ Insert(t, k, "document", call[t].n)
        BY <2>3, Zenon DEF UploadInsert, insert_schema_document
      <3> QED
        BY <1>2, <1>4, <3>1, <3>2, Zenon
    <2>4. CASE UploadReplace(t)
      <3>1. call[t].op = "replace" /\ Pending(t)
        BY <2>4 DEF UploadReplace, Pending
      <3>2. call[t].n \in Values /\ call[t].overwrite = TRUE
        BY <3>1, Fields DEF TenantInv, TypeOK, Replacing
      <3>3. /\ "clean" \in Conns /\ Free("clean") /\ CanWrite("clean", "document")
            /\ Write("clean", "document", call[t].n, call[t].n)
        BY <1>1, <2>4, Zenon DEF UploadReplace, NoWrite, Conns, Free
      <3>4. db'["document"] = call[t].n
        BY <1>2, <1>3, <3>2, <3>3, Zenon
      <3> QED
        BY <3>1, <3>2, <3>4
    <2>5. CASE UploadCommitFails(t)
      BY <1>1, <2>5, Zenon DEF UploadCommitFails
    <2>6. CASE FetchUser(t) \/ FetchSource(t) \/ FetchDocument(t)
      BY <1>1, <2>6, Zenon DEF FetchUser, FetchSource, FetchDocument, Fetched, data
    <2> QED
      BY <1>6, <2>1, <2>2, <2>3, <2>4, <2>5, <2>6, Zenon DEF Continue
  <1>7. CASE Restart
    BY <1>1, <1>7, Zenon DEF Restart
  <1> QED
    BY <1>5, <1>6, <1>7, Zenon DEF Next

\* uploadSchemaDocument never replaces a document unless it was asked to overwrite,
\* whatever uploads overlap.
THEOREM NoOverwriteUnasked == Spec => NoSilentOverwrite
  <1>1. TenantInv /\ [Next]_vars =>
          [(db["document"] # Absent /\ db'["document"] # db["document"])
           => \E t \in Threads : call[t].op = "replace" /\ call[t].overwrite
                                   /\ call[t].n = db'["document"]]_vars
    BY DocumentKept, Zenon
  <1> QED
    BY <1>1, TenantAlways, PTL DEF Spec, NoSilentOverwrite
=============================================================================
