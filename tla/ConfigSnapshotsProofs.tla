------------------------ MODULE ConfigSnapshotsProofs ------------------------
(***************************************************************************)
(* Proofs about ConfigSnapshots: whatever fails and however requests       *)
(* overlap, a tenant has at most one active snapshot, keeps the one it has *)
(* on disk, and an error answer hides a change in three known ways only;   *)
(* while nothing disturbs it, what is loaded is what is active and a       *)
(* rollback restores the row before.                                       *)
(***************************************************************************)
EXTENDS ConfigSnapshots, FiniteSetTheorems, SequenceTheorems, WellFoundedInduction, TLAPS

\* The tables hold rows, and the connection sees the committed ones unless a
\* transaction was left open.
Tables ==
    /\ snaps \in Seq(Row) /\ durable \in Seq(Row)
    /\ now \in 0..MaxTime
    /\ txn \in BOOLEAN
    /\ ~txn => durable = snaps

\* A request in progress: what it will save is a row, what it will activate exists.
SaveTyped(c) ==
    c.tenant \in Tenants /\ c.version \in Versions /\ c.content \in Content

Requests ==
    /\ call = [t \in Threads |-> call[t]]
    /\ \A t \in Threads :
         /\ "op" \in DOMAIN call[t]
         /\ call[t].op = "save" => SaveTyped(call[t])
         /\ call[t].op \in {"activate", "queue", "bind"} =>
               "id" \in DOMAIN call[t] /\ call[t].id \in 1..Len(snaps)

\* What an error answer hides is explained: the transaction is open, or its row's binding
\* could not be registered.
Explained(t) ==
    call[t].op = "drain" /\ call[t].hides # 0 =>
       \/ txn
       \/ /\ call[t].hides \in 1..Len(snaps)
          /\ \/ snaps[call[t].hides].content = "mistyped"
             \/ snaps[call[t].hides].content = "bound" /\ bound # 0

\* At most one row of a tenant is active in s.
Single(s) ==
    \A i, j \in 1..Len(s) :
       s[i].active /\ s[j].active /\ s[i].tenant = s[j].tenant => i = j

CInv == Tables /\ Requests /\ Single(snaps) /\ Single(durable) /\ \A t \in Threads : Explained(t)

-----------------------------------------------------------------------------
(* The operators                                                           *)

Less == {p \in Nat \X Nat : p[1] < p[2]}

\* The bounds are numbers and the threads are finite.
LEMMA Numbers ==
    /\ IsFiniteSet(Threads) /\ MaxAdded \in Nat /\ MaxAdded <= MaxSnapshots
    /\ MaxSnapshots \in Nat /\ MaxTime \in Nat /\ MaxFaults \in Nat /\ MaxRestarts \in Nat
  BY ConfigAssumption

\* A nonempty set of natural numbers has a least element, which Min picks.
LEMMA MinIsMember ==
    ASSUME NEW S, S \subseteq Nat, S # {}
    PROVE  Min(S) \in S
<1>1. IsWellFoundedOn(Less, Nat)
  BY NatLessThanWellFounded, Zenon DEF OpToRel, Less
<1>2. \E x \in S : \A y \in S : <<y, x>> \notin Less
  BY <1>1, WFMin, Zenon
<1>3. \A x, y \in Nat : <<y, x>> \notin Less => x =< y
  BY DEF Less
<1>4. \E x \in S : \A y \in S : x =< y
  BY <1>2, <1>3
<1>. QED
  BY <1>4 DEF Min

\* activate_config_snapshot on rows of one table.
LEMMA ActivatedRows ==
    ASSUME NEW s \in Seq(Row), NEW id \in 1..Len(s), Single(s)
    PROVE  /\ Activated(s, id) \in Seq(Row)
           /\ Len(Activated(s, id)) = Len(s)
           /\ Single(Activated(s, id))
           /\ \A i \in 1..Len(s) : Activated(s, id)[i].content = s[i].content
           /\ \A tn \in Tenants :
                ActiveRows(s, tn) # {} => ActiveRows(Activated(s, id), tn) # {}
<1> DEFINE a == Activated(s, id)
<1>1. \A i \in 1..Len(s) : s[i] \in Row
  OBVIOUS
<1>2. \A i \in 1..Len(s) :
        a[i] = IF i = id THEN [s[i] EXCEPT !.active = TRUE]
               ELSE IF s[i].tenant = s[id].tenant THEN [s[i] EXCEPT !.active = FALSE]
               ELSE s[i]
  BY DEF Activated
<1>3. \A i \in 1..Len(s) :
        /\ a[i] \in Row
        /\ a[i].tenant = s[i].tenant
        /\ a[i].content = s[i].content
        /\ a[i].active = (i = id \/ (s[i].tenant # s[id].tenant /\ s[i].active))
  BY <1>1, <1>2 DEF Row
<1>4. a \in Seq(Row) /\ Len(a) = Len(s)
  <2>1. a = [i \in 1..Len(s) |-> a[i]]
    BY DEF Activated
  <2>2. a \in [1..Len(s) -> Row]
    BY <2>1, <1>3
  <2>. QED
    BY <2>2
<1>5. Single(a)
  <2>1. \A i \in 1..Len(s) :
          /\ a[i].tenant = s[i].tenant
          /\ a[i].active => i = id \/ (s[i].tenant # s[id].tenant /\ s[i].active)
    BY <1>3
  <2> HIDE DEF a
  <2>. QED
    BY <1>4, <2>1 DEF Single
<1>6. ASSUME NEW tn \in Tenants, ActiveRows(s, tn) # {}
      PROVE  ActiveRows(a, tn) # {}
  <2>1. PICK i \in 1..Len(s) : s[i].tenant = tn /\ s[i].active
    BY <1>6 DEF ActiveRows, Rows
  <2>2. CASE tn = s[id].tenant
    BY <2>2, <1>3, <1>4 DEF ActiveRows, Rows
  <2>3. CASE tn # s[id].tenant
    BY <2>1, <2>3, <1>3, <1>4 DEF ActiveRows, Rows
  <2>. QED
    BY <2>2, <2>3
<1>. QED
  BY <1>3, <1>4, <1>5, <1>6

\* The row a rollback picks from the first n rows of a listing, n at least two, is a
\* row of the tenant: one of the two is inactive.
LEMMA TargetExists ==
    ASSUME snaps \in Seq(Row), Single(snaps),
           NEW tn \in Tenants, NEW q \in Listings(tn), NEW n \in Nat,
           2 <= n, n = Len(q) \/ n < Len(q)
    PROVE  /\ RollbackTarget(SubSeq(q, 1, n)) \in 1..Len(snaps)
           /\ snaps[RollbackTarget(SubSeq(q, 1, n))].tenant = tn
<1> DEFINE p == SubSeq(q, 1, n)
           inactive == {i \in 1..Len(p) : ~snaps[p[i]].active}
           after == {i \in inactive : \E j \in 1..(i - 1) : snaps[p[j]].active}
           pick == IF after # {} THEN after ELSE inactive
<1>1. Rows(snaps, tn) \subseteq 1..Len(snaps) /\ IsFiniteSet(Rows(snaps, tn))
  <2>1. Len(snaps) \in Nat /\ Rows(snaps, tn) \subseteq 1..Len(snaps)
    BY DEF Rows
  <2>2. IsFiniteSet(1..Len(snaps))
    BY <2>1, FS_Interval
  <2>. QED
    BY <2>1, <2>2, FS_Subset
<1>2. PICK m \in Nat : /\ q \in [1..m -> Rows(snaps, tn)]
                       /\ \A i, j \in 1..m : i # j => q[i] # q[j]
  BY <1>1, FS_CardinalityType DEF Listings, SetToSeqs
<1>3. q \in Seq(Rows(snaps, tn)) /\ Len(q) = m
  BY <1>2
<1>4. Len(p) = n /\ \A i \in 1..n : p[i] = q[i]
  BY <1>3
<1>5. \A i \in 1..n : p[i] \in 1..Len(snaps) /\ snaps[p[i]].tenant = tn
  BY <1>2, <1>3, <1>4 DEF Rows
<1>6. p[1] # p[2]
  BY <1>2, <1>3, <1>4
<1>7. 1 \in inactive \/ 2 \in inactive
  BY <1>4, <1>5, <1>6 DEF Single
<1>8. pick # {} /\ pick \subseteq 1..n
  BY <1>4, <1>7
<1>9. RollbackTarget(p) = p[Min(pick)]
  BY DEF RollbackTarget
<1> HIDE DEF pick
<1>10. Min(pick) \in 1..n
  <2>1. pick \subseteq Nat
    BY <1>8
  <2>2. Min(pick) \in pick
    BY <1>8, <2>1, MinIsMember, Zenon
  <2>. QED
    BY <1>8, <2>2
<1>. QED
  BY <1>5, <1>9, <1>10

-----------------------------------------------------------------------------
(* The steps, by what they do to the tables and to the request             *)

\* Only t's request moves.
Moves(t) ==
    /\ call' = [u \in Threads |-> call'[u]]
    /\ \A u \in Threads : u # t => call'[u] = call[u]
    /\ "op" \in DOMAIN call'[t]

\* An answer sends its request on to the tail of execute_graphql, with what it says.
LEMMA AnswerMoves ==
    ASSUME CInv, NEW t \in Threads, NEW id, Fail(t, id) \/ (Succeed(t) /\ id = 0)
    PROVE  Moves(t) /\ call'[t].op = "drain" /\ call'[t].hides = id
  BY DEF Fail, Succeed, Answer, Moves, CInv, Requests

\* A step that leaves the tables alone and gives a request a new place.
LEMMA RequestStep ==
    ASSUME CInv, UNCHANGED <<snaps, durable, txn>>, now' \in 0..MaxTime,
           bound # 0 => bound' # 0,
           NEW t \in Threads, Moves(t),
           call'[t].op = "save" => SaveTyped(call'[t]),
           call'[t].op \in {"activate", "queue", "bind"} =>
              "id" \in DOMAIN call'[t] /\ call'[t].id \in 1..Len(snaps),
           Explained(t)'
    PROVE  CInv'
<1>1. \A u \in Threads : u # t => call'[u] = call[u]
  BY DEF Moves
<1>2. Tables'
  BY DEF CInv, Tables
<1>3. Requests'
  <2>1. call' = [u \in Threads |-> call'[u]]
    BY DEF Moves
  <2>. QED
    BY <1>1, <2>1 DEF CInv, Requests, Moves
<1>4. Single(snaps)' /\ Single(durable)'
  BY DEF CInv, Single
<1>5. \A u \in Threads : Explained(u)'
  BY <1>1 DEF CInv, Explained
<1>. QED
  BY <1>2, <1>3, <1>4, <1>5 DEF CInv

\* A step that writes the tables, as long as they stay in order and lose no row, and
\* that answers or goes on.
LEMMA TableStep ==
    ASSUME CInv, Tables', Single(snaps)', Single(durable)', UNCHANGED bound,
           Len(snaps) <= Len(snaps'), txn => txn',
           \A i \in 1..Len(snaps) : snaps'[i].content = snaps[i].content,
           NEW t \in Threads, Moves(t),
           call'[t].op \notin {"save", "activate", "bind"},
           call'[t].op = "queue" => "id" \in DOMAIN call'[t] /\ call'[t].id \in 1..Len(snaps'),
           call'[t].op = "drain" /\ call'[t].hides # 0 => txn'
    PROVE  CInv'
<1>1. \A u \in Threads : u # t => call'[u] = call[u]
  BY DEF Moves
<1>0. 1..Len(snaps) \subseteq 1..Len(snaps')
  <2>1. Len(snaps) \in Nat /\ Len(snaps') \in Nat
    BY DEF CInv, Tables
  <2>. QED
    BY <2>1
<1>2. Requests'
  <2>1. call' = [u \in Threads |-> call'[u]]
    BY DEF Moves
  <2>. QED
    BY <1>0, <1>1, <2>1 DEF CInv, Requests, Moves
<1>3. \A u \in Threads : Explained(u)'
  BY <1>0, <1>1 DEF CInv, Explained
<1>. QED
  BY <1>2, <1>3 DEF CInv

\* A new row is inactive: the tables stay in order.
LEMMA AppendKeeps ==
    ASSUME NEW s \in Seq(Row), Single(s), NEW r \in Row, ~r.active
    PROVE  /\ Append(s, r) \in Seq(Row)
           /\ Len(Append(s, r)) = Len(s) + 1
           /\ Single(Append(s, r))
           /\ \A i \in 1..Len(s) : Append(s, r)[i] = s[i]
           /\ \A tn \in Tenants :
                ActiveRows(s, tn) # {} => ActiveRows(Append(s, r), tn) # {}
<1>1. Append(s, r) \in Seq(Row) /\ Len(Append(s, r)) = Len(s) + 1
  OBVIOUS
<1>2. \A i \in 1..(Len(s) + 1) : Append(s, r)[i] = IF i = Len(s) + 1 THEN r ELSE s[i]
  OBVIOUS
<1>3. Single(Append(s, r))
  BY <1>1, <1>2 DEF Single
<1>4. ASSUME NEW tn \in Tenants, ActiveRows(s, tn) # {}
      PROVE  ActiveRows(Append(s, r), tn) # {}
  <2>1. PICK i \in 1..Len(s) : s[i].tenant = tn /\ s[i].active
    BY <1>4 DEF ActiveRows, Rows
  <2>2. i \in 1..(Len(s) + 1) /\ Append(s, r)[i] = s[i]
    BY <1>2
  <2>. QED
    BY <1>1, <2>1, <2>2 DEF ActiveRows, Rows
<1>. QED
  BY <1>1, <1>2, <1>3, <1>4

\* What every step does: the invariant is kept, and a configured tenant stays so.
Kept == \A tn \in Tenants : ActiveRows(durable, tn) # {} => ActiveRows(durable', tn) # {}

\* save_config_snapshot appends an inactive row.
LEMMA SaveStep ==
    ASSUME CInv, NEW t \in Threads, ApplySave(t)
    PROVE  CInv' /\ Kept
<1> DEFINE row == [tenant |-> call[t].tenant, version |-> call[t].version,
                   content |-> call[t].content, created |-> now, active |-> FALSE]
<1>1. row \in Row /\ ~row.active
  BY DEF ApplySave, CInv, Tables, Requests, SaveTyped, Row
<1>2. CASE /\ snaps' = Append(snaps, row)
           /\ durable' = IF txn THEN durable ELSE Append(durable, row)
           /\ Succeed(t)
  <2> HIDE DEF row
  <2>1. snaps \in Seq(Row) /\ durable \in Seq(Row) /\ Single(snaps) /\ Single(durable)
    BY DEF CInv, Tables
  <2>2. /\ snaps' \in Seq(Row) /\ Len(snaps') = Len(snaps) + 1 /\ Single(snaps')
        /\ \A i \in 1..Len(snaps) : snaps'[i].content = snaps[i].content
    BY <1>1, <1>2, <2>1, AppendKeeps
  <2>3. durable' \in Seq(Row) /\ Single(durable') /\ Kept
    <3>1. CASE txn
      BY <1>2, <2>1, <3>1 DEF Kept
    <3>2. CASE ~txn
      BY <1>1, <1>2, <2>1, <3>2, AppendKeeps DEF Kept
    <3>. QED
      BY <3>1, <3>2
  <2>4. UNCHANGED <<txn, bound, now>>
    BY DEF ApplySave, memory
  <2>5. Tables'
    BY <1>2, <2>2, <2>3, <2>4 DEF CInv, Tables
  <2>6. Moves(t) /\ call'[t].op = "drain" /\ call'[t].hides = 0
    BY <1>2, AnswerMoves
  <2>7. Len(snaps) <= Len(snaps')
    BY <2>1, <2>2
  <2>8. Single(snaps)' /\ Single(durable)'
    BY <2>2, <2>3 DEF Single
  <2>9. CInv'
    BY <2>2, <2>4, <2>5, <2>6, <2>7, <2>8, TableStep
  <2>. QED
    BY <2>3, <2>9
<1>3. CASE Fail(t, 0) /\ UNCHANGED <<snaps, durable>>
  <2>1. Moves(t) /\ call'[t].op = "drain" /\ call'[t].hides = 0
    BY <1>3, AnswerMoves
  <2>2. UNCHANGED <<snaps, durable, txn, bound, now>>
    BY <1>3 DEF ApplySave, memory
  <2>3. now' \in 0..MaxTime
    BY <2>2 DEF CInv, Tables
  <2>. QED
    BY <2>1, <2>2, <2>3, RequestStep DEF Kept, Explained
<1>. QED
  BY <1>2, <1>3 DEF ApplySave

\* The steps that leave the tables alone.
QuietStep(t) ==
    \/ Begin(t)
    \/ ActivateFails(t) \/ QueueSchema(t) \/ RegisterBinding(t) \/ PublishActivated(t)
    \/ AnswerOverSocket(t) \/ GetPending(t) \/ ClearPending(t) \/ LoadBegin(t)
    \/ LoadSchema(t)

\* None of these steps touches a row.
LEMMA QuietSteps ==
    ASSUME CInv, NEW t \in Threads, QuietStep(t)
    PROVE  CInv' /\ Kept
<1> DEFINE Result ==
        /\ Moves(t)
        /\ UNCHANGED <<snaps, durable, txn, now>>
        /\ bound # 0 => bound' # 0
        /\ call'[t].op = "save" => SaveTyped(call'[t])
        /\ call'[t].op \in {"activate", "queue", "bind"} =>
              "id" \in DOMAIN call'[t] /\ call'[t].id \in 1..Len(snaps)
        /\ Explained(t)'
<1>1. SUFFICES Result
  <2>1. now' \in 0..MaxTime
    BY <1>1 DEF CInv, Tables
  <2>2. CInv'
    BY <1>1, <2>1, RequestStep
  <2>. QED
    BY <1>1, <2>2 DEF Kept
<1> USE DEF store, memory, bounds, Explained
<1>2. ASSUME NEW tn \in Tenants, NEW v \in Versions, NEW c \in Contents,
             NEW e \in Versions \cup {Zero, Unset}, ApplyCheck(t, tn, v, c, e)
      PROVE  Result
  BY <1>2, ConfigAssumption DEF ApplyCheck, Submit, Moves, SaveTyped, CInv, Requests
<1>3. ASSUME NEW id \in Ids, ActivateBegin(t, id)
      PROVE  Result
  BY <1>3 DEF ActivateBegin, get_config_snapshot, Moves, CInv, Requests
<1>4. ASSUME NEW tn \in Tenants, RollbackBegin(t, tn)
      PROVE  Result
  <2>1. PICK q \in Listings(tn), n \in 2..MaxSnapshots :
          /\ n = Len(q) \/ n < Len(q)
          /\ call' = [call EXCEPT ![t] = [op |-> "activate", by |-> "rollback",
                                          id |-> RollbackTarget(SubSeq(q, 1, n)),
                                          changed |-> FALSE]]
    BY <1>4 DEF RollbackBegin
  <2>2. snaps \in Seq(Row) /\ Single(snaps)
    BY DEF CInv, Tables
  <2>3. RollbackTarget(SubSeq(q, 1, n)) \in 1..Len(snaps)
    BY <2>1, <2>2, TargetExists
  <2>4. /\ Moves(t) /\ call'[t].op = "activate"
        /\ "id" \in DOMAIN call'[t] /\ call'[t].id = RollbackTarget(SubSeq(q, 1, n))
    BY <2>1 DEF Moves, CInv, Requests
  <2>5. UNCHANGED <<snaps, durable, txn, now, bound>>
    BY <1>4 DEF RollbackBegin
  <2>. QED
    BY <2>3, <2>4, <2>5
<1>5. CASE OtherRequest(t)
  BY <1>5, AnswerMoves DEF OtherRequest
<1>6. CASE ActivateFails(t)
  BY <1>6, AnswerMoves DEF ActivateFails
<1>7. CASE QueueSchema(t)
  <2>1. CASE call' = [call EXCEPT ![t].op = "bind"]
    BY <1>7, <2>1 DEF QueueSchema, Moves, CInv, Requests
  <2>2. CASE Succeed(t)
    BY <1>7, <2>2, AnswerMoves DEF QueueSchema
  <2>. QED
    BY <1>7, <2>1, <2>2 DEF QueueSchema
<1>8. CASE RegisterBinding(t)
  <2> DEFINE id == call[t].id
             content == snaps[id].content
             throws == content = "mistyped" \/ (content = "bound" /\ bound # 0)
  <2>1. /\ IF throws THEN Fail(t, IF call[t].changed THEN id ELSE 0)
           ELSE call' = [call EXCEPT ![t].op = "publish"]
        /\ bound' = IF content = "bound" /\ ~throws THEN id ELSE bound
        /\ UNCHANGED <<snaps, durable, txn, now>>
    BY <1>8 DEF RegisterBinding
  <2>2. id \in 1..Len(snaps) /\ id # 0
    BY <1>8 DEF RegisterBinding, CInv, Requests
  <2>3. bound # 0 => bound' # 0
    BY <2>1, <2>2
  <2>4. CASE ~throws
    BY <2>1, <2>3, <2>4 DEF Moves, CInv, Requests
  <2>5. CASE throws
    <3>1. PICK x \in {id, 0} : Fail(t, x)
      BY <2>1, <2>5
    <3>2. Moves(t) /\ call'[t].op = "drain" /\ call'[t].hides = x
      BY <3>1, AnswerMoves
    <3>3. Explained(t)'
      BY <2>1, <2>2, <2>3, <2>5, <3>2
    <3>. QED
      BY <2>1, <2>3, <3>2, <3>3
  <2>. QED
    BY <2>4, <2>5
<1>9. CASE PublishActivated(t)
  BY <1>9, AnswerMoves DEF PublishActivated
<1>10. CASE AnswerOverSocket(t)
  BY <1>10 DEF AnswerOverSocket, Idle, Moves, CInv, Requests
<1>11. CASE GetPending(t)
  BY <1>11 DEF GetPending, Idle, Moves, CInv, Requests
<1>12. CASE ClearPending(t)
  BY <1>12 DEF ClearPending, Moves, CInv, Requests
<1>13. CASE LoadBegin(t)
  BY <1>13 DEF LoadBegin, Moves, CInv, Requests
<1>14. CASE LoadSchema(t)
  BY <1>14 DEF LoadSchema, Idle, Moves, CInv, Requests
<1>. QED
  BY <1>2, <1>3, <1>4, <1>5, <1>6, <1>7, <1>8, <1>9, <1>10, <1>11, <1>12, <1>13, <1>14
     DEF QuietStep, Begin

\* The step that switches the active snapshot, and the one whose COMMIT fails.
LEMMA ActivateStep ==
    ASSUME CInv, NEW t \in Threads, ActivateStore(t) \/ CommitFails(t)
    PROVE  CInv' /\ Kept
<1> DEFINE id == call[t].id
<1>1. /\ snaps \in Seq(Row) /\ durable \in Seq(Row)
      /\ Single(snaps) /\ Single(durable) /\ durable = snaps
      /\ id \in 1..Len(snaps) /\ ~txn
      /\ snaps' = Activated(snaps, id)
      /\ UNCHANGED <<bound, now>>
  BY DEF ActivateStore, CommitFails, CInv, Tables, Requests, memory, bounds
<1> HIDE DEF id
<1>2. /\ snaps' \in Seq(Row) /\ Len(snaps') = Len(snaps) /\ Single(snaps')
      /\ \A i \in 1..Len(snaps) : snaps'[i].content = snaps[i].content
      /\ \A tn \in Tenants : ActiveRows(snaps, tn) # {} => ActiveRows(snaps', tn) # {}
  BY <1>1, ActivatedRows
<1>3. Len(snaps) <= Len(snaps')
  BY <1>1, <1>2
<1>4. CASE ActivateStore(t)
  <2>1. durable' = snaps' /\ UNCHANGED txn
    BY <1>4 DEF ActivateStore
  <2>2. Tables' /\ Single(snaps)' /\ Single(durable)'
    BY <1>1, <1>2, <2>1 DEF CInv, Tables, Single
  <2>3. /\ Moves(t) /\ call'[t].op = "queue"
        /\ "id" \in DOMAIN call'[t] /\ call'[t].id = id
    BY <1>4 DEF ActivateStore, Moves, CInv, Requests, id
  <2>4. CInv'
    BY <1>1, <1>2, <1>3, <2>1, <2>2, <2>3, TableStep
  <2>. QED
    BY <1>1, <1>2, <2>1, <2>4 DEF Kept
<1>5. CASE CommitFails(t)
  <2>1. UNCHANGED durable /\ txn' = TRUE
    BY <1>5 DEF CommitFails
  <2>2. Tables' /\ Single(snaps)' /\ Single(durable)'
    BY <1>1, <1>2, <2>1 DEF CInv, Tables, Single
  <2>3. Moves(t) /\ call'[t].op = "drain"
    BY <1>5, AnswerMoves DEF CommitFails
  <2>4. CInv'
    BY <1>1, <1>2, <1>3, <2>1, <2>2, <2>3, TableStep
  <2>. QED
    BY <2>1, <2>4 DEF Kept
<1>. QED
  BY <1>4, <1>5

\* A store that a process may find has rows, none of them active.
LEMMA StoresTyped ==
    ASSUME NEW s \in Stores
    PROVE  /\ s \in Seq(Row) /\ Len(s) \in 0..MaxSnapshots
           /\ \A i \in 1..Len(s) : ~s[i].active
<1>1. /\ s = [i \in 1..Len(s) |-> s[i]] /\ Len(s) \in 0..MaxSnapshots
      /\ \A i \in 1..Len(s) : s[i] \in Row /\ ~s[i].active
  BY ConfigAssumption
<1>2. s \in [1..Len(s) -> Row] /\ Len(s) \in Nat
  BY <1>1, ConfigAssumption
<1>. QED
  BY <1>1, <1>2

\* No row is active at first.
LEMMA ConfigInit == Init => CInv
<1> SUFFICES ASSUME Init PROVE CInv
  OBVIOUS
<1>1. Tables
  <2>1. snaps \in Seq(Row) /\ durable \in Seq(Row) /\ durable = snaps
    BY StoresTyped DEF Init
  <2>2. now \in 0..MaxTime
    BY DEF Init
  <2>3. txn \in BOOLEAN
    BY Zenon DEF Init
  <2>. QED
    BY <2>1, <2>2, <2>3 DEF Tables
<1>2. Single(snaps) /\ Single(durable)
  <2>1. durable = snaps /\ \A i \in 1..Len(snaps) : ~snaps[i].active
    BY StoresTyped DEF Init
  <2>. QED
    BY <2>1 DEF Single
<1>3. Requests /\ \A t \in Threads : Explained(t)
  BY DEF Init, Requests, Explained, AllIdle, Idle
<1>. QED
  BY <1>1, <1>2, <1>3 DEF CInv

\* Every step keeps the invariant and a tenant's active row on disk.
LEMMA ConfigStep ==
    ASSUME CInv, [Next]_vars
    PROVE  CInv' /\ Kept
<1>1. ASSUME NEW t \in Threads, Begin(t) \/ Continue(t)
      PROVE  CInv' /\ Kept
  BY <1>1, QuietSteps, SaveStep, ActivateStep DEF Continue, QuietStep
<1>2. CASE Tick
  <2>1. UNCHANGED <<snaps, durable, txn, call, bound>> /\ now' \in 0..MaxTime
    BY <1>2, ConfigAssumption DEF Tick, store, memory, CInv, Tables
  <2>. QED
    BY <2>1 DEF CInv, Tables, Requests, Single, Explained, Kept
<1>3. CASE Restart
  <2>1. /\ snaps' = durable /\ UNCHANGED <<durable, now>> /\ txn' = FALSE
        /\ call' = AllIdle
    BY <1>3 DEF Restart
  <2>2. Tables' /\ Single(snaps)' /\ Single(durable)' /\ Kept
    BY <2>1 DEF CInv, Tables, Single, Kept
  <2>3. Requests' /\ \A t \in Threads : Explained(t)'
    BY <2>1 DEF Requests, Explained, AllIdle, Idle
  <2>. QED
    BY <2>2, <2>3 DEF CInv
<1>4. CASE UNCHANGED vars
  BY <1>4 DEF vars, store, memory, bounds, CInv, Tables, Requests, Single,
              Explained, Kept
<1>. QED
  BY <1>1, <1>2, <1>3, <1>4 DEF Next, Step

-----------------------------------------------------------------------------
(* Theorems                                                                *)

\* The inductive invariant: rows and requests have their shape, the connection's view
\* is what is committed unless a transaction was left open, and each has at most one
\* active row for a tenant.
THEOREM ConfigInvariant == Spec => []CInv
  BY ConfigInit, ConfigStep, PTL DEF Spec

\* activate_config_snapshot: a tenant never has two active snapshots, whichever
\* statement fails and whoever else activates.
THEOREM ActiveIsUnique == Spec => []OneActive
<1>1. ASSUME NEW s, NEW tn, Single(s) PROVE Cardinality(ActiveRows(s, tn)) <= 1
  <2> DEFINE A == ActiveRows(s, tn)
  <2>1. \A i, j \in A : i = j
    BY <1>1 DEF Single, ActiveRows, Rows
  <2>2. A = {} \/ \E i : A = {i}
    BY <2>1
  <2>. QED
    BY <2>2, FS_EmptySet, FS_Singleton
<1>2. CInv => OneActive
  BY <1>1 DEF CInv, OneActive
<1>. QED
  BY <1>2, ConfigInvariant, PTL

\* activate_config_snapshot and initialize_config_db: a tenant that has an active
\* snapshot on disk has one ever after, through failed statements and restarts.
THEOREM ConfiguredForGood == Spec => StaysConfigured
<1>1. CInv /\ [Next]_vars =>
        [\A tn \in Tenants : ActiveRows(durable, tn) # {} => ActiveRows(durable', tn) # {}]_vars
  BY ConfigStep DEF Kept
<1>. QED
  BY <1>1, ConfigInvariant, PTL DEF Spec, StaysConfigured

\* The resolvers applyConfiguration, activateSnapshot and rollbackConfiguration: an
\* error answer hides a change only behind a failed COMMIT, a binding that is mistyped or a
\* second binding for its field.
THEOREM ErrorsChangeNothing == Spec => []FailureChangesNothing
<1>1. CInv => FailureChangesNothing
  BY DEF CInv, Explained, FailureChangesNothing
<1>. QED
  BY <1>1, ConfigInvariant, PTL

-----------------------------------------------------------------------------
(* The types of the whole state                                            *)

\* Rows and saves in progress keep within the bound.
Saving == {t \in Threads : call[t].op = "save"}

WithinBound == Len(snaps) + Cardinality(Saving) <= MaxSnapshots

\* The invariant: what the tables need, and the types.
TInv == CInv /\ TypeOK /\ WithinBound

-----------------------------------------------------------------------------
(* What is loaded                                                          *)

\* A row whose SDL is still to be loaded: it is queued, about to be, or on its way from
\* the queue to load_schema.
Due(i) ==
    \/ i = pending /\ i # 0
    \/ \E t \in Threads : call[t].op \in {"queue", "load", "loading"} /\ call[t].id = i

DueIsActive == \A i : Due(i) => i \in 1..Len(snaps) /\ snaps[i].active

LoadedOrDue ==
    \A tn \in Tenants :
       activations[tn] # <<>> =>
          \/ loaded[tn] \in ActiveRows(snaps, tn)
          \/ \E i \in 1..Len(snaps) : Due(i) /\ snaps[i].tenant = tn

\* What is queued, by the place of the request that is in progress.
QueueFits ==
    /\ \A t \in Threads :
         /\ call[t].op \in {"save", "activate", "queue", "load", "loading"} => pending = 0
         /\ call[t].op \in {"bind", "publish", "clear"} => pending = call[t].id
    /\ (\A t \in Threads : call[t] = Idle) => pending = 0

OneRequest == \A t, u \in Threads : call[t] # Idle /\ call[u] # Idle => t = u

Undisturbed == OneRequest /\ ~txn /\ DueIsActive /\ LoadedOrDue /\ QueueFits

LInv == ~disturbed /\ faults = 0 => Undisturbed

\* RemoveFirst leaves elements of the sequence.
LEMMA RemoveFirstTyped ==
    ASSUME NEW S, NEW q \in Seq(S), NEW e
    PROVE  RemoveFirst(q, e) \in Seq(S)
<1> DEFINE I == {i \in 1..Len(q) : q[i] = e}
<1>1. CASE I = {}
  BY <1>1 DEF RemoveFirst
<1>2. CASE I # {}
  <2>1. Min(I) \in I
    <3>1. I \subseteq Nat
      OBVIOUS
    <3> HIDE DEF I
    <3> QED
      BY <1>2, <3>1, MinIsMember, Zenon
  <2>2. RemoveFirst(q, e) = RemoveAt(q, Min(I))
    BY <1>2 DEF RemoveFirst, SelectInSeq
  <2>3. PICK k \in 1..Len(q) : k = Min(I)
    BY <2>1
  <2>4. Len(q) \in Nat /\ k \in Int /\ \A i \in 1..Len(q) : q[i] \in S
    OBVIOUS
  <2>5. SubSeq(q, 1, k - 1) \in Seq(S)
    <3>1. 1 \in Int /\ k - 1 \in Int /\ \A i \in 1..(k - 1) : q[i] \in S
      BY <2>4
    <3> QED
      BY <3>1, SubSeqProperties, Zenon
  <2>6. SubSeq(q, k + 1, Len(q)) \in Seq(S)
    <3>1. k + 1 \in Int /\ Len(q) \in Int /\ \A i \in (k + 1)..Len(q) : q[i] \in S
      BY <2>4
    <3> QED
      BY <3>1, SubSeqProperties, Zenon
  <2> QED
    BY <2>2, <2>3, <2>5, <2>6, ConcatProperties DEF RemoveAt
<1> QED
  BY <1>1, <1>2

\* What a request in progress carries, and where it may go on to.
LEMMA CallShape ==
    ASSUME NEW c \in Call
    PROVE  /\ c.op \in {"activate", "queue", "bind", "publish"} =>
                 /\ c.id \in Ids /\ c.changed \in BOOLEAN
                 /\ [c EXCEPT !.op = "bind"] \in Call /\ [c EXCEPT !.op = "publish"] \in Call
                 /\ \A b \in BOOLEAN : [c EXCEPT !.op = "queue", !.changed = b] \in Call
           /\ c.op \in {"clear", "load", "loading"} =>
                 /\ c.id \in Ids
                 /\ [c EXCEPT !.op = "load"] \in Call /\ [c EXCEPT !.op = "loading"] \in Call
<1>1. CASE c.op \in {"activate", "queue", "bind", "publish"}
  <2>1. c \in [op : {"activate", "queue", "bind", "publish"}, by : {"activate", "rollback"},
               id : Ids, changed : BOOLEAN]
    BY <1>1 DEF Call, Idle
  <2>2. c.by \in {"activate", "rollback"} /\ c.id \in Ids /\ c.changed \in BOOLEAN
    BY <2>1
  <2>3. \A b \in BOOLEAN : [c EXCEPT !.op = "queue", !.changed = b] \in Call
    BY <2>1 DEF Call
  <2>4. [c EXCEPT !.op = "bind"] \in Call /\ [c EXCEPT !.op = "publish"] \in Call
    BY <2>1 DEF Call
  <2> QED
    BY <1>1, <2>2, <2>3, <2>4
<1>2. CASE c.op \in {"clear", "load", "loading"}
  <2>1. c \in [op : {"clear", "load", "loading"}, id : Ids]
    BY <1>2 DEF Call, Idle
  <2> QED
    BY <1>2, <2>1 DEF Call
<1> QED
  BY <1>1, <1>2

\* A request's new place is one the resolvers know.
LEMMA CallTyped ==
    ASSUME TInv, NEW t \in Threads, Begin(t) \/ Continue(t)
    PROVE  call' \in [Threads -> Call]
<1>1. call \in [Threads -> Call] /\ call[t] \in Call
  BY DEF TInv, TypeOK
<1>2. SUFFICES \E c \in Call : call' = [call EXCEPT ![t] = c]
  BY <1>1
<1>3. ASSUME NEW id \in Ids \cup {0}, Answer(t, id)
      PROVE  \E c \in Call : call' = [call EXCEPT ![t] = c]
  <2>1. [op |-> "drain", hides |-> id] \in Call
    BY DEF Call
  <2> QED
    BY <1>3, <2>1 DEF Answer
<1>4. Idle \in Call
  BY DEF Call
<1>5. ASSUME NEW tn \in Tenants, NEW v \in Versions, NEW c \in Contents,
             NEW e \in Versions \cup {Zero, Unset}, ApplyCheck(t, tn, v, c, e)
      PROVE  \E d \in Call : call' = [call EXCEPT ![t] = d]
  <2>1. [op |-> "save", tenant |-> tn, version |-> v, content |-> c] \in Call
    BY ConfigAssumption DEF Call
  <2> QED
    BY <1>5, <2>1 DEF ApplyCheck, Submit
<1>6. ASSUME NEW id \in Ids, ActivateBegin(t, id)
      PROVE  \E c \in Call : call' = [call EXCEPT ![t] = c]
  <2>1. [op |-> "activate", by |-> "activate", id |-> id, changed |-> FALSE] \in Call
    BY DEF Call
  <2> QED
    BY <1>6, <2>1 DEF ActivateBegin
<1>7. ASSUME NEW tn \in Tenants, RollbackBegin(t, tn)
      PROVE  \E c \in Call : call' = [call EXCEPT ![t] = c]
  <2>1. PICK q \in Listings(tn), n \in 2..MaxSnapshots :
          /\ n = Len(q) \/ n < Len(q)
          /\ call' = [call EXCEPT ![t] = [op |-> "activate", by |-> "rollback",
                                          id |-> RollbackTarget(SubSeq(q, 1, n)),
                                          changed |-> FALSE]]
    BY <1>7 DEF RollbackBegin
  <2>2. snaps \in Seq(Row) /\ Single(snaps)
    BY DEF TInv, CInv, Tables
  <2>3. RollbackTarget(SubSeq(q, 1, n)) \in 1..Len(snaps)
    BY <2>1, <2>2, TargetExists
  <2>4. 1..Len(snaps) \subseteq Ids
    BY ConfigAssumption DEF TInv, TypeOK, Ids
  <2>5. [op |-> "activate", by |-> "rollback", id |-> RollbackTarget(SubSeq(q, 1, n)),
         changed |-> FALSE] \in Call
    BY <2>3, <2>4 DEF Call
  <2> QED
    BY <2>1, <2>5
<1>8. CASE OtherRequest(t)
  BY <1>3, <1>8 DEF OtherRequest, Succeed, Fail
<1>9. CASE ApplySave(t)
  BY <1>3, <1>9 DEF ApplySave, Succeed, Fail
<1>10. CASE ActivateStore(t)
  <2>1. call' = [call EXCEPT ![t] = [call[t] EXCEPT !.op = "queue", !.changed = snaps' # snaps]]
    BY <1>1, <1>10 DEF ActivateStore
  <2>2. (snaps' # snaps) \in BOOLEAN
    BY Zenon
  <2>3. [call[t] EXCEPT !.op = "queue", !.changed = snaps' # snaps] \in Call
    BY <1>1, <1>10, <2>2, CallShape DEF ActivateStore
  <2> QED
    BY <2>1, <2>3
<1>11. CASE ActivateFails(t)
  BY <1>3, <1>11 DEF ActivateFails, Succeed, Fail
<1>12. CASE CommitFails(t)
  <2>1. call[t].id \in Ids
    BY <1>1, <1>12, CallShape DEF CommitFails
  <2>2. \E id \in Ids \cup {0} : Answer(t, id)
    BY <1>12, <2>1 DEF CommitFails, Fail
  <2> QED
    BY <1>3, <2>2, Zenon
<1>13. CASE QueueSchema(t)
  BY <1>1, <1>3, <1>13, CallShape DEF QueueSchema, Succeed
<1>14. CASE RegisterBinding(t)
  <2>1. call[t].id \in Ids /\ [call[t] EXCEPT !.op = "publish"] \in Call
    BY <1>1, <1>14, CallShape DEF RegisterBinding
  <2>2. CASE call' = [call EXCEPT ![t].op = "publish"]
    BY <1>1, <2>1, <2>2
  <2>3. CASE \E id \in {call[t].id, 0} : Fail(t, id)
    BY <1>3, <2>1, <2>3 DEF Fail
  <2> QED
    BY <1>14, <2>2, <2>3 DEF RegisterBinding
<1>15. CASE PublishActivated(t)
  BY <1>1, <1>3, <1>15, CallShape DEF PublishActivated, Succeed
<1>16. CASE AnswerOverSocket(t) \/ LoadSchema(t)
  BY <1>4, <1>16 DEF AnswerOverSocket, LoadSchema
<1>17. CASE GetPending(t)
  <2>1. pending # 0 => [op |-> "clear", id |-> pending] \in Call
    BY DEF TInv, TypeOK, Call
  <2> QED
    BY <1>4, <1>17, <2>1 DEF GetPending
<1>18. CASE ClearPending(t) \/ LoadBegin(t)
  BY <1>1, <1>18, CallShape DEF ClearPending, LoadBegin
<1> QED
  BY <1>5, <1>6, <1>7, <1>8, <1>9, <1>10, <1>11, <1>12, <1>13, <1>14, <1>15, <1>16, <1>17,
     <1>18 DEF Begin, Continue

\* What the process keeps in memory stays typed.
LEMMA MemoryTyped ==
    ASSUME TInv, NEW t \in Threads, Begin(t) \/ Continue(t)
    PROVE  /\ pending' \in Ids \cup {0} /\ bound' \in Ids \cup {0}
           /\ loaded' \in [Tenants -> Ids \cup {0}]
           /\ announced' \in [Tenants -> Ids \cup {0}]
           /\ activations' \in [Tenants -> Seq(Ids)]
           /\ faults' \in 0..MaxFaults /\ restarts' = restarts
<1>1. /\ pending \in Ids \cup {0} /\ bound \in Ids \cup {0}
      /\ loaded \in [Tenants -> Ids \cup {0}]
      /\ announced \in [Tenants -> Ids \cup {0}]
      /\ activations \in [Tenants -> Seq(Ids)]
      /\ faults \in 0..MaxFaults /\ call[t] \in Call
  BY DEF TInv, TypeOK
<1>2. Fault => faults' \in 0..MaxFaults
  BY <1>1, ConfigAssumption DEF Fault
<1> USE DEF memory, bounds
<1>3. CASE Begin(t)
  <2>1. UNCHANGED memory /\ UNCHANGED restarts /\ (UNCHANGED faults \/ Fault)
    BY <1>3 DEF Begin, ApplyCheck, ActivateBegin, RollbackBegin, OtherRequest
  <2> QED
    BY <1>1, <1>2, <2>1
<1>4. CASE ApplySave(t) \/ ActivateFails(t) \/ CommitFails(t)
  <2>1. UNCHANGED memory /\ UNCHANGED restarts /\ (UNCHANGED faults \/ Fault)
    BY <1>4 DEF ApplySave, ActivateFails, CommitFails
  <2> QED
    BY <1>1, <1>2, <2>1
<1>5. CASE ActivateStore(t)
  <2> DEFINE id == call[t].id
             tn == snaps[id].tenant
  <2>1. id \in Ids
    BY <1>1, <1>5, CallShape DEF ActivateStore
  <2>2. activations' = [activations EXCEPT ![tn] = Append(RemoveFirst(activations[tn], id), id)]
    BY <1>5 DEF ActivateStore
  <2>3. tn \in Tenants => Append(RemoveFirst(activations[tn], id), id) \in Seq(Ids)
    <3> HIDE DEF id, tn
    <3> QED
      BY <1>1, <2>1, RemoveFirstTyped, AppendProperties
  <2> HIDE DEF id, tn
  <2>4. activations' \in [Tenants -> Seq(Ids)]
    BY <1>1, <2>2, <2>3
  <2> QED
    BY <1>1, <1>5, <2>4 DEF ActivateStore
<1>6. CASE QueueSchema(t)
  BY <1>1, <1>6, CallShape DEF QueueSchema
<1>7. CASE RegisterBinding(t)
  <2>1. call[t].id \in Ids
    BY <1>1, <1>7, CallShape DEF RegisterBinding
  <2> QED
    BY <1>1, <1>7, <2>1 DEF RegisterBinding
<1>8. CASE PublishActivated(t)
  BY <1>1, <1>8, CallShape DEF PublishActivated
<1>9. CASE AnswerOverSocket(t) \/ GetPending(t) \/ LoadBegin(t)
  BY <1>1, <1>9 DEF AnswerOverSocket, GetPending, LoadBegin
<1>10. CASE ClearPending(t)
  BY <1>1, <1>10 DEF ClearPending
<1>11. CASE LoadSchema(t)
  <2>1. call[t].id \in Ids
    BY <1>1, <1>11, CallShape DEF LoadSchema
  <2>2. loaded' = loaded \/ loaded' = [loaded EXCEPT ![snaps[call[t].id].tenant] = call[t].id]
    BY <1>11 DEF LoadSchema
  <2>3. loaded' \in [Tenants -> Ids \cup {0}]
    BY <1>1, <2>1, <2>2
  <2> QED
    BY <1>1, <1>11, <2>3 DEF LoadSchema
<1> QED
  BY <1>3, <1>4, <1>5, <1>6, <1>7, <1>8, <1>9, <1>10, <1>11 DEF Continue

\* No step makes the tables, with the saves in progress, longer than the bound.
LEMMA BoundKept ==
    ASSUME TInv, NEW t \in Threads, Begin(t) \/ Continue(t)
    PROVE  WithinBound' /\ Len(snaps') <= MaxSnapshots /\ Len(durable') <= Len(snaps')
<1> USE Numbers
<1>1. /\ snaps \in Seq(Row) /\ durable \in Seq(Row) /\ Len(snaps) \in Nat /\ Len(durable) \in Nat
      /\ Len(durable) <= Len(snaps) /\ (~txn => durable = snaps)
      /\ call \in [Threads -> Call] /\ "op" \in DOMAIN call[t]
  BY DEF TInv, TypeOK, CInv, Tables, Requests
<1>2. IsFiniteSet(Saving) /\ Cardinality(Saving) \in Nat
  BY FS_Subset, FS_CardinalityType DEF Saving
<1>3. /\ IsFiniteSet(Saving') /\ Cardinality(Saving') \in Nat
  <2>1. Saving' \subseteq Threads
    BY DEF Saving
  <2> QED
    BY <2>1, FS_Subset, FS_CardinalityType
<1>4. \A u \in Threads : u # t => call'[u] = call[u]
  BY <1>1 DEF Begin, Continue, ApplyCheck, ActivateBegin, RollbackBegin, OtherRequest,
     ApplySave, ActivateStore, ActivateFails, CommitFails, QueueSchema, RegisterBinding,
     PublishActivated, AnswerOverSocket, GetPending, ClearPending, LoadBegin, LoadSchema,
     Answer, Succeed, Fail, Submit
\* Where nothing is saved and no row is added.
<1>5. ASSUME call'[t].op # "save", Len(snaps') = Len(snaps), Len(durable') <= Len(snaps)
      PROVE  WithinBound' /\ Len(snaps') <= MaxSnapshots /\ Len(durable') <= Len(snaps')
  <2>1. Saving' \subseteq Saving
    BY <1>4, <1>5 DEF Saving
  <2>2. Cardinality(Saving') <= Cardinality(Saving)
    BY <1>2, <2>1, FS_Subset
  <2> QED
    BY <1>1, <1>2, <1>3, <1>5, <2>2 DEF TInv, WithinBound
<1>6. ASSUME NEW id, Fail(t, id) \/ Succeed(t) PROVE call'[t].op # "save"
  BY <1>1, <1>6 DEF Fail, Succeed, Answer
<1>7. ASSUME NEW tn, NEW v, NEW c, NEW e, ApplyCheck(t, tn, v, c, e)
      PROVE  WithinBound' /\ Len(snaps') <= MaxSnapshots /\ Len(durable') <= Len(snaps')
  <2>1. Saving' \subseteq Saving \cup {t}
    BY <1>4 DEF Saving
  <2>2. Cardinality(Saving') <= Cardinality(Saving) + 1
    <3>1. IsFiniteSet(Saving \cup {t}) /\ Cardinality(Saving \cup {t}) <= Cardinality(Saving) + 1
      BY <1>2, FS_AddElement
    <3>2. Cardinality(Saving') <= Cardinality(Saving \cup {t})
      BY <2>1, <3>1, FS_Subset
    <3>3. Cardinality(Saving \cup {t}) \in Nat
      BY <3>1, FS_CardinalityType
    <3> QED
      BY <1>2, <1>3, <3>1, <3>2, <3>3
  <2>3. Len(snaps) + Cardinality(Saving) < MaxAdded /\ UNCHANGED <<snaps, durable>>
    BY <1>7 DEF ApplyCheck, Room, Saving, store
  <2> QED
    BY <1>1, <1>2, <1>3, <2>2, <2>3 DEF WithinBound
<1>8. CASE ApplySave(t)
  <2>1. call'[t].op # "save" /\ call[t].op = "save"
    BY <1>6, <1>8 DEF ApplySave
  <2>2. CASE UNCHANGED <<snaps, durable>>
    BY <1>1, <1>5, <2>1, <2>2
  <2>3. CASE ~UNCHANGED <<snaps, durable>>
    <3>1. PICK row : /\ snaps' = Append(snaps, row)
                     /\ durable' = IF txn THEN durable ELSE Append(durable, row)
      BY <1>8, <2>3 DEF ApplySave
    <3>2. \A s \in Seq(Row) : Len(Append(s, row)) = Len(s) + 1
      OBVIOUS
    <3>3. Len(snaps') = Len(snaps) + 1 /\ Len(durable') <= Len(snaps')
      BY <1>1, <3>1, <3>2
    <3>4. t \in Saving /\ Saving' = Saving \ {t}
      BY <1>4, <2>1 DEF Saving
    <3>5. Cardinality(Saving \ {t}) = Cardinality(Saving) - 1
      BY <1>2, <3>4, FS_RemoveElement
    <3>6. Cardinality(Saving') = Cardinality(Saving) - 1
      BY <3>4, <3>5
    <3> QED
      BY <1>1, <1>2, <1>3, <3>3, <3>6 DEF TInv, WithinBound
  <2> QED
    BY <2>2, <2>3
<1>9. CASE ActivateStore(t) \/ CommitFails(t)
  <2>1. /\ call[t].id \in 1..Len(snaps) /\ Single(snaps)
        /\ snaps' = Activated(snaps, call[t].id)
        /\ durable' = snaps' \/ durable' = durable
    BY <1>9 DEF ActivateStore, CommitFails, TInv, CInv, Requests
  <2>2. Len(snaps') = Len(snaps)
    BY <1>1, <2>1, ActivatedRows
  <2>3. call'[t].op # "save"
    BY <1>1, <1>6, <1>9 DEF ActivateStore, CommitFails
  <2> QED
    BY <1>1, <1>5, <2>1, <2>2, <2>3
<1>10. CASE \/ \E id \in Ids : ActivateBegin(t, id)
            \/ \E tn \in Tenants : RollbackBegin(t, tn)
            \/ OtherRequest(t) \/ ActivateFails(t) \/ QueueSchema(t) \/ RegisterBinding(t)
            \/ PublishActivated(t) \/ AnswerOverSocket(t) \/ GetPending(t)
            \/ ClearPending(t) \/ LoadBegin(t) \/ LoadSchema(t)
  <2>1. UNCHANGED <<snaps, durable>>
    BY <1>10 DEF ActivateBegin, RollbackBegin, OtherRequest, ActivateFails, QueueSchema,
       RegisterBinding, PublishActivated, AnswerOverSocket, GetPending, ClearPending,
       LoadBegin, LoadSchema, store
  <2>2. call'[t].op # "save"
    <3>1. CASE \E id \in Ids : ActivateBegin(t, id)
      BY <1>1, <3>1 DEF ActivateBegin
    <3>2. CASE \E tn \in Tenants : RollbackBegin(t, tn)
      BY <1>1, <3>2 DEF RollbackBegin
    <3>3. CASE OtherRequest(t) \/ ActivateFails(t) \/ PublishActivated(t)
      BY <1>6, <3>3 DEF OtherRequest, ActivateFails, PublishActivated
    <3>4. CASE QueueSchema(t)
      BY <1>1, <1>6, <3>4 DEF QueueSchema
    <3>5. CASE RegisterBinding(t)
      BY <1>1, <1>6, <3>5 DEF RegisterBinding
    <3>6. CASE AnswerOverSocket(t) \/ GetPending(t) \/ LoadSchema(t)
      BY <1>1, <3>6 DEF AnswerOverSocket, GetPending, LoadSchema, Idle
    <3>7. CASE ClearPending(t) \/ LoadBegin(t)
      BY <1>1, <3>7 DEF ClearPending, LoadBegin
    <3> QED
      BY <1>10, <3>1, <3>2, <3>3, <3>4, <3>5, <3>6, <3>7
  <2> QED
    BY <1>1, <1>5, <2>1, <2>2
<1> QED
  BY <1>7, <1>8, <1>9, <1>10 DEF Begin, Continue

\* The types hold at first.
LEMMA TypesInit == Init => TInv
<1> SUFFICES ASSUME Init PROVE TInv
  OBVIOUS
<1> USE Numbers
<1>1. CInv /\ snaps \in Seq(Row) /\ durable \in Seq(Row) /\ now \in 0..MaxTime /\ txn \in BOOLEAN
  BY ConfigInit DEF CInv, Tables
<1>2. durable = snaps /\ Len(snaps) \in Nat /\ Len(snaps) <= MaxSnapshots
  BY StoresTyped DEF Init
<1>3. Saving = {}
  BY DEF Init, Saving, AllIdle, Idle
<1>4. call \in [Threads -> Call]
  BY DEF Init, AllIdle, Call
<1>5. disturbed \in BOOLEAN
  BY Zenon DEF Init
<1>6. /\ pending \in Ids \cup {0} /\ bound \in Ids \cup {0}
      /\ loaded \in [Tenants -> Ids \cup {0}] /\ announced \in [Tenants -> Ids \cup {0}]
      /\ faults \in 0..MaxFaults /\ restarts \in 0..MaxRestarts
  BY DEF Init
<1>7. activations \in [Tenants -> Seq(Ids)]
  BY DEF Init
<1>8. WithinBound
  BY <1>2, <1>3, FS_EmptySet DEF WithinBound
<1> QED
  BY <1>1, <1>2, <1>4, <1>5, <1>6, <1>7, <1>8 DEF TInv, TypeOK

\* Every step keeps the types.
LEMMA TypesStep == TInv /\ [Next]_vars => TInv'
<1> SUFFICES ASSUME TInv, [Next]_vars PROVE TInv'
  OBVIOUS
<1> USE Numbers
<1>1. /\ CInv' /\ snaps' \in Seq(Row) /\ durable' \in Seq(Row) /\ now' \in 0..MaxTime
      /\ txn' \in BOOLEAN
  BY ConfigStep DEF TInv, CInv, Tables
<1>2. disturbed' \in BOOLEAN
  <2>1. CASE Next
    BY <2>1, Zenon DEF Next
  <2>2. CASE UNCHANGED vars
    BY <2>2 DEF vars, TInv, TypeOK
  <2> QED
    BY <2>1, <2>2
<1>3. ASSUME NEW t \in Threads, Begin(t) \/ Continue(t) PROVE TInv'
  <2>1. call' \in [Threads -> Call]
    BY <1>3, CallTyped
  <2>2. WithinBound' /\ Len(snaps') <= MaxSnapshots /\ Len(durable') <= Len(snaps')
    BY <1>3, BoundKept
  <2>3. /\ pending' \in Ids \cup {0} /\ bound' \in Ids \cup {0}
        /\ loaded' \in [Tenants -> Ids \cup {0}]
        /\ announced' \in [Tenants -> Ids \cup {0}]
        /\ activations' \in [Tenants -> Seq(Ids)]
        /\ faults' \in 0..MaxFaults /\ restarts' = restarts
    BY <1>3, MemoryTyped
  <2>4. restarts' \in 0..MaxRestarts
    BY <2>3 DEF TInv, TypeOK
  <2> QED
    BY <1>1, <1>2, <2>1, <2>2, <2>3, <2>4 DEF TInv, TypeOK
<1>4. CASE Restart
  <2>1. /\ call' = AllIdle /\ snaps' = durable /\ durable' = durable
        /\ pending' = 0 /\ bound' = 0 /\ loaded' = [tn \in Tenants |-> 0]
        /\ announced' = [tn \in Tenants |-> 0] /\ activations' = [tn \in Tenants |-> <<>>]
        /\ faults' = faults /\ restarts < MaxRestarts /\ restarts' = restarts + 1
    BY <1>4 DEF Restart
  <2>2. call' \in [Threads -> Call] /\ Saving' = {}
    BY <2>1 DEF AllIdle, Idle, Call, Saving
  <2>3. /\ Len(durable) \in Nat /\ Len(snaps) \in Nat /\ Len(durable) <= Len(snaps)
        /\ Len(snaps) <= MaxSnapshots
        /\ restarts \in 0..MaxRestarts /\ faults \in 0..MaxFaults
    BY DEF TInv, TypeOK
  <2>4. WithinBound' /\ Len(snaps') <= MaxSnapshots /\ Len(durable') <= Len(snaps')
    BY <2>1, <2>2, <2>3, FS_EmptySet DEF WithinBound
  <2>5. /\ pending' \in Ids \cup {0} /\ bound' \in Ids \cup {0}
        /\ loaded' \in [Tenants -> Ids \cup {0}] /\ announced' \in [Tenants -> Ids \cup {0}]
        /\ faults' \in 0..MaxFaults /\ restarts' \in 0..MaxRestarts
    BY <2>1, <2>3
  <2>6. activations' \in [Tenants -> Seq(Ids)]
    BY <2>1
  <2> QED
    BY <1>1, <1>2, <2>2, <2>4, <2>5, <2>6 DEF TInv, TypeOK
<1>5. CASE Tick \/ UNCHANGED vars
  <2>1. UNCHANGED <<store, memory, faults, restarts, call>>
    BY <1>5 DEF Tick, vars, bounds
  <2>2. Saving' = Saving
    BY <2>1 DEF Saving
  <2> QED
    BY <1>1, <1>2, <2>1, <2>2 DEF TInv, TypeOK, WithinBound, store, memory
<1> QED
  BY <1>3, <1>4, <1>5 DEF Next, Step

\* The store, in every state and for any number of requests, failures and restarts: the
\* tables stay within their bound and hold rows, every request in progress names a row
\* that may exist, and no tenant has two active snapshots.
THEOREM StoreIsSound == Spec => []StoreInv
<1>1. Spec => []TInv
  BY TypesInit, TypesStep, PTL DEF Spec
<1>2. TInv => TypeOK
  BY DEF TInv
<1> QED
  BY <1>1, <1>2, ActiveIsUnique, PTL DEF StoreInv

\* What the tables' updates do to the active rows.
LEMMA ActiveAfterAppend ==
    ASSUME NEW s \in Seq(Row), NEW r \in Row, NEW tn
    PROVE  ActiveRows(s, tn) \subseteq ActiveRows(Append(s, r), tn)
<1>1. Len(s) \in Nat /\ Len(Append(s, r)) = Len(s) + 1
  OBVIOUS
<1>2. \A i \in 1..Len(s) : i \in 1..(Len(s) + 1) /\ Append(s, r)[i] = s[i]
  BY <1>1
<1> QED
  BY <1>1, <1>2 DEF ActiveRows, Rows

\* activate_config_snapshot makes its row the active one of its tenant.
LEMMA ActiveAfterActivation ==
    ASSUME NEW s \in Seq(Row), NEW id \in 1..Len(s), Single(s)
    PROVE  /\ Len(Activated(s, id)) = Len(s)
           /\ Activated(s, id)[id].active
           /\ Activated(s, id)[id].tenant = s[id].tenant
           /\ \A tn : tn # s[id].tenant => ActiveRows(Activated(s, id), tn) = ActiveRows(s, tn)
<1> DEFINE a == Activated(s, id)
<1>1. Len(a) = Len(s)
  BY ActivatedRows
<1>2. \A i \in 1..Len(s) :
        a[i] = IF i = id THEN [s[i] EXCEPT !.active = TRUE]
               ELSE IF s[i].tenant = s[id].tenant THEN [s[i] EXCEPT !.active = FALSE]
               ELSE s[i]
  BY DEF Activated
<1>3. \A i \in 1..Len(s) : s[i] \in Row
  OBVIOUS
<1>4. \A i \in 1..Len(s) :
        /\ a[i].tenant = s[i].tenant
        /\ i = id => a[i].active
        /\ s[i].tenant # s[id].tenant => a[i] = s[i]
  BY <1>2, <1>3 DEF Row
<1> HIDE DEF a
<1>5. ASSUME NEW tn, tn # s[id].tenant PROVE ActiveRows(a, tn) = ActiveRows(s, tn)
  BY <1>1, <1>4, <1>5 DEF ActiveRows, Rows
<1> QED
  BY <1>1, <1>4, <1>5 DEF a

\* Two requests in progress disturb each other.
LEMMA OneAtATime ==
    ASSUME ~(Cardinality({t \in Threads : call'[t] # Idle}) > 1)
    PROVE  OneRequest'
<1> DEFINE B == {t \in Threads : call'[t] # Idle}
<1> SUFFICES ASSUME NEW t \in B, NEW u \in B, t # u PROVE FALSE
  BY DEF OneRequest
<1>1. IsFiniteSet(B) /\ Cardinality(B) \in Nat
  <2>1. IsFiniteSet(Threads) /\ B \subseteq Threads
    BY ConfigAssumption
  <2> QED
    BY <2>1, FS_Subset, FS_CardinalityType
<1>2. IsFiniteSet({t}) /\ Cardinality({t}) = 1
  BY FS_Singleton
<1>3. Cardinality({t} \cup {u}) = 2
  BY <1>2, FS_AddElement
<1>4. {t} \cup {u} \subseteq B
  OBVIOUS
<1>5. Cardinality({t} \cup {u}) <= Cardinality(B)
  BY <1>1, <1>4, FS_Subset
<1>6. ~(Cardinality(B) > 1)
  OBVIOUS
<1> HIDE DEF B
<1> QED
  BY <1>1, <1>3, <1>5, <1>6

\* What is due when t's is the only request.
DueOf(c) ==
    (IF pending # 0 THEN {pending} ELSE {})
      \cup (IF c.op \in {"queue", "load", "loading"} THEN {c.id} ELSE {})

Queued(c) ==
    /\ c.op \in {"save", "activate", "queue", "load", "loading"} => pending = 0
    /\ c.op \in {"bind", "publish", "clear"} => pending = c.id
    /\ c = Idle => pending = 0

Alone(t) == \A u \in Threads : u # t => call[u] = Idle

\* With one request in progress, what is due is what it carries or has queued.
LEMMA AloneReads ==
    ASSUME NEW t \in Threads, Alone(t), Undisturbed
    PROVE  /\ \A i \in DueOf(call[t]) : i \in 1..Len(snaps) /\ snaps[i].active
           /\ \A tn \in Tenants : activations[tn] # <<>> =>
                 \/ loaded[tn] \in ActiveRows(snaps, tn)
                 \/ \E i \in DueOf(call[t]) : snaps[i].tenant = tn
           /\ Queued(call[t]) /\ ~txn
<1>1. \A u \in Threads : u # t => call[u].op = "idle"
  BY DEF Alone, Idle
<1>2. \A i : Due(i) <=> i \in DueOf(call[t])
  BY <1>1 DEF Due, DueOf
<1>3. Queued(call[t])
  BY <1>1 DEF Alone, Undisturbed, QueueFits, Queued
<1> QED
  BY <1>2, <1>3 DEF Undisturbed, DueIsActive, LoadedOrDue

\* The same read backwards, after a step: enough to conclude that nothing is disturbed.
LEMMA AloneWrites ==
    ASSUME NEW t \in Threads, Alone(t)', OneRequest', ~txn',
           \A i \in DueOf(call[t])' : i \in 1..Len(snaps') /\ snaps'[i].active,
           \A tn \in Tenants : activations'[tn] # <<>> =>
                 \/ loaded'[tn] \in ActiveRows(snaps, tn)'
                 \/ \E i \in DueOf(call[t])' : snaps'[i].tenant = tn,
           Queued(call[t])'
    PROVE  Undisturbed'
<1>1. \A u \in Threads : u # t => call'[u].op = "idle"
  BY DEF Alone, Idle
<1>2. \A i : Due(i)' <=> i \in DueOf(call[t])'
  BY <1>1 DEF Due, DueOf
<1>3. QueueFits'
  BY <1>1 DEF QueueFits, Queued
<1>4. DueIsActive'
  BY <1>2 DEF DueIsActive
<1>5. LoadedOrDue'
  BY <1>2, <1>4 DEF LoadedOrDue, DueIsActive
<1> QED
  BY <1>3, <1>4, <1>5 DEF Undisturbed

\* A request that nothing disturbs is the only one before and after each of its steps.
LEMMA AloneStep ==
    ASSUME TInv, TInv', Undisturbed, ~Disturbs, NEW t \in Threads, Begin(t) \/ Continue(t)
    PROVE  Alone(t) /\ Alone(t)'
<1>1. OneRequest'
  BY OneAtATime DEF Disturbs
<1>2. call \in [Threads -> Call] /\ call' \in [Threads -> Call]
  BY DEF TInv, TypeOK
<1>3. \A u \in Threads : u # t => call'[u] = call[u]
  BY <1>2 DEF Begin, Continue, ApplyCheck, ActivateBegin, RollbackBegin, OtherRequest,
     ApplySave, ActivateStore, ActivateFails, CommitFails, QueueSchema, RegisterBinding,
     PublishActivated, AnswerOverSocket, GetPending, ClearPending, LoadBegin, LoadSchema,
     Answer, Succeed, Fail, Submit
<1>4. CASE Begin(t)
  <2>1. call'[t].op # "idle"
    BY <1>2, <1>4 DEF Begin, ApplyCheck, ActivateBegin, RollbackBegin, OtherRequest,
       Answer, Succeed, Fail, Submit
  <2>2. call'[t] # Idle
    BY <2>1 DEF Idle
  <2> QED
    BY <1>1, <1>3, <2>2 DEF OneRequest, Alone
<1>5. CASE Continue(t)
  <2>1. call[t].op # "idle"
    BY <1>5 DEF Continue, ApplySave, ActivateStore, ActivateFails, CommitFails,
       QueueSchema, RegisterBinding, PublishActivated, AnswerOverSocket, GetPending,
       ClearPending, LoadBegin, LoadSchema
  <2>2. call[t] # Idle
    BY <2>1 DEF Idle
  <2> QED
    BY <1>3, <2>2 DEF Undisturbed, OneRequest, Alone
<1> QED
  BY <1>4, <1>5

\* A step of a request that nothing disturbs.
LEMMA UndisturbedStep ==
    ASSUME TInv, TInv', Undisturbed, ~Disturbs, faults' = 0, faults = 0,
           NEW t \in Threads, Begin(t) \/ Continue(t)
    PROVE  Undisturbed'
<1>1. OneRequest'
  BY OneAtATime DEF Disturbs
<1>2. /\ call \in [Threads -> Call] /\ call' \in [Threads -> Call]
      /\ loaded \in [Tenants -> Ids \cup {0}]
      /\ snaps \in Seq(Row) /\ Single(snaps) /\ Len(snaps) \in Nat
  BY DEF TInv, TypeOK, CInv
<1>3. ~Fault
  BY DEF Fault
<1>4. Alone(t) /\ Alone(t)'
  BY AloneStep
<1>5. /\ \A i \in DueOf(call[t]) : i \in 1..Len(snaps) /\ snaps[i].active
      /\ \A tn \in Tenants : activations[tn] # <<>> =>
            \/ loaded[tn] \in ActiveRows(snaps, tn)
            \/ \E i \in DueOf(call[t]) : snaps[i].tenant = tn
      /\ Queued(call[t]) /\ ~txn
  BY <1>4, AloneReads
\* Where the tables and the loaded schemas stay, only what is due counts.
<1>6. ASSUME UNCHANGED <<snaps, txn, loaded, activations>>,
             DueOf(call[t])' = DueOf(call[t]), Queued(call[t])'
      PROVE  Undisturbed'
  <2>1. \A tn : ActiveRows(snaps, tn)' = ActiveRows(snaps, tn)
    BY <1>6 DEF ActiveRows, Rows
  <2> QED
    BY <1>1, <1>4, <1>5, <1>6, <2>1, AloneWrites
<1>7. ASSUME NEW id, Fail(t, id) \/ Succeed(t) PROVE call'[t].op = "drain" /\ call'[t] # Idle
  BY <1>2, <1>7 DEF Fail, Succeed, Answer, Idle
\* A request that goes on to another place keeps its row.
<1>g. ASSUME NEW op, call' = [call EXCEPT ![t].op = op],
             call[t].op \in {"queue", "bind", "publish", "clear", "load"}
      PROVE  call'[t].op = op /\ call'[t].id = call[t].id
  <2>1. call'[t] = [call[t] EXCEPT !.op = op]
    BY <1>2, <1>g
  <2>2. \/ call[t] \in [op : {"activate", "queue", "bind", "publish"},
                        by : {"activate", "rollback"}, id : Ids, changed : BOOLEAN]
        \/ call[t] \in [op : {"clear", "load", "loading"}, id : Ids]
    <3>1. call[t] \in Call
      BY <1>2
    <3> QED
      BY <1>g, <3>1 DEF Call, Idle
  <2>3. CASE call[t] \in [op : {"clear", "load", "loading"}, id : Ids]
    BY <2>1, <2>3
  <2>4. CASE call[t] \in [op : {"activate", "queue", "bind", "publish"},
                          by : {"activate", "rollback"}, id : Ids, changed : BOOLEAN]
    BY <2>1, <2>4
  <2> QED
    BY <2>2, <2>3, <2>4
<1>z. call[t].op \in {"queue", "clear"} => call[t].id # 0
  <2>1. call[t] \in Call
    BY <1>2
  <2>2. call[t].op \in {"queue", "clear"} => call[t].id \in Ids
    BY <2>1, CallShape
  <2>3. 0 \notin Ids
    BY DEF Ids
  <2> QED
    BY <2>2, <2>3
<1> USE DEF store, memory, bounds
<1>8. CASE Begin(t)
  <2>1. /\ UNCHANGED <<snaps, txn, loaded, activations, pending>> /\ call[t] = Idle
        /\ call'[t].op \in {"save", "activate", "drain"}
    BY <1>2, <1>8 DEF Begin, ApplyCheck, ActivateBegin, RollbackBegin, OtherRequest,
       Answer, Succeed, Fail, Submit
  <2>2. pending = 0 /\ call'[t] # Idle /\ call[t].op = "idle"
    BY <1>5, <2>1 DEF Queued, Idle
  <2>3. DueOf(call[t])' = DueOf(call[t]) /\ Queued(call[t])'
    BY <2>1, <2>2 DEF DueOf, Queued
  <2> QED
    BY <1>6, <2>1, <2>3
<1>9. CASE ApplySave(t)
  <2>1. PICK row \in Row : snaps' = Append(snaps, row)
    <3> DEFINE row == [tenant |-> call[t].tenant, version |-> call[t].version,
                       content |-> call[t].content, created |-> now, active |-> FALSE]
    <3>1. row \in Row
      BY <1>9 DEF ApplySave, TInv, CInv, Tables, Requests, SaveTyped, Row
    <3>2. snaps' = Append(snaps, row)
      BY <1>3, <1>9 DEF ApplySave
    <3> QED
      BY <3>1, <3>2
  <2>2. /\ UNCHANGED <<txn, loaded, activations, pending>>
        /\ call[t].op = "save" /\ call'[t].op = "drain" /\ call'[t] # Idle
    BY <1>7, <1>9 DEF ApplySave
  <2>3. pending = 0 /\ DueOf(call[t]) = {} /\ DueOf(call[t])' = {} /\ Queued(call[t])'
    BY <1>5, <2>2 DEF DueOf, Queued
  <2>4. \A tn : ActiveRows(snaps, tn) \subseteq ActiveRows(snaps, tn)'
    BY <1>2, <2>1, ActiveAfterAppend
  <2> QED
    BY <1>1, <1>4, <1>5, <2>2, <2>3, <2>4, AloneWrites
<1>10. CASE ActivateStore(t)
  <2> DEFINE id == call[t].id
  <2>1. /\ call[t].op = "activate" /\ id \in 1..Len(snaps)
        /\ snaps' = Activated(snaps, id)
        /\ UNCHANGED <<txn, loaded, pending>>
        /\ call'[t].op = "queue" /\ call'[t].id = id /\ call'[t] # Idle
        /\ \A tn \in Tenants : tn # snaps[id].tenant => activations'[tn] = activations[tn]
    <3>1. call[t].op = "activate" /\ id \in 1..Len(snaps)
      BY <1>10 DEF ActivateStore, TInv, CInv, Requests
    <3>2. snaps' = Activated(snaps, id) /\ UNCHANGED <<txn, loaded, pending>>
      BY <1>10 DEF ActivateStore
    <3>3. call'[t] = [call[t] EXCEPT !.op = "queue", !.changed = snaps' # snaps]
      BY <1>2, <1>10 DEF ActivateStore
    <3>4. call[t] \in [op : {"activate", "queue", "bind", "publish"},
                       by : {"activate", "rollback"}, id : Ids, changed : BOOLEAN]
      BY <1>2, <3>1 DEF Call, Idle
    <3>5. call'[t].op = "queue" /\ call'[t].id = id
      BY <3>3, <3>4
    <3>6. call'[t] # Idle
      BY <3>5 DEF Idle
    <3>7. \A tn \in Tenants : tn # snaps[id].tenant => activations'[tn] = activations[tn]
      BY <1>10 DEF ActivateStore, TInv, TypeOK
    <3> QED
      BY <3>1, <3>2, <3>5, <3>6, <3>7
  <2> HIDE DEF id
  <2>2. pending = 0 /\ DueOf(call[t]) = {} /\ DueOf(call[t])' = {id} /\ Queued(call[t])'
    BY <1>5, <2>1 DEF DueOf, Queued
  <2>3. /\ Len(snaps') = Len(snaps) /\ snaps'[id].active /\ snaps'[id].tenant = snaps[id].tenant
        /\ \A tn : tn # snaps[id].tenant => ActiveRows(snaps, tn)' = ActiveRows(snaps, tn)
    BY <1>2, <2>1, ActiveAfterActivation
  <2> QED
    BY <1>1, <1>4, <1>5, <2>1, <2>2, <2>3, AloneWrites
<1>11. CASE ActivateFails(t) \/ CommitFails(t)
  BY <1>3, <1>5, <1>11 DEF ActivateFails, CommitFails
<1>12. CASE QueueSchema(t)
  <2>1. /\ call[t].op = "queue" /\ pending' = call[t].id /\ pending = 0
        /\ UNCHANGED <<snaps, txn, loaded, activations>>
    BY <1>5, <1>12 DEF QueueSchema, Queued
  <2>2. \/ call'[t].op = "bind" /\ call'[t].id = call[t].id
        \/ call'[t].op = "drain"
    BY <1>7, <1>12, <1>g DEF QueueSchema
  <2>3. call[t].id # 0 /\ call'[t] # Idle
    BY <1>z, <2>1, <2>2 DEF Idle
  <2>4. DueOf(call[t])' = DueOf(call[t]) /\ Queued(call[t])'
    BY <2>1, <2>2, <2>3 DEF DueOf, Queued
  <2> QED
    BY <1>6, <2>1, <2>4
<1>13. CASE RegisterBinding(t) \/ PublishActivated(t)
  <2>1. /\ call[t].op \in {"bind", "publish"} /\ pending' = pending /\ pending = call[t].id
        /\ UNCHANGED <<snaps, txn, loaded, activations>>
    BY <1>5, <1>13 DEF RegisterBinding, PublishActivated, Queued
  <2>2. \/ call'[t].op = "publish" /\ call'[t].id = call[t].id
        \/ call'[t].op = "drain"
    BY <1>7, <1>13, <1>g DEF RegisterBinding, PublishActivated
  <2>3. call'[t] # Idle
    BY <2>2 DEF Idle
  <2>4. DueOf(call[t])' = DueOf(call[t]) /\ Queued(call[t])'
    BY <2>1, <2>2, <2>3 DEF DueOf, Queued
  <2> QED
    BY <1>6, <2>1, <2>4
<1>14. CASE AnswerOverSocket(t) \/ GetPending(t)
  <2>1. call[t].op = "drain" /\ UNCHANGED <<snaps, txn, loaded, activations, pending>>
    BY <1>14 DEF AnswerOverSocket, GetPending
  <2>2. \/ call'[t] = Idle
        \/ call'[t] = [op |-> "clear", id |-> pending]
    BY <1>2, <1>14 DEF AnswerOverSocket, GetPending
  <2>3. call'[t] = Idle => pending' = 0
    BY <2>1 DEF Disturbs
  <2>4. call'[t].op \in {"idle", "clear"} /\ (call'[t].op = "clear" => call'[t].id = pending)
    BY <2>2 DEF Idle
  <2>5. DueOf(call[t])' = DueOf(call[t]) /\ Queued(call[t])'
    BY <2>1, <2>3, <2>4 DEF DueOf, Queued
  <2> QED
    BY <1>6, <2>1, <2>5
<1>15. CASE ClearPending(t)
  <2>1. /\ call[t].op = "clear" /\ pending' = 0 /\ pending = call[t].id
        /\ UNCHANGED <<snaps, txn, loaded, activations>>
        /\ call'[t].op = "load" /\ call'[t].id = call[t].id
    BY <1>5, <1>15, <1>g DEF ClearPending, Queued
  <2>2. call[t].id # 0 /\ call'[t] # Idle
    BY <1>z, <2>1 DEF Idle
  <2>3. DueOf(call[t])' = DueOf(call[t]) /\ Queued(call[t])'
    BY <2>1, <2>2 DEF DueOf, Queued
  <2> QED
    BY <1>6, <2>1, <2>3
<1>16. CASE LoadBegin(t)
  <2>1. /\ call[t].op = "load" /\ pending' = pending
        /\ UNCHANGED <<snaps, txn, loaded, activations>>
        /\ call'[t].op = "loading" /\ call'[t].id = call[t].id
    BY <1>2, <1>16 DEF LoadBegin
  <2>2. DueOf(call[t])' = DueOf(call[t]) /\ Queued(call[t])'
    BY <1>5, <2>1 DEF DueOf, Queued, Idle
  <2> QED
    BY <1>6, <2>1, <2>2
<1>17. CASE LoadSchema(t)
  <2> DEFINE id == call[t].id
             tn == snaps[id].tenant
  <2>1. /\ call[t].op = "loading" /\ call'[t] = Idle /\ UNCHANGED <<snaps, txn, activations, pending>>
        /\ loaded' = loaded \/ loaded' = [loaded EXCEPT ![tn] = id]
    BY <1>2, <1>17 DEF LoadSchema
  <2>2. loaded'[tn] = id
    BY <2>1 DEF Disturbs
  <2> HIDE DEF tn, id
  <2>3. pending = 0 /\ DueOf(call[t]) = {id} /\ DueOf(call[t])' = {} /\ Queued(call[t])'
    BY <1>5, <2>1 DEF DueOf, Queued, Idle, id
  <2>4. id \in ActiveRows(snaps, tn)
    BY <1>5, <2>3 DEF ActiveRows, Rows, tn
  <2>5. \A x \in Tenants : x # tn => loaded'[x] = loaded[x]
    BY <1>2, <2>1
  <2>6. \A x : ActiveRows(snaps, x)' = ActiveRows(snaps, x)
    BY <2>1 DEF ActiveRows, Rows
  <2>7. \A x \in Tenants : activations'[x] # <<>> => loaded'[x] \in ActiveRows(snaps, x)'
    BY <1>5, <2>1, <2>2, <2>3, <2>4, <2>5, <2>6 DEF tn
  <2> QED
    BY <1>1, <1>4, <1>5, <2>1, <2>3, <2>7, AloneWrites
<1> QED
  BY <1>8, <1>9, <1>10, <1>11, <1>12, <1>13, <1>14, <1>15, <1>16, <1>17 DEF Continue

\* The service starts with nothing in progress.
LEMMA UndisturbedInit == Init => LInv
<1> SUFFICES ASSUME Init PROVE Undisturbed
  BY DEF LInv
<1>1. call = AllIdle /\ pending = 0 /\ \A t \in Threads : call[t] = Idle /\ call[t].op = "idle"
  BY DEF Init, AllIdle, Idle
<1>2. OneRequest /\ QueueFits
  BY <1>1 DEF OneRequest, QueueFits
<1>3. DueIsActive
  BY <1>1 DEF DueIsActive, Due
<1>4. LoadedOrDue /\ ~txn
  BY DEF Init, LoadedOrDue
<1> QED
  BY <1>2, <1>3, <1>4 DEF Undisturbed

\* Failures of the store are counted.
LEMMA FaultsGrow ==
    ASSUME NEW t \in Threads, Begin(t) \/ Continue(t)
    PROVE  faults' = faults \/ faults' = faults + 1
  BY DEF Begin, Continue, ApplyCheck, ActivateBegin, RollbackBegin, OtherRequest,
     ApplySave, ActivateStore, ActivateFails, CommitFails, QueueSchema, RegisterBinding,
     PublishActivated, AnswerOverSocket, GetPending, ClearPending, LoadBegin, LoadSchema,
     Fault, bounds

\* Every step keeps what holds while nothing disturbs the requests.
LEMMA UndisturbedKept == TInv /\ LInv /\ [Next]_vars => LInv'
<1> SUFFICES ASSUME TInv, LInv, [Next]_vars, ~disturbed', faults' = 0 PROVE Undisturbed'
  BY DEF LInv
<1>1. TInv'
  BY TypesStep
<1>2. faults \in Nat
  BY ConfigAssumption DEF TInv, TypeOK
<1>3. ASSUME NEW t \in Threads, Begin(t) \/ Continue(t), Next PROVE Undisturbed'
  <2>1. ~disturbed /\ ~Disturbs
    BY <1>3, Zenon DEF Next
  <2>2. faults' = faults \/ faults' = faults + 1
    BY <1>3, FaultsGrow
  <2>3. faults = 0
    BY <1>2, <2>2
  <2> QED
    BY <1>1, <1>3, <2>1, <2>3, UndisturbedStep DEF LInv
<1>4. CASE Restart
  <2>1. /\ call' = AllIdle /\ pending' = 0 /\ txn' = FALSE
        /\ activations' = [tn \in Tenants |-> <<>>]
    BY <1>4 DEF Restart
  <2>2. \A t \in Threads : call'[t] = Idle /\ call'[t].op = "idle"
    BY <2>1 DEF AllIdle, Idle
  <2>3. OneRequest' /\ QueueFits'
    BY <2>1, <2>2 DEF OneRequest, QueueFits
  <2>4. DueIsActive'
    BY <2>1, <2>2 DEF DueIsActive, Due
  <2>5. LoadedOrDue' /\ ~txn'
    BY <2>1 DEF LoadedOrDue
  <2> QED
    BY <2>3, <2>4, <2>5 DEF Undisturbed
<1>5. CASE (Tick /\ Next) \/ UNCHANGED vars
  <2>1. UNCHANGED <<snaps, txn, call, pending, loaded, activations, faults>>
    BY <1>5 DEF Tick, vars, store, memory, bounds
  <2>2. ~disturbed
    <3>1. CASE Next
      BY <3>1, Zenon DEF Next
    <3>2. CASE UNCHANGED vars
      BY <3>2 DEF vars
    <3> QED
      BY <1>5, <3>1, <3>2
  <2>3. Undisturbed
    BY <2>1, <2>2 DEF LInv
  <2>4. \A i : Due(i)' <=> Due(i)
    BY <2>1 DEF Due
  <2>5. \A tn : ActiveRows(snaps, tn)' = ActiveRows(snaps, tn)
    BY <2>1 DEF ActiveRows, Rows
  <2> QED
    BY <2>1, <2>3, <2>4, <2>5 DEF Undisturbed, OneRequest, DueIsActive, LoadedOrDue, QueueFits
<1> QED
  BY <1>3, <1>4, <1>5 DEF Next, Step

\* The tail of execute_graphql (Server.cpp) and the resolvers of activateSnapshot and
\* rollbackConfiguration: over HTTP, with requests that do not overlap, no failure of the
\* store and no schema refused, the SDL that was loaded last for a tenant is that of its
\* active snapshot whenever no request is in progress; however many tenants and
\* snapshots there are, and across restarts.
THEOREM ActiveIsLoaded == Spec => []LoadedIsActive
<1>1. LInv => LoadedIsActive
  <2> SUFFICES ASSUME LInv, Quiet, ~disturbed, faults = 0, NEW tn \in Tenants,
                      activations[tn] # <<>>
               PROVE  loaded[tn] \in ActiveRows(snaps, tn)
    BY DEF LoadedIsActive
  <2>1. \A t \in Threads : call[t] = Idle /\ call[t].op = "idle"
    BY DEF Quiet, AllIdle, Idle
  <2>2. \A i : ~Due(i)
    BY <2>1 DEF LInv, Undisturbed, QueueFits, Due
  <2> QED
    BY <2>2 DEF LInv, Undisturbed, LoadedOrDue
<1>2. Spec => []TInv
  BY TypesInit, TypesStep, PTL DEF Spec
<1> QED
  BY UndisturbedInit, UndisturbedKept, <1>1, <1>2, PTL DEF Spec

-----------------------------------------------------------------------------
(* The row a rollback restores                                             *)

\* created_at counts seconds.
LEMMA CreatedTyped ==
    ASSUME snaps \in Seq(Row)
    PROVE  \A x \in 1..Len(snaps) : snaps[x].created \in Nat
<1>1. \A x \in 1..Len(snaps) : snaps[x] \in Row
  OBVIOUS
<1>2. \A row \in Row : row.created \in Nat
  BY ConfigAssumption DEF Row
<1> QED
  BY <1>1, <1>2, Zenon

\* A listing shows every row of the tenant once.
LEMMA ListingIsComplete ==
    ASSUME snaps \in Seq(Row), NEW tn \in Tenants, NEW q \in Listings(tn)
    PROVE  \E m \in Nat :
              /\ Len(q) = m
              /\ q \in [1..m -> Rows(snaps, tn)]
              /\ \A i, j \in 1..m : i # j => q[i] # q[j]
              /\ \A x \in Rows(snaps, tn) : \E i \in 1..m : q[i] = x
              /\ \A i, j \in 1..m : i < j => snaps[q[i]].created >= snaps[q[j]].created
<1> DEFINE R == Rows(snaps, tn)
<1>1. IsFiniteSet(R)
  <2>1. Len(snaps) \in Nat /\ R \subseteq 1..Len(snaps)
    BY DEF Rows
  <2>2. IsFiniteSet(1..Len(snaps))
    BY <2>1, FS_Interval
  <2> QED
    BY <2>1, <2>2, FS_Subset
<1> HIDE DEF R
<1>2. PICK m \in Nat : m = Cardinality(R)
  BY <1>1, FS_CardinalityType
<1>3. /\ q \in [1..m -> R]
      /\ \A i, j \in 1..m : i # j => q[i] # q[j]
  BY <1>2 DEF Listings, SetToSeqs, R
<1>4. Len(q) = m
  BY <1>3
<1>5. \A x \in R : \E i \in 1..m : q[i] = x
  <2>1. q \in Injection(1..m, R)
    BY <1>3 DEF Injection, IsInjective
  <2>2. IsFiniteSet(1..m) /\ Cardinality(1..m) = m
    <3>1. 1 \in Int /\ m \in Int
      OBVIOUS
    <3>2. IsFiniteSet(1..m) /\ Cardinality(1..m) = IF 1 > m THEN 0 ELSE m - 1 + 1
      BY <3>1, FS_Interval, Zenon
    <3> QED
      BY <3>2
  <2>3. q \in Surjection(1..m, R)
    BY <1>1, <1>2, <2>1, <2>2, FS_Injection
  <2> QED
    BY <2>3 DEF Surjection
<1>6. \A i, j \in 1..m : i < j => snaps[q[i]].created >= snaps[q[j]].created
  BY <1>4 DEF Listings
<1> QED
  BY <1>3, <1>4, <1>5, <1>6 DEF R

\* Where the rows of a tenant were activated in the order of their creation and the last
\* one is active, the row after the active one in a listing is the one activated before.
LEMMA NextIsPrevious ==
    ASSUME snaps \in Seq(Row), Single(snaps), NEW tn \in Tenants,
           NEW q \in Listings(tn), Len(q) >= 2,
           NEW acts \in Seq(Nat), Len(acts) > 1, ToSet(acts) = Rows(snaps, tn),
           \A i, j \in 1..Len(acts) : i < j => snaps[acts[i]].created < snaps[acts[j]].created,
           snaps[acts[Len(acts)]].active
    PROVE  RollbackTarget(q) = acts[Len(acts) - 1]
<1>1. PICK m \in Nat :
         /\ Len(q) = m
         /\ q \in [1..m -> Rows(snaps, tn)]
         /\ \A i, j \in 1..m : i # j => q[i] # q[j]
         /\ \A x \in Rows(snaps, tn) : \E i \in 1..m : q[i] = x
         /\ \A i, j \in 1..m : i < j => snaps[q[i]].created >= snaps[q[j]].created
  BY ListingIsComplete
<1>2. PICK L \in Nat : L = Len(acts) /\ L > 1
  OBVIOUS
<1>3. PICK a \in Rows(snaps, tn), b \in Rows(snaps, tn) : a = acts[L] /\ b = acts[L - 1]
  <2>1. L \in DOMAIN acts /\ L - 1 \in DOMAIN acts
    BY <1>2
  <2> QED
    BY <2>1 DEF ToSet
<1>4. \A x \in Rows(snaps, tn) : snaps[x].created \in Nat /\ snaps[x].tenant = tn /\ x \in 1..Len(snaps)
  <2>1. \A x \in 1..Len(snaps) : snaps[x].created \in Nat
    BY CreatedTyped, Zenon
  <2> QED
    BY <2>1, Zenon DEF Rows
\* The last row is the newest, the one before it the second newest.
<1>5. \A x \in Rows(snaps, tn) :
         /\ x # a => snaps[x].created < snaps[a].created
         /\ x # a /\ x # b => snaps[x].created < snaps[b].created
  <2> SUFFICES ASSUME NEW x \in Rows(snaps, tn)
               PROVE  /\ x # a => snaps[x].created < snaps[a].created
                      /\ x # a /\ x # b => snaps[x].created < snaps[b].created
    OBVIOUS
  <2>1. PICK i \in 1..L : x = acts[i]
    <3>1. DOMAIN acts = 1..L
      BY <1>2
    <3> QED
      BY <3>1, Zenon DEF ToSet
  <2>2. x # a => i < L
    BY <1>3, <2>1
  <2>3. x # a /\ x # b => i < L - 1
    <3>1. x # b => i # L - 1
      BY <1>3, <2>1, Zenon
    <3> QED
      BY <2>2, <3>1
  <2>4. L \in 1..L /\ L - 1 \in 1..L
    BY <1>2
  <2> QED
    BY <1>2, <1>3, <2>1, <2>2, <2>3, <2>4, Zenon
<1>6. a # b /\ snaps[b].created < snaps[a].created
  <2>1. L \in 1..L /\ L - 1 \in 1..L /\ L - 1 < L
    BY <1>2
  <2>2. snaps[b].created < snaps[a].created
    BY <1>2, <1>3, <2>1, Zenon
  <2>3. snaps[b].created \in Nat /\ snaps[a].created \in Nat
    BY <1>4, Zenon
  <2> QED
    BY <2>2, <2>3
<1>7. q[1] = a
  <2>1. PICK k \in 1..m : q[k] = a
    BY <1>1, Zenon
  <2>2. CASE k = 1
    BY <2>1, <2>2
  <2>3. CASE k # 1
    <3>1. 1 \in 1..m /\ 1 < k
      BY <2>3
    <3>2. q[1] # a /\ q[1] \in Rows(snaps, tn)
      BY <1>1, <2>1, <2>3, <3>1, Zenon
    <3>3. snaps[q[1]].created >= snaps[a].created
      BY <1>1, <2>1, <3>1, Zenon
    <3>4. snaps[q[1]].created < snaps[a].created
      BY <1>5, <3>2, Zenon
    <3>5. snaps[q[1]].created \in Nat /\ snaps[a].created \in Nat
      BY <1>4, <3>2, Zenon
    <3> QED
      BY <3>3, <3>4, <3>5
  <2> QED
    BY <2>2, <2>3
<1>8. q[2] = b
  <2>1. PICK k \in 1..m : q[k] = b
    BY <1>1, Zenon
  <2>2. k # 1
    BY <1>6, <1>7, <2>1
  <2>3. CASE k = 2
    BY <2>1, <2>3
  <2>4. CASE k # 2
    <3>1. 1 \in 1..m /\ 2 \in 1..m /\ 2 < k /\ 1 # 2
      BY <2>2, <2>4
    <3>2. q[2] # a /\ q[2] # b /\ q[2] \in Rows(snaps, tn)
      BY <1>1, <1>7, <2>1, <2>4, <3>1, Zenon
    <3>3. snaps[q[2]].created >= snaps[b].created
      BY <1>1, <2>1, <3>1, Zenon
    <3>4. snaps[q[2]].created < snaps[b].created
      BY <1>5, <3>2, Zenon
    <3>5. snaps[q[2]].created \in Nat /\ snaps[b].created \in Nat
      BY <1>4, <3>2, Zenon
    <3> QED
      BY <3>3, <3>4, <3>5
  <2> QED
    BY <2>3, <2>4
\* Only the first row is active, so that the row after it is the second.
<1> DEFINE inactive == {i \in 1..Len(q) : ~snaps[q[i]].active}
           after == {i \in inactive : \E j \in 1..(i - 1) : snaps[q[j]].active}
           pick == IF after # {} THEN after ELSE inactive
<1>9. /\ snaps[q[1]].active
      /\ \A i \in 1..m : i # 1 => ~snaps[q[i]].active
  <2>1. 1 \in 1..m /\ m >= 2
    BY <1>1
  <2>2. \A i \in 1..m : q[i] \in 1..Len(snaps) /\ snaps[q[i]].tenant = tn
    BY <1>1, <1>4, Zenon
  <2>3. snaps[q[1]].active
    BY <1>2, <1>3, <1>7
  <2>4. ASSUME NEW i \in 1..m, i # 1, snaps[q[i]].active PROVE FALSE
    <3>1. q[i] = q[1]
      BY <2>1, <2>2, <2>3, <2>4, Zenon DEF Single
    <3> QED
      BY <1>1, <2>1, <2>4, <3>1, Zenon
  <2> QED
    BY <2>3, <2>4
<1>10. inactive = 2..m
  <2>1. \A i \in 1..m : i \in 2..m <=> i # 1
    OBVIOUS
  <2>2. 2..m \subseteq 1..m
    OBVIOUS
  <2>3. inactive = {i \in 1..m : ~snaps[q[i]].active}
    BY <1>1, Zenon
  <2>4. \A i \in 1..m : ~snaps[q[i]].active <=> i # 1
    BY <1>9, Zenon
  <2> HIDE DEF inactive
  <2> QED
    BY <2>1, <2>2, <2>3, <2>4, Zenon
<1>11. after = 2..m
  <2>1. after = {i \in 2..m : \E j \in 1..(i - 1) : snaps[q[j]].active}
    BY <1>10, Zenon
  <2>2. \A i \in 2..m : 1 \in 1..(i - 1)
    OBVIOUS
  <2> HIDE DEF after
  <2> QED
    BY <1>9, <2>1, <2>2, Zenon
<1>12. 2 \in 2..m
  BY <1>1
<1>13. pick = 2..m
  BY <1>11, <1>12
<1>14. RollbackTarget(q) = q[Min(pick)]
  BY DEF RollbackTarget
<1> HIDE DEF pick
<1>15. Min(2..m) = 2
  <2>1. \A y \in 2..m : 2 <= y /\ (y <= 2 => y = 2)
    OBVIOUS
  <2> QED
    BY <1>12, <2>1 DEF Min
<1> QED
  BY <1>2, <1>3, <1>8, <1>13, <1>14, <1>15

\* While no statement of the store has failed, the row activated last is active, and a
\* rollback about to activate a row has the one its listing showed: no other request has
\* changed the store since.
LastIsActive ==
    \A tn \in Tenants :
       activations[tn] # <<>> =>
          activations[tn][Len(activations[tn])] \in ActiveRows(snaps, tn)

Targeted(c) ==
    c.op = "activate" /\ c.by = "rollback" =>
       \E tn \in Tenants : \E q \in Listings(tn) : Len(q) >= 2 /\ c.id = RollbackTarget(q)

RInv ==
    ~disturbed /\ faults = 0 => LastIsActive /\ \A t \in Threads : Targeted(call[t])

\* A whole listing as a prefix of itself.
LEMMA WholeListing ==
    ASSUME snaps \in Seq(Row), NEW tn \in Tenants, NEW q \in Listings(tn)
    PROVE  SubSeq(q, 1, Len(q)) = q /\ Len(q) \in Nat
<1>1. PICK m \in Nat : Len(q) = m /\ q \in [1..m -> Rows(snaps, tn)]
  BY ListingIsComplete
<1>2. q \in Seq(Rows(snaps, tn))
  BY <1>1
<1> QED
  BY <1>2

\* A rollback that nothing fails picks its row from the whole listing.
LEMMA TargetSet ==
    ASSUME TInv, ~Fault, NEW t \in Threads, NEW tn \in Tenants, RollbackBegin(t, tn)
    PROVE  Targeted(call[t])'
<1>1. PICK q \in Listings(tn), n \in 2..MaxSnapshots :
         /\ n = Len(q)
         /\ call' = [call EXCEPT ![t] = [op |-> "activate", by |-> "rollback",
                                         id |-> RollbackTarget(SubSeq(q, 1, n)),
                                         changed |-> FALSE]]
  BY DEF RollbackBegin
<1>2. snaps' = snaps /\ snaps \in Seq(Row) /\ call \in [Threads -> Call]
  BY DEF RollbackBegin, store, TInv, TypeOK
<1>3. SubSeq(q, 1, n) = q
  BY <1>1, <1>2, WholeListing
<1>4. call'[t].id = RollbackTarget(q)
  BY <1>1, <1>2, <1>3
<1>5. q \in Listings(tn)' /\ RollbackTarget(q)' = RollbackTarget(q)
  BY <1>2 DEF Listings, Rows, RollbackTarget
<1>6. Len(q) >= 2
  BY <1>1
<1> QED
  BY <1>4, <1>5, <1>6 DEF Targeted

\* The last activation stays the active row through a step that nothing fails.
LEMMA LastActiveStep ==
    ASSUME TInv, TInv', LastIsActive, ~Fault, ~txn, NEW t \in Threads, Begin(t) \/ Continue(t)
    PROVE  LastIsActive'
<1>1. /\ snaps \in Seq(Row) /\ Single(snaps) /\ activations \in [Tenants -> Seq(Ids)]
  BY DEF TInv, TypeOK, CInv
<1> USE DEF store, memory, bounds
<1>2. CASE ActivateStore(t)
  <2>1. call[t].op = "activate" /\ call[t] \in Call
    BY <1>2 DEF ActivateStore, TInv, TypeOK
  <2>2. PICK id \in 1..Len(snaps) : id = call[t].id /\ id \in Ids
    <3>1. call[t].id \in Ids
      BY <2>1, CallShape
    <3> QED
      BY <2>1, <3>1 DEF TInv, CInv, Requests
  <2>3. PICK x \in Tenants : x = snaps[id].tenant
    <3>1. snaps[id] \in Row
      BY <1>1
    <3> QED
      BY <3>1 DEF Row
  <2>a. PICK rest \in Seq(Ids) : rest = RemoveFirst(activations[x], id)
    <3>1. activations[x] \in Seq(Ids)
      BY <1>1
    <3> QED
      BY <3>1, RemoveFirstTyped
  <2>b. /\ snaps' = Activated(snaps, id)
        /\ activations' = [activations EXCEPT ![x] = Append(rest, id)]
    BY <1>2, <2>2, <2>3, <2>a DEF ActivateStore
  <2>4. /\ Len(snaps') = Len(snaps) /\ snaps'[id].active /\ snaps'[id].tenant = x
        /\ \A tn : tn # x => ActiveRows(snaps, tn)' = ActiveRows(snaps, tn)
    BY <1>1, <2>3, <2>b, ActiveAfterActivation
  <2>5. id \in ActiveRows(snaps, x)'
    BY <2>4 DEF ActiveRows, Rows
  <2>6. activations'[x] = Append(rest, id) /\ \A tn \in Tenants : tn # x => activations'[tn] = activations[tn]
    BY <1>1, <2>b
  <2>7. activations'[x][Len(activations'[x])] = id
    BY <2>2, <2>6
  <2> QED
    BY <2>4, <2>5, <2>6, <2>7 DEF LastIsActive
<1>3. CASE ApplySave(t)
  <2>1. PICK row \in Row : snaps' = Append(snaps, row) /\ activations' = activations
    <3> DEFINE row == [tenant |-> call[t].tenant, version |-> call[t].version,
                       content |-> call[t].content, created |-> now, active |-> FALSE]
    <3>1. row \in Row
      BY <1>3 DEF ApplySave, TInv, CInv, Tables, Requests, SaveTyped, Row
    <3>2. snaps' = Append(snaps, row) /\ activations' = activations
      BY <1>3 DEF ApplySave
    <3> QED
      BY <3>1, <3>2
  <2>2. \A tn : ActiveRows(snaps, tn) \subseteq ActiveRows(snaps, tn)'
    BY <1>1, <2>1, ActiveAfterAppend
  <2> QED
    BY <2>1, <2>2 DEF LastIsActive
<1>4. CASE ~ActivateStore(t) /\ ~ApplySave(t)
  <2>1. snaps' = snaps /\ activations' = activations
    BY <1>4 DEF Begin, Continue, ApplyCheck, ActivateBegin, RollbackBegin, OtherRequest,
       ActivateFails, CommitFails, QueueSchema, RegisterBinding, PublishActivated,
       AnswerOverSocket, GetPending, ClearPending, LoadBegin, LoadSchema
  <2>2. \A tn : ActiveRows(snaps, tn)' = ActiveRows(snaps, tn)
    BY <2>1 DEF ActiveRows, Rows
  <2> QED
    BY <2>1, <2>2 DEF LastIsActive
<1> QED
  BY <1>2, <1>3, <1>4

\* Only a rollback that begins gets a row to roll back to.
LEMMA TargetedStep ==
    ASSUME TInv, TInv', Undisturbed, ~Disturbs, ~Fault, NEW t \in Threads, Begin(t) \/ Continue(t)
    PROVE  \A u \in Threads : Targeted(call[u])'
<1>1. call \in [Threads -> Call]
  BY DEF TInv, TypeOK
<1>2. ASSUME NEW u \in Threads, u # t PROVE Targeted(call[u])'
  <2>1. call'[u] = Idle
    BY <1>2, AloneStep DEF Alone
  <2> QED
    BY <2>1 DEF Targeted, Idle
<1>3. Targeted(call[t])'
  <2>1. ASSUME NEW tn \in Tenants, RollbackBegin(t, tn) PROVE Targeted(call[t])'
    BY <2>1, TargetSet
  <2>2. CASE ~\E tn \in Tenants : RollbackBegin(t, tn)
    <3>1. CASE \E id \in Ids : ActivateBegin(t, id)
      <4>1. call'[t].by = "activate"
        BY <1>1, <3>1 DEF ActivateBegin
      <4> QED
        BY <4>1 DEF Targeted
    <3>2. CASE ~\E id \in Ids : ActivateBegin(t, id)
      <4>1. CASE Begin(t)
        <5>1. call'[t].op # "activate"
          BY <1>1, <2>2, <3>2, <4>1 DEF Begin, ApplyCheck, OtherRequest, Succeed, Answer, Submit
        <5> QED
          BY <5>1 DEF Targeted
      <4>2. CASE ActivateStore(t) \/ QueueSchema(t) \/ RegisterBinding(t) \/ ClearPending(t)
                   \/ LoadBegin(t)
        <5>1. \E op \in {"queue", "bind", "publish", "load", "loading", "drain"} : call'[t].op = op
          <6>1. call[t] \in Call
            BY <1>1
          <6>2. call[t].op \in {"activate", "queue", "bind", "clear", "load"}
            BY <4>2 DEF ActivateStore, QueueSchema, RegisterBinding, ClearPending, LoadBegin
          <6>3. \/ call[t] \in [op : {"activate", "queue", "bind", "publish"},
                                by : {"activate", "rollback"}, id : Ids, changed : BOOLEAN]
                \/ call[t] \in [op : {"clear", "load", "loading"}, id : Ids]
            BY <6>1, <6>2 DEF Call, Idle
          <6> QED
            BY <1>1, <4>2, <6>3 DEF ActivateStore, QueueSchema, RegisterBinding, ClearPending,
               LoadBegin, Succeed, Fail, Answer
        <5> QED
          BY <5>1 DEF Targeted
      <4>3. CASE ApplySave(t) \/ ActivateFails(t) \/ CommitFails(t) \/ PublishActivated(t)
                   \/ AnswerOverSocket(t) \/ GetPending(t) \/ LoadSchema(t)
        <5>1. call'[t].op \in {"drain", "idle", "clear"}
          BY <1>1, <4>3 DEF ApplySave, ActivateFails, CommitFails, PublishActivated,
             AnswerOverSocket, GetPending, LoadSchema, Succeed, Fail, Answer, Idle
        <5> QED
          BY <5>1 DEF Targeted
      <4> QED
        BY <4>1, <4>2, <4>3 DEF Continue
    <3> QED
      BY <3>1, <3>2
  <2> QED
    BY <2>1, <2>2
<1> QED
  BY <1>2, <1>3

\* Every step keeps the target of a rollback and the last activation.
LEMMA RollbackKept == TInv /\ LInv /\ RInv /\ [Next]_vars => RInv'
<1> SUFFICES ASSUME TInv, LInv, RInv, [Next]_vars, ~disturbed', faults' = 0
             PROVE  LastIsActive' /\ \A t \in Threads : Targeted(call[t])'
  BY DEF RInv
<1>1. TInv' /\ faults \in Nat
  BY TypesStep, ConfigAssumption DEF TInv, TypeOK
<1>2. ASSUME NEW t \in Threads, Begin(t) \/ Continue(t), Next
      PROVE  LastIsActive' /\ \A u \in Threads : Targeted(call[u])'
  <2>1. ~disturbed /\ ~Disturbs
    BY <1>2, Zenon DEF Next
  <2>2. faults' = faults \/ faults' = faults + 1
    BY <1>2, FaultsGrow
  <2>3. faults = 0 /\ ~Fault
    BY <1>1, <2>2 DEF Fault
  <2>4. Undisturbed /\ LastIsActive /\ ~txn
    BY <2>1, <2>3 DEF LInv, RInv, Undisturbed
  <2>5. LastIsActive'
    BY <1>1, <1>2, <2>3, <2>4, LastActiveStep
  <2> QED
    BY <1>1, <1>2, <2>1, <2>3, <2>4, <2>5, TargetedStep
<1>3. CASE Restart
  <2>1. call' = AllIdle /\ activations' = [tn \in Tenants |-> <<>>]
    BY <1>3 DEF Restart
  <2>2. \A t \in Threads : call'[t].op = "idle"
    BY <2>1 DEF AllIdle, Idle
  <2> QED
    BY <2>1, <2>2 DEF LastIsActive, Targeted
<1>4. CASE (Tick /\ Next) \/ UNCHANGED vars
  <2>1. UNCHANGED <<snaps, call, activations, faults>>
    BY <1>4 DEF Tick, vars, store, memory, bounds
  <2>2. ~disturbed
    <3>1. CASE Next
      BY <3>1, Zenon DEF Next
    <3>2. CASE UNCHANGED vars
      BY <3>2 DEF vars
    <3> QED
      BY <1>4, <3>1, <3>2
  <2>3. LastIsActive /\ \A t \in Threads : Targeted(call[t])
    BY <2>1, <2>2 DEF RInv
  <2>4. LastIsActive'
    BY <2>1, <2>3 DEF LastIsActive, ActiveRows, Rows
  <2>5. \A t \in Threads : Targeted(call[t])'
    <3>1. /\ \A tn : Listings(tn)' = Listings(tn)
          /\ \A q : RollbackTarget(q)' = RollbackTarget(q)
      BY <2>1 DEF Listings, Rows, RollbackTarget
    <3> SUFFICES ASSUME NEW t \in Threads, call'[t].op = "activate", call'[t].by = "rollback"
                 PROVE  \E tn \in Tenants : \E q \in Listings(tn)' :
                           Len(q) >= 2 /\ call'[t].id = RollbackTarget(q)'
      BY DEF Targeted
    <3>2. \E tn \in Tenants : \E q \in Listings(tn) : Len(q) >= 2 /\ call[t].id = RollbackTarget(q)
      BY <2>1, <2>3 DEF Targeted
    <3> QED
      BY <2>1, <3>1, <3>2
  <2> QED
    BY <2>4, <2>5
<1> QED
  BY <1>2, <1>3, <1>4 DEF Next, Step

\* rollbackConfiguration (GqlExecutor.cpp): where every row of a tenant was activated, in
\* the order and each in a second of its own, the row a rollback activates is the one in
\* force before the active one, while requests do not overlap and the store does not
\* fail; for any number of rows, tenants and requests.
THEOREM RollbackIsPrevious == Spec => RollbackRestoresPrevious
<1>1. Init => RInv
  BY DEF Init, AllIdle, Idle, RInv, LastIsActive, Targeted
<1>2. ASSUME TInv, RInv, NEW t \in Threads, NEW tn \in Tenants,
             call[t].op = "activate", call[t].by = "rollback",
             snaps[call[t].id].tenant = tn, ~disturbed, faults = 0,
             Len(activations[tn]) > 1, ToSet(activations[tn]) = Rows(snaps, tn),
             \A i, j \in 1..Len(activations[tn]) :
                i < j => snaps[activations[tn][i]].created < snaps[activations[tn][j]].created
      PROVE  call[t].id = activations[tn][Len(activations[tn]) - 1]
  <2> DEFINE acts == activations[tn]
  <2>1. /\ snaps \in Seq(Row) /\ Single(snaps) /\ acts \in Seq(Nat)
    <3>1. snaps \in Seq(Row) /\ Single(snaps) /\ acts \in Seq(Ids)
      BY <1>2 DEF TInv, TypeOK, CInv
    <3>2. Ids \subseteq Nat
      BY DEF Ids
    <3>3. acts \in Seq(Nat)
      BY <3>1, <3>2, SeqMonotonic
    <3> QED
      BY <3>1, <3>3
  <2>2. LastIsActive /\ Targeted(call[t])
    BY <1>2 DEF RInv
  <2>3. snaps[acts[Len(acts)]].active
    <3>1. acts # <<>>
      BY <1>2
    <3> QED
      BY <2>2, <3>1 DEF LastIsActive, ActiveRows
  <2>4. PICK x \in Tenants : \E q \in Listings(x) : Len(q) >= 2 /\ call[t].id = RollbackTarget(q)
    BY <1>2, <2>2 DEF Targeted
  <2>5. PICK q \in Listings(x) : Len(q) >= 2 /\ call[t].id = RollbackTarget(q)
    BY <2>4
  <2>6. x = tn
    <3>1. Len(q) \in Nat /\ 2 <= Len(q) /\ SubSeq(q, 1, Len(q)) = q
      BY <2>1, <2>5, WholeListing
    <3>2. snaps[RollbackTarget(SubSeq(q, 1, Len(q)))].tenant = x
      BY <2>1, <3>1, TargetExists
    <3> QED
      BY <1>2, <2>5, <3>1, <3>2
  <2> QED
    BY <1>2, <2>1, <2>3, <2>5, <2>6, NextIsPrevious
<1>3. TInv /\ RInv /\ [Next]_vars =>
        [\A t \in Threads, tn \in Tenants :
          LET acts == activations[tn]
          IN  (/\ call[t].op = "activate" /\ call[t].by = "rollback"
               /\ call'[t].op = "queue" /\ snaps[call[t].id].tenant = tn
               /\ ~disturbed /\ faults = 0
               /\ Len(acts) > 1 /\ ToSet(acts) = Rows(snaps, tn)
               /\ \A i, j \in 1..Len(acts) :
                    i < j => snaps[acts[i]].created < snaps[acts[j]].created)
              => call[t].id = acts[Len(acts) - 1]]_vars
  BY <1>2
<1>4. Spec => []TInv
  BY TypesInit, TypesStep, PTL DEF Spec
<1> QED
  BY UndisturbedInit, UndisturbedKept, RollbackKept, <1>1, <1>3, <1>4, PTL
     DEF Spec, RollbackRestoresPrevious
=============================================================================
