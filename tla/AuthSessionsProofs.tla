------------------------- MODULE AuthSessionsProofs -------------------------
(***************************************************************************)
(* Proofs about AuthSessions: what the ways to end a session guarantee,    *)
(* for any threads, accounts, times and bounds.                            *)
(***************************************************************************)
EXTENDS AuthSessions, FiniteSetTheorems, SequenceTheorems, WellFoundedInduction, TLAPS

\* The types of what the sessions depend on.
SessionTypes ==
    /\ now \in Nat
    /\ call \in [Threads -> Call]
    /\ token \in Seq([owner : Accounts, expires : Nat]) /\ Len(token) <= MaxSessions
    /\ row \in [Ids -> {"none", "live", "revoked"}]
    /\ cut \subseteq Ids

\* A session has no row before its token is signed.
RowsAreIssued == \A i \in Ids : i > Len(token) => row[i] = "none"

\* A login that is about to write its row is the only one with that session, which has
\* no row yet and which revokeAllSessions has not met.
PersistIsFirst ==
    /\ \A t \in Threads :
          call[t].op = "persist" =>
             call[t].id \in Issued /\ row[call[t].id] = "none" /\ call[t].id \notin cut
    /\ \A t, u \in Threads :
          (call[t].op = "persist" /\ call[u].op = "persist" /\ call[t].id = call[u].id) => t = u

\* No session that revokeAllSessions has met has a live row.
CutIsDead == cut \subseteq Issued /\ \A i \in cut : row[i] # "live"

IInv ==
    /\ SessionTypes
    /\ RowsAreIssued
    /\ PersistIsFirst
    /\ CutIsDead
    /\ AdminSessionsSurvive
    /\ RevocationIsTold

\* What a request in progress carries.
LEMMA CallFields ==
    ASSUME NEW c \in Call
    PROVE  /\ c.op = "idle" => c = Idle
           /\ c.op \in {"verify", "refuse", "issue"} => c.account \in Accounts
           /\ c.op \in {"persist", "logout", "tell"} =>
                 c.id \in Ids /\ c = [op |-> c.op, id |-> c.id]
BY DEF Call, Idle

\* An element of a sequence.
LEMMA ElementTyped ==
    \A S : \A q \in Seq(S) : \A i \in 1..Len(q) : q[i] \in S
OBVIOUS

\* There are no sessions at first.
LEMMA SessionsInit == Init => IInv
<1> SUFFICES ASSUME Init PROVE IInv
  OBVIOUS
<1> USE AuthAssumption
<1>1. SessionTypes
  BY DEF Init, SessionTypes, Call, Idle
<1>2. RowsAreIssued /\ PersistIsFirst
  BY DEF Init, RowsAreIssued, PersistIsFirst, Idle
<1>3. CutIsDead /\ AdminSessionsSurvive /\ RevocationIsTold
  BY DEF Init, CutIsDead, AdminSessionsSurvive, RevocationIsTold, Issued, Ids
<1> QED
  BY <1>1, <1>2, <1>3 DEF IInv

\* A request that goes on and leaves the sessions alone.
LEMMA QuietStep ==
    ASSUME IInv, NEW t \in Threads, NEW c \in Call, c.op # "persist",
           call[t].op # "tell", call' = [call EXCEPT ![t] = c],
           now' = now, UNCHANGED sessions
    PROVE  IInv'
<1>1. SessionTypes' /\ RowsAreIssued'
  BY DEF IInv, SessionTypes, RowsAreIssued, sessions
<1>2. PersistIsFirst'
  BY DEF IInv, SessionTypes, PersistIsFirst, Issued, sessions
<1>3. CutIsDead' /\ AdminSessionsSurvive'
  BY DEF IInv, CutIsDead, AdminSessionsSurvive, Issued, sessions
<1>4. RevocationIsTold'
  BY DEF IInv, SessionTypes, RevocationIsTold, sessions
<1> QED
  BY <1>1, <1>2, <1>3, <1>4 DEF IInv

\* A statement that revokes the live rows among ids, by a request that is not in the
\* middle of a login: what it catches of a platform_admin's must go on record.
LEMMA RevokeStep ==
    ASSUME IInv, NEW ids, row' = Revoked(ids),
           NEW t \in Threads, NEW c \in Call, call[t].op # "persist", c.op # "persist",
           call' = [call EXCEPT ![t] = c],
           now' = now, token' = token, alone \subseteq alone',
           cut \subseteq cut', cut' \subseteq cut \cup (ids \cap Delivered),
           \A i \in ids \cap Issued :
              token[i].owner \in Holders /\ row[i] = "live" => i \in alone' \cup cut'
    PROVE  SessionTypes' /\ RowsAreIssued' /\ PersistIsFirst' /\ CutIsDead'
           /\ AdminSessionsSurvive'
<1> USE AuthAssumption
<1>1. Delivered \subseteq Issued /\ Issued \subseteq Ids
  BY DEF IInv, SessionTypes, Delivered, Issued, Ids
<1>2. SessionTypes'
  BY <1>1 DEF IInv, SessionTypes, Revoked
<1>3. RowsAreIssued'
  BY DEF IInv, SessionTypes, RowsAreIssued, Revoked
<1>4. PersistIsFirst'
  <2>1. \A u \in Threads : call'[u].op = "persist" => u # t /\ call'[u] = call[u]
    BY DEF IInv, SessionTypes
  <2>2. \A u \in Threads : call[u].op = "persist" => call[u].id \in Ids
    BY CallFields DEF IInv, SessionTypes
  <2>3. ASSUME NEW u \in Threads, call'[u].op = "persist"
        PROVE  call'[u].id \in Issued' /\ row'[call'[u].id] = "none" /\ call'[u].id \notin cut'
    <3>1. call'[u] = call[u] /\ call[u].id \in Ids
      BY <2>1, <2>2, <2>3
    <3>2. call[u].id \in Issued /\ row[call[u].id] = "none" /\ call[u].id \notin cut
      BY <2>3, <3>1 DEF IInv, PersistIsFirst
    <3>3. call[u].id \notin Delivered
      BY <2>3, <3>1 DEF Delivered
    <3> QED
      BY <3>1, <3>2, <3>3 DEF Issued, Revoked
  <2> QED
    BY <2>1, <2>3 DEF IInv, PersistIsFirst
<1>5. CutIsDead'
  <2>1. \A i \in cut' : i \in Issued
    BY <1>1 DEF IInv, CutIsDead
  <2>2. \A i \in cut' : row'[i] # "live"
    BY <1>1, <2>1 DEF IInv, SessionTypes, CutIsDead, Revoked
  <2> QED
    BY <2>1, <2>2 DEF CutIsDead, Issued
<1>6. AdminSessionsSurvive'
  BY <1>1 DEF IInv, SessionTypes, AdminSessionsSurvive, Revoked, Issued
<1> QED
  BY <1>2, <1>3, <1>4, <1>5, <1>6

\* Every step keeps the invariant.
LEMMA SessionsStep == IInv /\ [Next]_vars => IInv'
<1> SUFFICES ASSUME IInv, [Next]_vars PROVE IInv'
  OBVIOUS
<1> USE AuthAssumption
<1>t. /\ call \in [Threads -> Call]
      /\ \A u \in Threads : call[u] \in Call
  BY DEF IInv, SessionTypes
<1>1. ASSUME NEW t \in Threads, NEW a \in Accounts, LoginBegin(t, a) PROVE IInv'
  <2>1. PICK c \in Call : call' = [call EXCEPT ![t] = c] /\ c.op # "persist"
    <3>1. [op |-> "verify", account |-> a] \in Call
      BY DEF Call
    <3> QED
      BY <1>1, <3>1 DEF LoginBegin, Goto
  <2>2. call[t].op # "tell" /\ now' = now /\ UNCHANGED sessions
    BY <1>1 DEF LoginBegin, Idle
  <2> QED
    BY <2>1, <2>2, QuietStep
<1>2. ASSUME NEW t \in Threads,
             LoginDisabled(t) \/ LoginFails(t) \/ LoginRefuse(t) \/ LoginVerified(t)
      PROVE  IInv'
  <2>1. PICK c \in Call : call' = [call EXCEPT ![t] = c] /\ c.op # "persist"
    <3>1. call[t].account \in Accounts
      BY <1>2, <1>t, CallFields DEF LoginDisabled, LoginFails, LoginRefuse, LoginVerified
    <3>2. /\ Idle \in Call /\ Idle.op # "persist"
          /\ [op |-> "refuse", account |-> call[t].account] \in Call
          /\ [op |-> "issue", account |-> call[t].account] \in Call
      BY <3>1 DEF Call, Idle
    <3> QED
      BY <1>2, <3>2 DEF LoginDisabled, LoginFails, LoginRefuse, LoginVerified, Goto
  <2> QED
    BY <1>2, <2>1, QuietStep DEF LoginDisabled, LoginFails, LoginRefuse, LoginVerified
<1>3. ASSUME NEW t \in Threads, IssueToken(t) PROVE IInv'
  <2> DEFINE n == Len(token) + 1
             new == [owner |-> call[t].account, expires |-> now + Life]
             c == [op |-> "persist", id |-> n]
  <2>1. token \in Seq([owner : Accounts, expires : Nat]) /\ Len(token) \in Nat
    BY DEF IInv, SessionTypes
  <2>2. new \in [owner : Accounts, expires : Nat]
    BY <1>3, <1>t, CallFields DEF IssueToken, IInv, SessionTypes
  <2>3. /\ token' \in Seq([owner : Accounts, expires : Nat]) /\ Len(token') = n
        /\ \A i \in 1..Len(token) : token'[i] = token[i]
    BY <1>3, <2>1, <2>2 DEF IssueToken
  <2>4. n \in Ids /\ n \notin Issued /\ Issued \subseteq Issued' /\ n \in Issued'
    BY <1>3, <2>1, <2>3 DEF IssueToken, Ids, Issued
  <2>5. /\ c \in Call /\ call' = [call EXCEPT ![t] = c]
        /\ call[t].op = "issue" /\ UNCHANGED <<now, row, told, alone, cut>>
    BY <1>3, <2>3, <2>4 DEF IssueToken, Goto, Call
  <2>6. SessionTypes' /\ RowsAreIssued'
    <3>1. SessionTypes'
      BY <1>t, <2>3, <2>4, <2>5 DEF IInv, SessionTypes, Ids
    <3>2. RowsAreIssued'
      BY <2>1, <2>3, <2>5 DEF IInv, SessionTypes, RowsAreIssued, Ids
    <3> QED
      BY <3>1, <3>2
  <2>7. PersistIsFirst'
    <3>1. row[n] = "none" /\ n \notin cut
      BY <2>1, <2>4 DEF IInv, RowsAreIssued, CutIsDead, Ids
    <3>2. \A u \in Threads : u # t => call'[u] = call[u]
      BY <1>t, <2>5
    <3>3. call'[t] = c
      BY <1>t, <2>5
    <3>4. \A u \in Threads : call[u].op = "persist" => call[u].id # n
      BY <2>4 DEF IInv, PersistIsFirst
    <3> QED
      BY <2>4, <2>5, <3>1, <3>2, <3>3, <3>4 DEF IInv, PersistIsFirst
  <2>8. CutIsDead'
    BY <2>4, <2>5 DEF IInv, CutIsDead
  <2>9. AdminSessionsSurvive'
    <3>1. row[n] = "none"
      BY <2>1, <2>4 DEF IInv, RowsAreIssued, Ids
    <3>2. \A i \in Issued' : i \in Issued \/ i = n
      BY <2>1, <2>3 DEF Issued
    <3> QED
      BY <2>3, <2>5, <3>1, <3>2 DEF IInv, AdminSessionsSurvive, Issued
  <2>10. RevocationIsTold'
    BY <1>t, <2>5 DEF IInv, RevocationIsTold
  <2> QED
    BY <2>6, <2>7, <2>8, <2>9, <2>10 DEF IInv
<1>4. ASSUME NEW t \in Threads, PersistSession(t) PROVE IInv'
  <2> DEFINE i == call[t].id
  <2>1. /\ i \in Ids /\ call[t].op = "persist" /\ i \in Issued /\ row[i] = "none" /\ i \notin cut
    BY <1>4, <1>t, CallFields DEF PersistSession, IInv, PersistIsFirst
  <2>2. /\ call' = [call EXCEPT ![t] = Idle] /\ Idle \in Call /\ Idle.op = "idle"
        /\ UNCHANGED <<now, token, told, alone, cut>>
        /\ row' \in {row, [row EXCEPT ![i] = "live"]}
    BY <1>4 DEF PersistSession, Goto, Call, Idle
  <2>3. SessionTypes' /\ RowsAreIssued'
    BY <1>t, <2>1, <2>2 DEF IInv, SessionTypes, RowsAreIssued, Issued, Ids
  <2>4. PersistIsFirst'
    <3>1. \A u \in Threads : call'[u].op = "persist" => u # t /\ call'[u] = call[u]
      BY <1>t, <2>2
    <3>2. \A u \in Threads : u # t /\ call[u].op = "persist" => call[u].id # i
      BY <2>1 DEF IInv, PersistIsFirst
    <3>3. \A u \in Threads : call[u].op = "persist" => call[u].id \in Ids
      BY <1>t, CallFields
    <3>4. \A k \in Ids : k # i => row'[k] = row[k]
      BY <2>2 DEF IInv, SessionTypes
    <3> QED
      BY <2>2, <3>1, <3>2, <3>3, <3>4 DEF IInv, PersistIsFirst, Issued
  <2>5. CutIsDead' /\ AdminSessionsSurvive'
    <3>1. CutIsDead'
      BY <2>1, <2>2 DEF IInv, SessionTypes, CutIsDead, Issued
    <3>2. \A k \in Ids : row'[k] = "revoked" => row[k] = "revoked"
      BY <2>1, <2>2 DEF IInv, SessionTypes
    <3>3. Issued \subseteq Ids /\ Issued' = Issued
      BY <2>2 DEF IInv, SessionTypes, Issued, Ids
    <3>4. AdminSessionsSurvive'
      BY <2>2, <3>2, <3>3 DEF IInv, AdminSessionsSurvive
    <3> QED
      BY <3>1, <3>4
  <2>6. RevocationIsTold'
    BY <1>t, <2>1, <2>2 DEF IInv, RevocationIsTold
  <2> QED
    BY <2>3, <2>4, <2>5, <2>6 DEF IInv
<1>5. ASSUME NEW t \in Threads, NEW i \in Ids, LogoutBegin(t, i) PROVE IInv'
  <2>1. PICK c \in Call : call' = [call EXCEPT ![t] = c] /\ c.op # "persist"
    <3>1. [op |-> "logout", id |-> i] \in Call
      BY DEF Call
    <3> QED
      BY <1>5, <3>1 DEF LogoutBegin, Goto
  <2>2. call[t].op # "tell" /\ now' = now /\ UNCHANGED sessions
    BY <1>5 DEF LogoutBegin, Idle
  <2> QED
    BY <2>1, <2>2, QuietStep
<1>6. ASSUME NEW t \in Threads, NEW i \in Ids,
             \/ RevokeSession(t, i)
             \/ LogoutRevoke(t) /\ call[t].id = i
      PROVE  IInv'
  <2> DEFINE c == [op |-> "tell", id |-> i]
  <2>1. /\ c \in Call /\ call' = [call EXCEPT ![t] = c] /\ call[t].op \in {"idle", "logout"}
        /\ alone' = alone \cup {i} /\ UNCHANGED <<now, token, told, cut>>
    <3>1. LogoutRevoke(t) /\ call[t].id = i => [call[t] EXCEPT !.op = "tell"] = c
      <4>1. LogoutRevoke(t) /\ call[t].id = i => call[t] = [op |-> "logout", id |-> i]
        BY <1>t, CallFields DEF LogoutRevoke
      <4> QED
        BY <4>1
    <3> QED
      BY <1>6, <3>1 DEF RevokeSession, LogoutRevoke, Goto, Call, Idle
  <2>2. PICK ids \in SUBSET {i} : row' = Revoked(ids)
    <3>1. Revoked({}) = row
      BY DEF Revoked, IInv, SessionTypes
    <3> QED
      BY <1>6, <3>1 DEF RevokeSession, LogoutRevoke
  <2>3. SessionTypes' /\ RowsAreIssued' /\ PersistIsFirst' /\ CutIsDead' /\ AdminSessionsSurvive'
    BY <2>1, <2>2, RevokeStep
  <2>4. RevocationIsTold'
    BY <1>t, <2>1 DEF IInv, RevocationIsTold
  <2> QED
    BY <2>3, <2>4 DEF IInv
<1>7. ASSUME NEW t \in Threads, TellBroker(t) PROVE IInv'
  <2> DEFINE i == call[t].id
  <2>1. call[t] = [op |-> "tell", id |-> i]
    BY <1>7, <1>t, CallFields DEF TellBroker
  <2>2. /\ call' = [call EXCEPT ![t] = Idle] /\ Idle \in Call /\ Idle.op = "idle"
        /\ told' = told \cup {i} /\ UNCHANGED <<now, token, row, alone, cut>>
    BY <1>7 DEF TellBroker, Goto, Call, Idle
  <2>3. SessionTypes' /\ RowsAreIssued'
    BY <1>t, <2>2 DEF IInv, SessionTypes, RowsAreIssued
  <2>4. PersistIsFirst' /\ CutIsDead' /\ AdminSessionsSurvive'
    BY <1>t, <2>2 DEF IInv, PersistIsFirst, CutIsDead, AdminSessionsSurvive, Issued
  <2>5. RevocationIsTold'
    BY <1>t, <2>1, <2>2 DEF IInv, RevocationIsTold
  <2> QED
    BY <2>3, <2>4, <2>5 DEF IInv
<1>8. ASSUME NEW t \in Threads,
             \/ \E a \in Accounts : RevokeAllSessions(t, a)
             \/ TerminateAllSessions(t)
      PROVE  IInv'
  <2>1. /\ call[t] = Idle /\ call' = [call EXCEPT ![t] = Idle]
        /\ Idle \in Call /\ Idle.op = "idle" /\ UNCHANGED <<now, call, token, told, alone>>
    BY <1>8, <1>t DEF RevokeAllSessions, TerminateAllSessions, Call, Idle
  <2>2. SessionTypes' /\ RowsAreIssued' /\ PersistIsFirst' /\ CutIsDead' /\ AdminSessionsSurvive'
    <3>1. CASE \E a \in Accounts : RevokeAllSessions(t, a)
      <4>1. PICK a \in Accounts : RevokeAllSessions(t, a)
        BY <3>1
      <4>2. \A i \in Issued : row[i] = "live" => i \in Delivered
        BY DEF IInv, PersistIsFirst, Delivered
      <4>3. CASE UNCHANGED <<row, cut>>
        <5>1. row' = Revoked({})
          BY <4>3 DEF IInv, SessionTypes, Revoked
        <5> QED
          BY <2>1, <4>3, <5>1, RevokeStep
      <4> QED
        BY <2>1, <4>1, <4>2, <4>3, RevokeStep DEF RevokeAllSessions
    <3>2. CASE TerminateAllSessions(t)
      <4>1. \A i \in OwnedBy(Accounts \ Holders) : token[i].owner \notin Holders
        BY DEF OwnedBy
      <4>2. CASE UNCHANGED row
        <5>1. row' = Revoked({}) /\ UNCHANGED cut
          BY <3>2, <4>2 DEF IInv, SessionTypes, Revoked, TerminateAllSessions
        <5> QED
          BY <2>1, <5>1, RevokeStep
      <4> QED
        BY <2>1, <3>2, <4>1, <4>2, RevokeStep DEF TerminateAllSessions
    <3> QED
      BY <1>8, <3>1, <3>2
  <2>3. RevocationIsTold'
    BY <2>1 DEF IInv, RevocationIsTold
  <2> QED
    BY <2>2, <2>3 DEF IInv
<1>9. CASE Tick \/ UNCHANGED vars
  <2>1. now' \in Nat /\ UNCHANGED <<call, sessions>>
    BY <1>9 DEF Tick, vars, IInv, SessionTypes
  <2>2. SessionTypes' /\ RowsAreIssued' /\ PersistIsFirst'
    BY <2>1 DEF IInv, SessionTypes, RowsAreIssued, PersistIsFirst, Issued, sessions
  <2>3. CutIsDead' /\ AdminSessionsSurvive' /\ RevocationIsTold'
    BY <2>1 DEF IInv, CutIsDead, AdminSessionsSurvive, RevocationIsTold, Issued, sessions
  <2> QED
    BY <2>2, <2>3 DEF IInv
<1>10. ASSUME NEW t \in Threads, LogoutRevoke(t) PROVE call[t].id \in Ids
  BY <1>10, <1>t, CallFields DEF LogoutRevoke
<1> QED
  BY <1>1, <1>2, <1>3, <1>4, <1>5, <1>6, <1>7, <1>8, <1>9, <1>10
     DEF Next, Login, Revocation

\* The invariant holds in every state of the login and revocation paths.
THEOREM SessionsInvariant == Spec => []IInv
<1> QED
  BY SessionsInit, SessionsStep, PTL DEF Spec

\* A revokeAllSessions whose statement succeeds (DatabaseManager.cpp:2314) leaves no client
\* it met a way past validate_token, whatever logins are under way: one whose statement
\* fails answers true and ends no session (GqlExecutor.cpp:1500).  terminateAllSessions
\* (GqlExecutor.cpp:1512) catches no session of a platform_admin.
THEOREM SessionsEndAsAsked == Spec => []SessionsInv
<1>1. IInv => SessionsInv
  BY DEF IInv, SessionTypes, CutIsDead, SessionsInv, LoggedOutEverywhere, validate_token,
         get_session, Issued, Ids
<1> QED
  BY <1>1, SessionsInvariant, PTL

\* The broker is told of every session that logout or revokeSession has ended, or is
\* about to be (GqlExecutor.cpp:1448).
THEOREM BrokerIsTold == Spec => []RevocationIsTold
<1>1. IInv => RevocationIsTold
  BY DEF IInv
<1> QED
  BY <1>1, SessionsInvariant, PTL

\* What validate_token refuses it never accepts again: time only goes on, signed tokens
\* stay as they are, and no insert of a login comes after the revocation of its session.
THEOREM NoSessionRevives == Spec => RefusedForGood
<1> DEFINE Refuses(i) == ~validate_token(i) => ~validate_token(i)'
<1>1. ASSUME IInv, [Next]_vars PROVE [\A i \in Issued : Refuses(i)]_vars
  <2> SUFFICES ASSUME Next, NEW i \in Issued, ~validate_token(i) PROVE ~validate_token(i)'
    BY <1>1
  <2>1. i \in Ids /\ i \in 1..Len(token) /\ now \in Nat /\ token[i].expires \in Nat
    <3>1. /\ token \in Seq([owner : Accounts, expires : Nat]) /\ Len(token) <= MaxSessions
          /\ now \in Nat
      BY <1>1 DEF IInv, SessionTypes
    <3>2. i \in 1..Len(token)
      BY DEF Issued
    <3>3. token[i] \in [owner : Accounts, expires : Nat]
      BY <3>1, <3>2, ElementTyped
    <3> QED
      BY <3>1, <3>2, <3>3, AuthAssumption DEF Ids
  <2>2. now' \in Nat /\ now' >= now
    <3>1. CASE Tick
      BY <2>1, <3>1 DEF Tick
    <3>2. ASSUME NEW t \in Threads, Login(t) \/ Revocation(t) PROVE now' = now
      BY <3>2 DEF Login, Revocation, LoginBegin, LoginDisabled, LoginFails, LoginRefuse,
         LoginVerified, IssueToken, PersistSession, LogoutBegin, LogoutRevoke,
         RevokeSession, TellBroker, RevokeAllSessions, TerminateAllSessions
    <3> QED
      BY <2>1, <3>1, <3>2 DEF Next
  <2>3. token'[i] = token[i]
    <3>1. ASSUME NEW t \in Threads, IssueToken(t) PROVE token'[i] = token[i]
      <4>1. token \in Seq([owner : Accounts, expires : Nat])
        BY <1>1 DEF IInv, SessionTypes
      <4>2. \E x : token' = Append(token, x)
        BY <3>1 DEF IssueToken
      <4> QED
        BY <2>1, <4>1, <4>2
    <3> QED
      BY <3>1 DEF Next, Tick, Login, Revocation, LoginBegin, LoginDisabled, LoginFails,
         LoginRefuse, LoginVerified, PersistSession, LogoutBegin, LogoutRevoke,
         RevokeSession, TellBroker, RevokeAllSessions, TerminateAllSessions, sessions
  <2>4. row[i] = "revoked" => row'[i] = "revoked"
    <3>1. ASSUME NEW t \in Threads, PersistSession(t), row[i] = "revoked"
          PROVE  row'[i] = "revoked"
      <4>1. row[call[t].id] = "none"
        BY <1>1, <3>1 DEF IInv, PersistIsFirst, PersistSession
      <4> QED
        BY <1>1, <2>1, <3>1, <4>1 DEF PersistSession, IInv, SessionTypes
    <3>2. \A ids : row[i] = "revoked" => Revoked(ids)[i] = "revoked"
      BY <2>1 DEF Revoked
    <3> QED
      BY <3>1, <3>2 DEF Next, Tick, Login, Revocation, LoginBegin, LoginDisabled, LoginFails,
         LoginRefuse, LoginVerified, IssueToken, LogoutBegin, LogoutRevoke,
         RevokeSession, TellBroker, RevokeAllSessions, TerminateAllSessions, sessions
  <2> QED
    BY <2>1, <2>2, <2>3, <2>4 DEF validate_token, validate_request, get_session
<1> QED
  BY <1>1, SessionsInvariant, PTL DEF Spec, RefusedForGood

-----------------------------------------------------------------------------
(* The lock-out                                                            *)

\* The requests of an identity that are past the lock-out and verify a password.
Verifying(a) == {t \in Threads : call[t] = [op |-> "verify", account |-> a]}

\* The failures of an identity that lie within the window.
Fresh(a) == {k \in 1..Len(failed[a]) : now - failed[a][k] < Window}

\* Failures are on record in order of time.
Ordered(a) ==
    /\ \A k \in 1..Len(failed[a]) : failed[a][k] <= now
    /\ \A j, k \in 1..Len(failed[a]) : j <= k => failed[a][j] <= failed[a][k]

\* The queue is an end of the history; what has left it is older than the window.
QueueIsRecent(a) ==
    \E gone \in Nat :
        /\ Len(failed[a]) = gone + Len(fails[a])
        /\ \A k \in 1..gone : failed[a][k] + Window < now
        /\ \A k \in 1..Len(fails[a]) : fails[a][k] = failed[a][gone + k]

\* A full queue is under a lock that covers a window after its last failure.
FullIsLocked(a) ==
    Len(fails[a]) >= MaxAttempts =>
       LET last == failed[a][Len(failed[a])]
       IN  last + Window <= now \/ last + Window <= until[a]

\* Under a lock, what has failed and what may still fail keep within the bound.
WithinBudget(a) ==
    is_rate_limited(a) =>
       Cardinality(Fresh(a)) + Cardinality(Verifying(a)) < MaxAttempts + Cardinality(Threads)

\* LockoutIsEarned for one identity.
Behind(a) ==
    {k \in 1..Len(failed[a]) : /\ failed[a][k] + Window <= until[a]
                               /\ failed[a][k] + 2 * Window >= until[a]}

Earned(a) == is_rate_limited(a) => MaxAttempts <= Cardinality(Behind(a))

LockOK(a) ==
    Ordered(a) /\ QueueIsRecent(a) /\ FullIsLocked(a) /\ WithinBudget(a) /\ Earned(a)

LockInv == TypeOK /\ \A a \in Accounts : LockOK(a)

\* The order of natural numbers, as a relation.
Less == {p \in Nat \X Nat : p[1] < p[2]}

\* A nonempty set of natural numbers has a least element.
LEMMA LeastMember ==
    ASSUME NEW S, S \subseteq Nat, S # {}
    PROVE  \E x \in S : \A y \in S : x <= y
<1>1. IsWellFoundedOn(Less, Nat)
  BY NatLessThanWellFounded, Zenon DEF OpToRel, Less
<1>2. \E x \in S : \A y \in S : <<y, x>> \notin Less
  BY <1>1, WFMin, Zenon
<1>3. \A x, y \in Nat : <<y, x>> \notin Less => x <= y
  BY DEF Less
<1> QED
  BY <1>2, <1>3

\* What record_failed_attempt keeps of the queue: its end, from the first attempt on that
\* is no older than the window.
LEMMA RecentKeeps ==
    ASSUME NEW q \in Seq(Nat), now \in Nat
    PROVE  \E n \in 1..(Len(q) + 1) :
              /\ \A k \in 1..(n - 1) : now - q[k] > Window
              /\ n <= Len(q) => now - q[n] <= Window
              /\ Recent(q) = SubSeq(q, n, Len(q))
<1> DEFINE S == {n \in 1..(Len(q) + 1) : n <= Len(q) => now - q[n] <= Window}
           P(n) == /\ \A k \in 1..(n - 1) : now - q[k] > Window
                   /\ n <= Len(q) => now - q[n] <= Window
<1>1. Len(q) \in Nat /\ Len(q) + 1 \in S
  OBVIOUS
<1>2. PICK n \in S : \A m \in S : n <= m
  <2>1. S \subseteq Nat /\ S # {}
    BY <1>1
  <2> HIDE DEF S
  <2> QED
    BY <2>1, LeastMember, Zenon
<1>3. n \in 1..(Len(q) + 1) /\ (n <= Len(q) => now - q[n] <= Window)
  BY <1>2
<1>4. ASSUME NEW k \in 1..(n - 1) PROVE now - q[k] > Window
  <2>1. k \in 1..Len(q) /\ k \in Nat /\ k < n
    BY <1>1, <1>3
  <2>2. k \notin S
    BY <1>1, <1>2, <1>3, <2>1
  <2>3. q[k] \in Nat /\ now - q[k] \in Int
    BY <2>1, ElementTyped
  <2> QED
    BY <1>1, <2>1, <2>2, <2>3, AuthAssumption
<1>5. \E m \in 1..(Len(q) + 1) : P(m)
  BY <1>3, <1>4
<1> DEFINE first == CHOOSE m \in 1..(Len(q) + 1) : P(m)
<1>6. first \in 1..(Len(q) + 1) /\ P(first)
  <2> HIDE DEF P
  <2> QED
    BY <1>5, Zenon
<1>7. Recent(q) = SubSeq(q, first, Len(q))
  BY DEF Recent
<1> HIDE DEF first
<1> QED
  BY <1>6, <1>7

\* The sets the bounds count are finite.
LEMMA CountsFinite ==
    ASSUME TypeOK, NEW a \in Accounts
    PROVE  /\ IsFiniteSet(Fresh(a)) /\ Cardinality(Fresh(a)) \in Nat
           /\ IsFiniteSet(Behind(a)) /\ Cardinality(Behind(a)) \in Nat
           /\ IsFiniteSet(Verifying(a)) /\ Cardinality(Verifying(a)) \in Nat
           /\ Cardinality(Verifying(a)) <= Cardinality(Threads)
           /\ Cardinality(Threads) \in Nat
<1>1. Len(failed[a]) \in Nat
  BY DEF TypeOK
<1>2. IsFiniteSet(1..Len(failed[a]))
  BY <1>1, FS_Interval
<1>3. Fresh(a) \subseteq 1..Len(failed[a]) /\ Behind(a) \subseteq 1..Len(failed[a])
  BY DEF Fresh, Behind
<1>4. IsFiniteSet(Fresh(a)) /\ IsFiniteSet(Behind(a))
  BY <1>2, <1>3, FS_Subset
<1>5. IsFiniteSet(Threads) /\ Verifying(a) \subseteq Threads
  BY AuthAssumption DEF Verifying
<1>6. IsFiniteSet(Verifying(a)) /\ Cardinality(Verifying(a)) <= Cardinality(Threads)
  BY <1>5, FS_Subset
<1> QED
  BY <1>4, <1>5, <1>6, FS_CardinalityType

\* The types of an identity's record.
LEMMA RecordTypes ==
    ASSUME TypeOK, NEW a \in Accounts
    PROVE  /\ now \in Nat /\ until[a] \in Nat
           /\ fails[a] \in Seq(Nat) /\ Len(fails[a]) \in Nat
           /\ failed[a] \in Seq(Nat) /\ Len(failed[a]) \in Nat
           /\ \A k \in 1..Len(failed[a]) : failed[a][k] \in Nat
<1>1. /\ fails[a] \in Seq(0..MaxTime) /\ failed[a] \in Seq(0..MaxTime)
      /\ now \in 0..MaxTime /\ until[a] \in Times
  BY DEF TypeOK
<1>2. 0..MaxTime \subseteq Nat /\ Times \subseteq Nat
  BY AuthAssumption DEF Times
<1>3. fails[a] \in Seq(Nat) /\ failed[a] \in Seq(Nat)
  BY <1>1, <1>2, SeqMonotonic
<1>4. now \in Nat /\ until[a] \in Nat
  BY <1>1, <1>2
<1> QED
  BY <1>3, <1>4

\* A full queue that is not locked is past: what is fresh then is less than the limit.
LEMMA FreshUnlocked ==
    ASSUME TypeOK, NEW a \in Accounts, Ordered(a), QueueIsRecent(a), FullIsLocked(a),
           ~is_rate_limited(a)
    PROVE  Cardinality(Fresh(a)) < MaxAttempts
<1> USE AuthAssumption
<1>0. PICK L \in Nat, m \in Nat, gone \in Nat :
         /\ L = Len(failed[a]) /\ m = Len(fails[a]) /\ L = gone + m
         /\ \A k \in 1..gone : failed[a][k] + Window < now
  BY RecordTypes DEF QueueIsRecent
<1>1. /\ now \in Nat /\ until[a] \in Nat /\ until[a] <= now
      /\ \A k \in 1..L : failed[a][k] \in Nat
  <2>1. /\ now \in Nat /\ until[a] \in Nat
        /\ \A k \in 1..Len(failed[a]) : failed[a][k] \in Nat
    BY RecordTypes
  <2> QED
    BY <1>0, <2>1 DEF is_rate_limited
<1>2. Cardinality(Fresh(a)) \in Nat
  BY CountsFinite
<1>3. CASE m < MaxAttempts
  <2>1. Fresh(a) \subseteq (gone + 1)..L
    <3>1. L = gone + m
      BY <1>0
    <3> SUFFICES ASSUME NEW k \in Fresh(a) PROVE k \in (gone + 1)..L
      OBVIOUS
    <3>2. k \in 1..L /\ now - failed[a][k] < Window
      BY <1>0 DEF Fresh
    <3>3. failed[a][k] \in Nat /\ now \in Nat
      BY <1>1, <3>2
    <3>4. k \notin 1..gone
      BY <1>0, <3>2, <3>3
    <3> QED
      BY <3>1, <3>2, <3>4
  <2>2. /\ IsFiniteSet((gone + 1)..L)
        /\ Cardinality((gone + 1)..L) = IF gone + 1 > L THEN 0 ELSE L - (gone + 1) + 1
    BY FS_Interval
  <2>3. Cardinality(Fresh(a)) <= Cardinality((gone + 1)..L)
    BY <2>1, <2>2, FS_Subset
  <2>4. Cardinality((gone + 1)..L) = m
    BY <1>0, <2>2
  <2> QED
    BY <1>2, <1>3, <2>3, <2>4
<1>4. CASE m >= MaxAttempts
  <2>1. L \in 1..L
    BY <1>0, <1>4
  <2>2. failed[a][L] + Window <= now
    <3>1. Len(failed[a]) = L /\ Len(fails[a]) >= MaxAttempts
      BY <1>0, <1>4
    <3>2. failed[a][L] + Window <= now \/ failed[a][L] + Window <= until[a]
      BY <3>1, Zenon DEF FullIsLocked
    <3>3. failed[a][L] \in Nat /\ now \in Nat /\ until[a] \in Nat /\ until[a] <= now
      BY <1>1, <2>1, Zenon
    <3> QED
      BY <3>2, <3>3
  <2>3. \A k \in 1..L : failed[a][k] <= failed[a][L]
    BY <1>0, <1>1, <2>1 DEF Ordered
  <2>4. \A k \in 1..L : ~(now - failed[a][k] < Window)
    BY <1>1, <2>1, <2>2, <2>3
  <2>5. Fresh(a) = {}
    BY <1>0, <2>4 DEF Fresh
  <2> QED
    BY <2>5, FS_EmptySet
<1> QED
  BY <1>3, <1>4

\* A step that records nothing of an identity: time goes on, a lock that has run out is
\* forgotten, and under a lock nobody new gets to verify a password.
LEMMA LockKept ==
    ASSUME TypeOK, TypeOK', NEW a \in Accounts, LockOK(a),
           fails'[a] = fails[a], failed'[a] = failed[a], now' >= now,
           until'[a] = until[a] \/ (~is_rate_limited(a) /\ until'[a] = 0),
           is_rate_limited(a) => Verifying(a)' \subseteq Verifying(a)
    PROVE  LockOK(a)'
<1> USE AuthAssumption
<1>1. /\ now \in Nat /\ until[a] \in Nat /\ Len(fails[a]) \in Nat /\ Len(failed[a]) \in Nat
      /\ \A k \in 1..Len(failed[a]) : failed[a][k] \in Nat
  BY RecordTypes
<1>2. now' \in Nat /\ until'[a] \in Nat
  BY DEF TypeOK, Times
<1>3. Ordered(a)' /\ QueueIsRecent(a)'
  <2>1. Ordered(a)'
    BY <1>1, <1>2 DEF LockOK, Ordered
  <2>2. QueueIsRecent(a)'
    <3>1. PICK gone \in Nat :
             /\ Len(failed[a]) = gone + Len(fails[a])
             /\ \A k \in 1..gone : failed[a][k] + Window < now
             /\ \A k \in 1..Len(fails[a]) : fails[a][k] = failed[a][gone + k]
      BY DEF LockOK, QueueIsRecent
    <3>2. \A k \in 1..gone : failed[a][k] + Window < now'
      <4> SUFFICES ASSUME NEW k \in 1..gone PROVE failed[a][k] + Window < now'
        OBVIOUS
      <4>1. k \in 1..Len(failed[a])
        BY <1>1, <3>1
      <4>2. failed[a][k] \in Nat /\ failed[a][k] + Window < now
        BY <1>1, <3>1, <4>1, Zenon
      <4> QED
        BY <1>1, <1>2, <4>2
    <3> QED
      BY <3>1, <3>2, Zenon DEF QueueIsRecent
  <2> QED
    BY <2>1, <2>2
<1>4. FullIsLocked(a)'
  <2> SUFFICES ASSUME Len(fails[a]) >= MaxAttempts
               PROVE  \/ failed[a][Len(failed[a])] + Window <= now'
                      \/ failed[a][Len(failed[a])] + Window <= until'[a]
    BY DEF FullIsLocked
  <2>1. Len(failed[a]) \in 1..Len(failed[a])
    BY <1>1 DEF LockOK, QueueIsRecent
  <2>2. failed[a][Len(failed[a])] \in Nat
    BY <1>1, <2>1
  <2> QED
    BY <1>1, <1>2, <2>2 DEF LockOK, FullIsLocked, is_rate_limited
<1>5. ASSUME is_rate_limited(a)' PROVE is_rate_limited(a) /\ until'[a] = until[a]
  BY <1>1, <1>2, <1>5 DEF is_rate_limited
<1>6. WithinBudget(a)'
  <2> SUFFICES ASSUME is_rate_limited(a)'
               PROVE  Cardinality(Fresh(a)') + Cardinality(Verifying(a)')
                        < MaxAttempts + Cardinality(Threads)
    BY DEF WithinBudget
  <2>1. Fresh(a)' \subseteq Fresh(a)
    BY <1>1, <1>2 DEF Fresh
  <2>2. Verifying(a)' \subseteq Verifying(a)
    BY <1>5
  <2>3. /\ Cardinality(Fresh(a)') <= Cardinality(Fresh(a))
        /\ Cardinality(Verifying(a)') <= Cardinality(Verifying(a))
        /\ Cardinality(Fresh(a)') \in Nat /\ Cardinality(Verifying(a)') \in Nat
    BY <2>1, <2>2, CountsFinite, FS_Subset, FS_CardinalityType
  <2>4. Cardinality(Fresh(a)) + Cardinality(Verifying(a)) < MaxAttempts + Cardinality(Threads)
    BY <1>5 DEF LockOK, WithinBudget
  <2> QED
    BY <2>3, <2>4, CountsFinite
<1>7. Earned(a)'
  <2> SUFFICES ASSUME is_rate_limited(a)' PROVE MaxAttempts <= Cardinality(Behind(a)')
    BY DEF Earned
  <2>1. Behind(a)' = Behind(a)
    BY <1>5 DEF Behind
  <2> QED
    BY <1>5, <2>1 DEF LockOK, Earned
<1> QED
  BY <1>3, <1>4, <1>6, <1>7 DEF LockOK

\* reset_failed_attempts starts an identity anew.
LEMMA LockReset ==
    ASSUME TypeOK', NEW a \in Accounts,
           fails'[a] = <<>>, failed'[a] = <<>>, until'[a] = 0
    PROVE  LockOK(a)'
<1> USE AuthAssumption
<1>1. now' \in Nat /\ Len(<<>>) = 0
  BY DEF TypeOK
<1>2. Ordered(a)' /\ QueueIsRecent(a)' /\ FullIsLocked(a)'
  <2>1. Ordered(a)'
    BY <1>1 DEF Ordered
  <2>2. Len(failed'[a]) = 0 + Len(fails'[a]) /\ 0 \in Nat
    BY <1>1
  <2>3. QueueIsRecent(a)'
    BY <1>1, <2>2 DEF QueueIsRecent
  <2>4. FullIsLocked(a)'
    BY <1>1 DEF FullIsLocked
  <2> QED
    BY <2>1, <2>3, <2>4
<1>3. ~is_rate_limited(a)'
  BY <1>1 DEF is_rate_limited
<1> QED
  BY <1>2, <1>3 DEF LockOK, WithinBudget, Earned

\* record_failed_attempt, by a request that was verifying a password of the identity.
LEMMA LockRecord ==
    ASSUME TypeOK, TypeOK', NEW a \in Accounts, LockOK(a),
           NEW t \in Threads, call[t] = [op |-> "verify", account |-> a],
           call' = [call EXCEPT ![t] = [op |-> "refuse", account |-> a]],
           now' = now, record_failed_attempt(a)
    PROVE  LockOK(a)'
<1> USE AuthAssumption
<1>1. /\ now \in Nat /\ until[a] \in Nat
      /\ fails[a] \in Seq(Nat) /\ failed[a] \in Seq(Nat)
      /\ \A k \in 1..Len(failed[a]) : failed[a][k] \in Nat
  BY RecordTypes
<1>l. PICK L \in Nat, m \in Nat : L = Len(failed[a]) /\ m = Len(fails[a])
  BY <1>1
<1>g. PICK gone \in Nat :
         /\ L = gone + m
         /\ \A k \in 1..gone : failed[a][k] + Window < now
         /\ \A k \in 1..m : fails[a][k] = failed[a][gone + k]
  BY <1>l DEF LockOK, QueueIsRecent
<1>2. /\ L = Len(failed[a]) /\ m = Len(fails[a]) /\ L = gone + m
      /\ \A k \in 1..gone : failed[a][k] + Window < now
      /\ \A k \in 1..m : fails[a][k] = failed[a][gone + k]
  BY <1>l, <1>g
<1>2a. L = gone + m
  BY <1>2
\* What of the queue stays, and where it lies in the history.
<1>3. PICK n \in 1..(m + 1) :
         /\ \A k \in 1..(n - 1) : now - fails[a][k] > Window
         /\ n <= m => now - fails[a][n] <= Window
         /\ Recent(fails[a]) = SubSeq(fails[a], n, m)
  BY <1>1, <1>2, RecentKeeps
<1>6. PICK r \in Nat, g \in Nat : r = m - n + 1 /\ g = gone + (n - 1) /\ L = g + r
  <2>1. m - n + 1 \in Nat /\ gone + (n - 1) \in Nat /\ L = gone + (n - 1) + (m - n + 1)
    BY <1>2a
  <2> QED
    BY <2>1
<1> DEFINE kept == SubSeq(fails[a], n, m)
           q == Append(kept, now)
<1>4. /\ kept \in Seq(Nat) /\ Len(kept) = r
      /\ \A k \in 1..r : kept[k] = fails[a][n + k - 1]
  <2>1. \A i \in n..m : fails[a][i] \in Nat
    <3>1. \A i \in 1..Len(fails[a]) : fails[a][i] \in Nat
      BY <1>1
    <3>2. \A i \in n..m : i \in 1..m
      BY <1>l
    <3> QED
      BY <1>l, <3>1, <3>2, Zenon
  <2>2. n \in Int /\ m \in Int
    BY <1>l
  <2>3. SubSeq(fails[a], n, m) \in Seq(Nat)
    BY <2>1, <2>2, SubSeqProperties, Zenon
  <2>4. n <= m + 1 /\ r = m - n + 1
    BY <1>l, <1>6
  <2>5. Len(SubSeq(fails[a], n, m)) = r
    BY <2>2, <2>4
  <2>6. \A k \in 1..r : SubSeq(fails[a], n, m)[k] = fails[a][n + k - 1]
    BY <2>2, <2>4
  <2> QED
    BY <2>3, <2>5, <2>6
<1>5. /\ q \in Seq(Nat) /\ Len(q) = r + 1 /\ q[r + 1] = now
      /\ \A k \in 1..r : q[k] = kept[k]
  <2> HIDE DEF kept
  <2> QED
    BY <1>1, <1>2, <1>4
<1>7. \A k \in 1..r : kept[k] = failed[a][g + k]
  <2> SUFFICES ASSUME NEW k \in 1..r PROVE kept[k] = failed[a][g + k]
    OBVIOUS
  <2>1. n + k - 1 \in 1..m /\ gone + (n + k - 1) = g + k
    BY <1>3, <1>6
  <2>2. kept[k] = fails[a][n + k - 1] /\ fails[a][n + k - 1] = failed[a][gone + (n + k - 1)]
    BY <1>2, <1>4, <2>1
  <2> QED
    BY <2>1, <2>2
<1>8. /\ fails'[a] = q
      /\ until'[a] = IF Len(q) >= MaxAttempts THEN now + Window ELSE until[a]
      /\ failed'[a] = Append(failed[a], now)
  BY <1>2, <1>3 DEF record_failed_attempt, TypeOK
<1> HIDE DEF kept, q
<1>9. /\ Len(failed'[a]) = L + 1 /\ failed'[a][L + 1] = now
      /\ \A k \in 1..L : failed'[a][k] = failed[a][k] /\ failed[a][k] \in Nat
  <2>1. /\ Len(Append(failed[a], now)) = Len(failed[a]) + 1
        /\ Append(failed[a], now)[Len(failed[a]) + 1] = now
        /\ \A k \in 1..Len(failed[a]) : Append(failed[a], now)[k] = failed[a][k]
    BY <1>1, AppendProperties
  <2>2. L = Len(failed[a])
    BY <1>2
  <2> QED
    BY <1>1, <1>8, <2>1, <2>2
<1>10. \A k \in 1..L : failed[a][k] <= now
  BY <1>2 DEF LockOK, Ordered
<1>11. Ordered(a)'
  <2>1. \A j, k \in 1..L : j <= k => failed[a][j] <= failed[a][k]
    BY <1>2 DEF LockOK, Ordered
  <2>2. \A k \in 1..(L + 1) : k \in 1..L \/ k = L + 1
    OBVIOUS
  <2>3. \A k \in 1..(L + 1) : failed'[a][k] <= now
    BY <1>1, <1>9, <1>10, <2>2
  <2>4. \A j, k \in 1..(L + 1) : j <= k => failed'[a][j] <= failed'[a][k]
    BY <1>9, <2>1, <2>2, <2>3
  <2> QED
    BY <1>9, <2>3, <2>4 DEF Ordered
<1>12. QueueIsRecent(a)'
  <2>1. \A k \in 1..g : failed[a][k] + Window < now
    <3> SUFFICES ASSUME NEW k \in 1..g PROVE failed[a][k] + Window < now
      OBVIOUS
    <3>1. CASE k \in 1..gone
      BY <1>2, <3>1
    <3>2. CASE k \notin 1..gone
      <4>1. PICK i \in 1..(n - 1) : k = gone + i /\ i \in 1..m /\ k \in 1..L
        <5>1. k - gone \in 1..(n - 1) /\ k = gone + (k - gone) /\ k - gone \in 1..m /\ k \in 1..L
          BY <1>2a, <1>6, <3>2
        <5> QED
          BY <5>1
      <4>2. fails[a][i] = failed[a][k] /\ failed[a][k] \in Nat
        BY <1>2, <1>9, <4>1
      <4>3. now - failed[a][k] > Window
        BY <1>3, <4>1, <4>2
      <4> QED
        BY <1>1, <4>2, <4>3
    <3> QED
      BY <3>1, <3>2
  <2>2. Len(failed'[a]) = g + Len(fails'[a])
    BY <1>5, <1>6, <1>8, <1>9
  <2>3. \A k \in 1..g : failed'[a][k] + Window < now
    <3>1. \A k \in 1..g : k \in 1..L
      BY <1>6
    <3> QED
      BY <1>9, <2>1, <3>1
  <2>4. \A k \in 1..(r + 1) : q[k] = failed'[a][g + k]
    <3> SUFFICES ASSUME NEW k \in 1..(r + 1) PROVE q[k] = failed'[a][g + k]
      OBVIOUS
    <3>1. CASE k = r + 1
      <4>1. g + k = L + 1
        BY <1>6, <3>1
      <4> QED
        BY <1>5, <1>9, <3>1, <4>1
    <3>2. CASE k # r + 1
      <4>1. k \in 1..r /\ g + k \in 1..L
        BY <1>6, <3>2
      <4>2. q[k] = kept[k] /\ kept[k] = failed[a][g + k] /\ failed'[a][g + k] = failed[a][g + k]
        BY <1>5, <1>7, <1>9, <4>1
      <4> QED
        BY <4>2
    <3> QED
      BY <3>1, <3>2
  <2> QED
    BY <1>5, <1>6, <1>8, <2>2, <2>3, <2>4 DEF QueueIsRecent
<1>13. FullIsLocked(a)'
  BY <1>1, <1>5, <1>8, <1>9 DEF FullIsLocked
\* All that stays lies within the window.
<1>14. \A k \in (g + 1)..(L + 1) : failed'[a][k] <= now /\ failed'[a][k] + Window >= now
  <2> SUFFICES ASSUME NEW k \in (g + 1)..(L + 1)
               PROVE  failed'[a][k] <= now /\ failed'[a][k] + Window >= now
    OBVIOUS
  <2>0. k = L + 1 => failed'[a][k] <= now /\ failed'[a][k] + Window >= now
    BY <1>1, <1>9
  <2> SUFFICES ASSUME k # L + 1 PROVE failed'[a][k] <= now /\ failed'[a][k] + Window >= now
    BY <2>0
  <2>1. n <= m /\ g + 1 \in 1..L /\ g + 1 = gone + n /\ k \in 1..L /\ g + 1 <= k /\ n \in 1..m
    BY <1>2a, <1>6
  <2>2. now - failed[a][g + 1] <= Window
    <3>1. now - fails[a][n] <= Window
      BY <1>3, <2>1, Zenon
    <3>2. fails[a][n] = failed[a][gone + n]
      BY <1>2, <2>1, Zenon
    <3> QED
      BY <2>1, <3>1, <3>2, Zenon
  <2>3. failed[a][g + 1] <= failed[a][k]
    BY <1>l, <2>1, Zenon DEF LockOK, Ordered
  <2>4. /\ failed[a][g + 1] \in Nat /\ failed[a][k] \in Nat /\ failed[a][k] <= now
        /\ failed'[a][k] = failed[a][k]
    BY <1>9, <1>10, <2>1
  <2>5. PICK x \in Nat, y \in Nat : x = failed[a][g + 1] /\ y = failed[a][k]
    BY <2>4, Zenon
  <2>6. y <= now /\ now - x <= Window /\ x <= y
    BY <2>2, <2>3, <2>4, <2>5, Zenon
  <2>7. y + Window >= now
    BY <1>1, <2>6
  <2> QED
    BY <2>4, <2>5, <2>6, <2>7, Zenon
<1>15. /\ Cardinality(Fresh(a)) \in Nat /\ Cardinality(Fresh(a)') \in Nat
       /\ IsFiniteSet(Behind(a)') /\ Cardinality(Behind(a)') \in Nat
       /\ Cardinality(Verifying(a)) \in Nat /\ Cardinality(Verifying(a)') \in Nat
       /\ Cardinality(Verifying(a)') = Cardinality(Verifying(a)) - 1
       /\ Cardinality(Verifying(a)) <= Cardinality(Threads) /\ Cardinality(Threads) \in Nat
       /\ Cardinality(Fresh(a)') <= Cardinality(Fresh(a)) + 1
  <2>1. t \in Verifying(a) /\ Verifying(a)' = Verifying(a) \ {t}
    BY DEF Verifying, TypeOK
  <2>2. Fresh(a)' \subseteq Fresh(a) \cup {L + 1}
    <3>1. \A k \in 1..(L + 1) : k \in 1..L \/ k = L + 1
      OBVIOUS
    <3> QED
      BY <1>2, <1>9, <3>1 DEF Fresh
  <2>3. /\ IsFiniteSet(Fresh(a)) /\ Cardinality(Fresh(a)) \in Nat
        /\ IsFiniteSet(Verifying(a)) /\ Cardinality(Verifying(a)) \in Nat
        /\ Cardinality(Verifying(a)) <= Cardinality(Threads) /\ Cardinality(Threads) \in Nat
    BY CountsFinite
  <2>4. Cardinality(Verifying(a)') = Cardinality(Verifying(a)) - 1
    <3>1. Cardinality(Verifying(a) \ {t}) = Cardinality(Verifying(a)) - 1
      BY <2>1, <2>3, FS_RemoveElement
    <3> QED
      BY <2>1, <3>1
  <2>5. /\ IsFiniteSet(Fresh(a)')
        /\ Cardinality(Fresh(a)') <= Cardinality(Fresh(a) \cup {L + 1})
    BY <2>2, <2>3, FS_AddElement, FS_Subset
  <2>6. Cardinality(Fresh(a) \cup {L + 1}) \in {Cardinality(Fresh(a)), Cardinality(Fresh(a)) + 1}
    BY <2>3, FS_AddElement
  <2>7. IsFiniteSet(Verifying(a)') /\ IsFiniteSet(Behind(a)')
    <3>1. IsFiniteSet(Verifying(a)')
      BY <2>1, <2>3, FS_RemoveElement
    <3>2. Behind(a)' \subseteq 1..(L + 1)
      BY <1>9 DEF Behind
    <3>3. IsFiniteSet(1..(L + 1))
      BY FS_Interval
    <3> QED
      BY <3>1, <3>2, <3>3, FS_Subset
  <2>8. /\ Cardinality(Fresh(a)') \in Nat /\ Cardinality(Verifying(a)') \in Nat
        /\ Cardinality(Behind(a)') \in Nat
    BY <2>5, <2>7, FS_CardinalityType
  <2> QED
    BY <2>3, <2>4, <2>5, <2>6, <2>7, <2>8
<1>16. WithinBudget(a)'
  <2>1. CASE is_rate_limited(a)
    BY <1>15, <2>1 DEF LockOK, WithinBudget
  <2>2. CASE ~is_rate_limited(a)
    <3>1. Cardinality(Fresh(a)) < MaxAttempts
      BY <2>2, FreshUnlocked DEF LockOK
    <3> QED
      BY <1>15, <3>1 DEF WithinBudget
  <2> QED
    BY <2>1, <2>2
<1>17. Earned(a)'
  <2> SUFFICES ASSUME is_rate_limited(a)' PROVE MaxAttempts <= Cardinality(Behind(a)')
    BY DEF Earned
  <2>1. CASE Len(q) >= MaxAttempts
    <3>1. until'[a] = now + Window
      BY <1>8, <2>1
    <3>2. (g + 1)..(L + 1) \subseteq 1..(L + 1)
      BY <1>6
    <3>3. (g + 1)..(L + 1) \subseteq Behind(a)'
      <4>1. \A k \in (g + 1)..(L + 1) :
               /\ k \in 1..(L + 1) /\ failed'[a][k] \in Nat
               /\ failed'[a][k] + Window <= now + Window
               /\ failed'[a][k] + 2 * Window >= now + Window
        <5>1. \A k \in 1..(L + 1) : k \in 1..L \/ k = L + 1
          OBVIOUS
        <5>2. \A k \in 1..(L + 1) : failed'[a][k] \in Nat
          BY <1>1, <1>9, <5>1
        <5>3. \A x \in Nat : x <= now /\ x + Window >= now =>
                 x + Window <= now + Window /\ x + 2 * Window >= now + Window
          BY <1>1
        <5> QED
          BY <1>14, <3>2, <5>2, <5>3
      <4> QED
        BY <1>9, <3>1, <4>1 DEF Behind
    <3>4. Cardinality((g + 1)..(L + 1)) = r + 1
      <4>1. g + 1 \in Int /\ L + 1 \in Int
        BY <1>6
      <4>2. Cardinality((g + 1)..(L + 1)) = IF g + 1 > L + 1 THEN 0 ELSE (L + 1) - (g + 1) + 1
        BY <4>1, FS_Interval
      <4> QED
        BY <1>6, <4>2
    <3>5. Cardinality((g + 1)..(L + 1)) <= Cardinality(Behind(a)')
      BY <1>15, <3>3, FS_Subset
    <3> QED
      BY <1>5, <1>6, <1>15, <2>1, <3>4, <3>5
  <2>2. CASE ~(Len(q) >= MaxAttempts)
    <3>1. until'[a] = until[a]
      BY <1>8, <2>2
    <3>2. is_rate_limited(a)
      BY <3>1 DEF is_rate_limited
    <3>3. Behind(a) \subseteq Behind(a)'
      <4>1. \A k \in 1..L : k \in 1..(L + 1)
        OBVIOUS
      <4> QED
        BY <1>2, <1>9, <3>1, <4>1 DEF Behind
    <3>4. Cardinality(Behind(a)) <= Cardinality(Behind(a)')
      BY <1>15, <3>3, FS_Subset
    <3>5. Cardinality(Behind(a)) \in Nat
      BY CountsFinite
    <3> QED
      BY <1>15, <3>2, <3>4, <3>5 DEF LockOK, Earned
  <2> QED
    BY <2>1, <2>2
<1> QED
  BY <1>11, <1>12, <1>13, <1>16, <1>17 DEF LockOK

\* The types: every request carries an identity or a session, and times are bounded.
LEMMA TypesInit == Init => TypeOK
<1> SUFFICES ASSUME Init PROVE TypeOK
  OBVIOUS
<1> USE AuthAssumption
<1>1. fails \in [Accounts -> Seq(0..MaxTime)] /\ failed \in [Accounts -> Seq(0..MaxTime)]
  BY DEF Init
<1>2. until \in [Accounts -> Times] /\ now \in 0..MaxTime /\ logins \in 0..MaxLogins
  BY DEF Init, Times
<1>3. call \in [Threads -> Call] /\ row \in [Ids -> {"none", "live", "revoked"}]
  BY DEF Init, Call
<1>4. /\ token \in Seq([owner : Accounts, expires : Times]) /\ Len(token) <= MaxSessions
      /\ told \subseteq Ids /\ alone \subseteq Ids /\ cut \subseteq Ids
  BY DEF Init
<1> QED
  BY <1>1, <1>2, <1>3, <1>4 DEF TypeOK

\* A step of a request keeps the type of what it does not change.
LEMMA TypesOfLogin ==
    ASSUME TypeOK, NEW t \in Threads, Login(t)
    PROVE  TypeOK'
<1> USE AuthAssumption
<1>t. call \in [Threads -> Call] /\ call[t] \in Call /\ Idle \in Call
  BY DEF TypeOK, Call
<1>1. ASSUME NEW a \in Accounts
      PROVE  [until EXCEPT ![a] = 0] \in [Accounts -> Times]
  BY DEF TypeOK, Times
<1>2. ASSUME NEW a \in Accounts, LoginBegin(t, a) PROVE TypeOK'
  <2>1. [op |-> "verify", account |-> a] \in Call
    BY DEF Call
  <2>2. call' \in [Threads -> Call]
    BY <1>2, <1>t, <2>1 DEF LoginBegin, Goto
  <2>3. until' \in [Accounts -> Times] /\ logins' \in 0..MaxLogins
    BY <1>1, <1>2 DEF LoginBegin, ForgetLock, TypeOK
  <2> QED
    BY <1>2, <2>2, <2>3 DEF LoginBegin, TypeOK, sessions
<1>3. ASSUME call[t].op \in {"verify", "refuse", "issue"}
      PROVE  /\ call[t].account \in Accounts
             /\ [op |-> "refuse", account |-> call[t].account] \in Call
             /\ [op |-> "issue", account |-> call[t].account] \in Call
  <2>1. call[t].account \in Accounts
    BY <1>3, <1>t, CallFields
  <2> QED
    BY <2>1 DEF Call
<1>4. CASE LoginDisabled(t)
  <2>1. call' \in [Threads -> Call]
    BY <1>4, <1>t DEF LoginDisabled, Goto
  <2> QED
    BY <1>4, <2>1 DEF LoginDisabled, TypeOK, lockout, sessions
<1>5. CASE LoginFails(t)
  <2> DEFINE a == call[t].account
  <2>1. a \in Accounts /\ [op |-> "refuse", account |-> a] \in Call
    BY <1>3, <1>5 DEF LoginFails
  <2>2. call' \in [Threads -> Call] /\ record_failed_attempt(a)
    BY <1>5, <1>t, <2>1 DEF LoginFails, Goto
  <2>3. /\ fails[a] \in Seq(0..MaxTime) /\ failed[a] \in Seq(0..MaxTime) /\ now \in 0..MaxTime
        /\ fails[a] \in Seq(Nat) /\ now \in Nat
    BY <2>1, RecordTypes DEF TypeOK
  <2> HIDE DEF a
  <2>4. Recent(fails[a]) \in Seq(0..MaxTime)
    <3>1. PICK n \in 1..(Len(fails[a]) + 1) :
             Recent(fails[a]) = SubSeq(fails[a], n, Len(fails[a]))
      BY <2>3, RecentKeeps
    <3>2. Len(fails[a]) \in Nat
      BY <2>3
    <3>3. \A i \in n..Len(fails[a]) : fails[a][i] \in 0..MaxTime
      BY <2>3, <3>2
    <3>4. n \in Int /\ Len(fails[a]) \in Int
      BY <3>2
    <3>5. SubSeq(fails[a], n, Len(fails[a])) \in Seq(0..MaxTime)
      BY <3>3, <3>4, SubSeqProperties, Zenon
    <3> QED
      BY <3>1, <3>5
  <2>5. Append(Recent(fails[a]), now) \in Seq(0..MaxTime) /\ Append(failed[a], now) \in Seq(0..MaxTime)
    BY <2>3, <2>4, AppendProperties
  <2>6. fails' \in [Accounts -> Seq(0..MaxTime)] /\ failed' \in [Accounts -> Seq(0..MaxTime)]
    BY <2>1, <2>2, <2>5 DEF record_failed_attempt, TypeOK
  <2>7. until' \in [Accounts -> Times]
    <3>1. now + Window \in Times /\ until \in [Accounts -> Times]
      BY <2>3 DEF Times, TypeOK
    <3> QED
      BY <2>1, <2>2, <3>1 DEF record_failed_attempt
  <2> QED
    BY <1>5, <2>2, <2>6, <2>7 DEF LoginFails, TypeOK, sessions
<1>6. CASE LoginRefuse(t)
  <2>1. call' \in [Threads -> Call] /\ call[t].account \in Accounts
    BY <1>3, <1>6, <1>t DEF LoginRefuse, Goto
  <2>2. until' \in [Accounts -> Times]
    BY <1>1, <1>6, <2>1 DEF LoginRefuse, ForgetLock, TypeOK
  <2> QED
    BY <1>6, <2>1, <2>2 DEF LoginRefuse, TypeOK, sessions
<1>7. CASE LoginVerified(t)
  <2>1. call' \in [Threads -> Call] /\ call[t].account \in Accounts
    BY <1>3, <1>7, <1>t DEF LoginVerified, Goto
  <2>2. /\ until' \in [Accounts -> Times]
        /\ fails' \in [Accounts -> Seq(0..MaxTime)] /\ failed' \in [Accounts -> Seq(0..MaxTime)]
    BY <1>1, <1>7, <2>1 DEF LoginVerified, reset_failed_attempts, TypeOK
  <2> QED
    BY <1>7, <2>1, <2>2 DEF LoginVerified, TypeOK, sessions
<1>8. CASE IssueToken(t)
  <2> DEFINE new == [owner |-> call[t].account, expires |-> now + Life]
  <2>1. token \in Seq([owner : Accounts, expires : Times]) /\ Len(token) \in Nat /\ now \in 0..MaxTime
    BY DEF TypeOK
  <2>2. new \in [owner : Accounts, expires : Times]
    BY <1>3, <1>8, <2>1 DEF IssueToken, Times
  <2>3. token' \in Seq([owner : Accounts, expires : Times]) /\ Len(token') = Len(token) + 1
    <3> HIDE DEF new
    <3>1. token' = Append(token, new)
      BY <1>8 DEF IssueToken, new
    <3> QED
      BY <2>1, <2>2, <3>1, AppendProperties
  <2>4. Len(token') \in Ids /\ Len(token') <= MaxSessions
    BY <1>8, <2>1, <2>3 DEF IssueToken, Ids
  <2>5. [op |-> "persist", id |-> Len(token')] \in Call
    BY <2>4 DEF Call
  <2>6. call' \in [Threads -> Call]
    BY <1>8, <1>t, <2>5 DEF IssueToken, Goto
  <2> QED
    BY <1>8, <2>3, <2>4, <2>6 DEF IssueToken, TypeOK, lockout
<1>9. CASE PersistSession(t)
  <2>1. call' \in [Threads -> Call] /\ call[t].id \in Ids
    BY <1>9, <1>t, CallFields DEF PersistSession, Goto
  <2>2. row' \in [Ids -> {"none", "live", "revoked"}]
    BY <1>9, <2>1 DEF PersistSession, TypeOK
  <2> QED
    BY <1>9, <2>1, <2>2 DEF PersistSession, TypeOK, lockout
<1> QED
  BY <1>2, <1>4, <1>5, <1>6, <1>7, <1>8, <1>9 DEF Login

\* A step of a request that ends sessions keeps the types.
LEMMA TypesOfRevocation ==
    ASSUME TypeOK, NEW t \in Threads, Revocation(t)
    PROVE  TypeOK'
<1> USE AuthAssumption
<1>t. call \in [Threads -> Call] /\ call[t] \in Call /\ Idle \in Call
  BY DEF TypeOK, Call
<1>r. \A ids : Revoked(ids) \in [Ids -> {"none", "live", "revoked"}]
  BY DEF Revoked, TypeOK
<1>i. Issued \subseteq Ids
  BY DEF TypeOK, Issued, Ids
<1>c. \A i \in Ids : [op |-> "tell", id |-> i] \in Call /\ [op |-> "logout", id |-> i] \in Call
  BY DEF Call
<1>1. ASSUME NEW i \in Ids, LogoutBegin(t, i) PROVE TypeOK'
  <2>1. call' \in [Threads -> Call]
    BY <1>1, <1>t, <1>c DEF LogoutBegin, Goto
  <2> QED
    BY <1>1, <2>1 DEF LogoutBegin, TypeOK, lockout, sessions
<1>2. ASSUME NEW i \in Ids, RevokeSession(t, i) PROVE TypeOK'
  <2>1. call' \in [Threads -> Call]
    BY <1>2, <1>t, <1>c DEF RevokeSession, Goto
  <2> QED
    BY <1>2, <1>r, <2>1 DEF RevokeSession, TypeOK, lockout
<1>3. CASE LogoutRevoke(t)
  <2>1. call[t].id \in Ids /\ call[t] = [op |-> "logout", id |-> call[t].id]
    BY <1>3, <1>t, CallFields DEF LogoutRevoke
  <2>2. [call[t] EXCEPT !.op = "tell"] = [op |-> "tell", id |-> call[t].id]
    BY <2>1
  <2>3. call' \in [Threads -> Call]
    BY <1>3, <1>t, <1>c, <2>1, <2>2 DEF LogoutRevoke, Goto
  <2>4. row' \in [Ids -> {"none", "live", "revoked"}]
    BY <1>3, <1>r DEF LogoutRevoke, TypeOK
  <2> QED
    BY <1>3, <2>1, <2>3, <2>4 DEF LogoutRevoke, TypeOK, lockout
<1>4. CASE TellBroker(t)
  <2>1. call' \in [Threads -> Call] /\ call[t].id \in Ids
    BY <1>4, <1>t, CallFields DEF TellBroker, Goto
  <2> QED
    BY <1>4, <2>1 DEF TellBroker, TypeOK, lockout
<1>5. ASSUME NEW a \in Accounts, RevokeAllSessions(t, a) PROVE TypeOK'
  BY <1>5, <1>r, <1>i DEF RevokeAllSessions, TypeOK, lockout, OwnedBy
<1>6. CASE TerminateAllSessions(t)
  BY <1>6, <1>r DEF TerminateAllSessions, TypeOK, lockout
<1> QED
  BY <1>1, <1>2, <1>3, <1>4, <1>5, <1>6 DEF Revocation

\* Every step keeps the types, with the bounds of the counters.
LEMMA TypesStep == TypeOK /\ [Next]_vars => TypeOK'
<1> SUFFICES ASSUME TypeOK, [Next]_vars PROVE TypeOK'
  OBVIOUS
<1>1. CASE Tick
  BY <1>1, AuthAssumption DEF Tick, TypeOK, lockout, sessions
<1>2. CASE UNCHANGED vars
  BY <1>2 DEF vars, TypeOK, lockout, sessions
<1> QED
  BY <1>1, <1>2, TypesOfLogin, TypesOfRevocation DEF Next

\* Every step keeps the record of every identity in order.
LEMMA LockStep == LockInv /\ [Next]_vars => LockInv'
<1> SUFFICES ASSUME LockInv, [Next]_vars, NEW a \in Accounts PROVE LockOK(a)'
  BY TypesStep DEF LockInv
<1>0. TypeOK /\ TypeOK' /\ LockOK(a) /\ now \in Nat
  BY TypesStep, RecordTypes DEF LockInv
<1>t. call \in [Threads -> Call]
  BY <1>0 DEF TypeOK
\* A request that does not get to verify a password leaves those that do as they are.
<1>v. ASSUME NEW t \in Threads, NEW c, call' = [call EXCEPT ![t] = c],
             c # [op |-> "verify", account |-> a]
      PROVE  Verifying(a)' \subseteq Verifying(a)
  <2>1. call'[t] # [op |-> "verify", account |-> a]
    BY <1>v, <1>t
  <2>2. \A u \in Threads : u # t => call'[u] = call[u]
    BY <1>v, <1>t
  <2> QED
    BY <2>1, <2>2 DEF Verifying
<1>1. ASSUME NEW t \in Threads, NEW b \in Accounts, LoginBegin(t, b) PROVE LockOK(a)'
  <2>1. /\ fails' = fails /\ failed' = failed /\ now' = now
        /\ until'[a] = until[a] \/ (~is_rate_limited(a) /\ until'[a] = 0)
    BY <1>0, <1>1 DEF LoginBegin, ForgetLock, TypeOK
  <2>2. is_rate_limited(a) => Verifying(a)' \subseteq Verifying(a)
    <3> SUFFICES ASSUME is_rate_limited(a) PROVE Verifying(a)' \subseteq Verifying(a)
      OBVIOUS
    <3>1. a # b
      BY <1>1 DEF LoginBegin
    <3>2. [op |-> "verify", account |-> b] # [op |-> "verify", account |-> a]
      BY <3>1
    <3>3. call' = [call EXCEPT ![t] = [op |-> "verify", account |-> b]]
      BY <1>1 DEF LoginBegin, Goto
    <3> QED
      BY <1>v, <3>2, <3>3, Zenon
  <2> QED
    BY <1>0, <2>1, <2>2, LockKept
<1>2. ASSUME NEW t \in Threads, LoginFails(t) PROVE LockOK(a)'
  <2> DEFINE b == call[t].account
  <2>1. b \in Accounts /\ call[t] = [op |-> "verify", account |-> b]
    BY <1>2, <1>t DEF LoginFails, Call, Idle
  <2>2. /\ call' = [call EXCEPT ![t] = [op |-> "refuse", account |-> b]]
        /\ now' = now /\ record_failed_attempt(b)
    BY <1>2 DEF LoginFails, Goto
  <2> HIDE DEF b
  <2>3. CASE a = b
    BY <1>0, <2>1, <2>2, <2>3, LockRecord
  <2>4. CASE a # b
    <3>1. fails'[a] = fails[a] /\ failed'[a] = failed[a] /\ until'[a] = until[a]
      BY <1>0, <2>2, <2>4 DEF record_failed_attempt, TypeOK
    <3>2. Verifying(a)' \subseteq Verifying(a)
      <4>1. [op |-> "refuse", account |-> b] # [op |-> "verify", account |-> a]
        OBVIOUS
      <4> QED
        BY <1>v, <2>2, <4>1, Zenon
    <3> QED
      BY <1>0, <2>2, <3>1, <3>2, LockKept
  <2> QED
    BY <2>3, <2>4
<1>3. ASSUME NEW t \in Threads, LoginRefuse(t) PROVE LockOK(a)'
  <2>1. /\ fails' = fails /\ failed' = failed /\ now' = now
        /\ until'[a] = until[a] \/ (~is_rate_limited(a) /\ until'[a] = 0)
    BY <1>0, <1>3 DEF LoginRefuse, ForgetLock, TypeOK
  <2>2. Verifying(a)' \subseteq Verifying(a)
    <3>1. Idle # [op |-> "verify", account |-> a]
      BY DEF Idle
    <3>2. call' = [call EXCEPT ![t] = Idle]
      BY <1>3 DEF LoginRefuse, Goto
    <3> QED
      BY <1>v, <3>1, <3>2, Zenon
  <2> QED
    BY <1>0, <2>1, <2>2, LockKept
<1>4. ASSUME NEW t \in Threads, LoginVerified(t) PROVE LockOK(a)'
  <2> DEFINE b == call[t].account
  <2>1. /\ call' = [call EXCEPT ![t] = [op |-> "issue", account |-> b]]
        /\ now' = now /\ reset_failed_attempts(b)
    BY <1>4 DEF LoginVerified, Goto
  <2> HIDE DEF b
  <2>2. CASE a = b
    BY <1>0, <2>1, <2>2, LockReset DEF reset_failed_attempts, TypeOK
  <2>3. CASE a # b
    <3>1. fails'[a] = fails[a] /\ failed'[a] = failed[a] /\ until'[a] = until[a]
      BY <1>0, <2>1, <2>3 DEF reset_failed_attempts, TypeOK
    <3>2. Verifying(a)' \subseteq Verifying(a)
      <4>1. [op |-> "issue", account |-> b] # [op |-> "verify", account |-> a]
        OBVIOUS
      <4> QED
        BY <1>v, <2>1, <4>1, Zenon
    <3> QED
      BY <1>0, <2>1, <3>1, <3>2, LockKept
  <2> QED
    BY <2>2, <2>3
<1>5. ASSUME UNCHANGED lockout, now' = now \/ now' = now + 1,
             Verifying(a)' \subseteq Verifying(a)
      PROVE  LockOK(a)'
  <2>1. now' >= now
    BY <1>0, <1>5
  <2> QED
    BY <1>0, <1>5, <2>1, LockKept DEF lockout
<1>6. ASSUME NEW t \in Threads, NEW c, Goto(t, c), c.op # "verify", UNCHANGED <<now, lockout>>
      PROVE  LockOK(a)'
  <2>1. c # [op |-> "verify", account |-> a]
    BY <1>6
  <2>2. Verifying(a)' \subseteq Verifying(a)
    BY <1>6, <1>v, <2>1, Zenon DEF Goto
  <2> QED
    BY <1>5, <1>6, <2>2
<1>8. ASSUME NEW t \in Threads, LoginDisabled(t) \/ PersistSession(t) \/ TellBroker(t)
      PROVE  LockOK(a)'
  <2>1. Goto(t, Idle) /\ UNCHANGED <<now, lockout>>
    BY <1>8 DEF LoginDisabled, PersistSession, TellBroker
  <2>2. Idle.op # "verify"
    BY DEF Idle
  <2> QED
    BY <1>6, <2>1, <2>2
<1>9. ASSUME NEW t \in Threads, IssueToken(t) PROVE LockOK(a)'
  <2>1. Goto(t, [op |-> "persist", id |-> Len(token')]) /\ UNCHANGED <<now, lockout>>
    BY <1>9 DEF IssueToken
  <2>2. [op |-> "persist", id |-> Len(token')].op # "verify"
    OBVIOUS
  <2> QED
    BY <1>6, <2>1, <2>2
<1>10. ASSUME NEW t \in Threads, LogoutRevoke(t) PROVE LockOK(a)'
  <2>1. Goto(t, [call[t] EXCEPT !.op = "tell"]) /\ UNCHANGED <<now, lockout>>
    BY <1>10 DEF LogoutRevoke
  <2>2. call[t] = [op |-> "logout", id |-> call[t].id]
    BY <1>10, <1>t, CallFields DEF LogoutRevoke
  <2>3. [call[t] EXCEPT !.op = "tell"].op # "verify"
    BY <2>2
  <2> QED
    BY <1>6, <2>1, <2>3
<1>11. ASSUME NEW t \in Threads, NEW i \in Ids, LogoutBegin(t, i) PROVE LockOK(a)'
  <2>1. Goto(t, [op |-> "logout", id |-> i]) /\ UNCHANGED <<now, lockout>>
    BY <1>11 DEF LogoutBegin
  <2>2. [op |-> "logout", id |-> i].op # "verify"
    OBVIOUS
  <2> QED
    BY <1>6, <2>1, <2>2
<1>12. ASSUME NEW t \in Threads, NEW i \in Ids, RevokeSession(t, i) PROVE LockOK(a)'
  <2>1. Goto(t, [op |-> "tell", id |-> i]) /\ UNCHANGED <<now, lockout>>
    BY <1>12 DEF RevokeSession
  <2>2. [op |-> "tell", id |-> i].op # "verify"
    OBVIOUS
  <2> QED
    BY <1>6, <2>1, <2>2
<1>7. CASE Tick \/ (\E t \in Threads : TerminateAllSessions(t)) \/ UNCHANGED vars
           \/ (\E t \in Threads, b \in Accounts : RevokeAllSessions(t, b))
  <2>1. UNCHANGED <<lockout, call>> /\ (now' = now \/ now' = now + 1)
    BY <1>7 DEF Tick, TerminateAllSessions, RevokeAllSessions, vars
  <2>2. Verifying(a)' = Verifying(a)
    BY <2>1 DEF Verifying
  <2> QED
    BY <1>5, <2>1, <2>2
<1> QED
  BY <1>1, <1>2, <1>3, <1>4, <1>7, <1>8, <1>9, <1>10, <1>11, <1>12
     DEF Next, Login, Revocation

\* The lock-out (AuthenticationMiddleware.cpp:399-438): however many requests of however
\* many threads overlap, no more attempts of an identity fail within a window than
\* max_attempts and one for each other thread, and nobody is locked out who has not
\* failed max_attempts times within the window before the lock began.
THEOREM LockoutHolds == Spec => []LockoutInv
<1>1. Init => LockInv
  <2> SUFFICES ASSUME Init, NEW a \in Accounts PROVE LockOK(a)
    BY TypesInit DEF LockInv
  <2>1. fails[a] = <<>> /\ failed[a] = <<>> /\ until[a] = 0 /\ now = 0
    BY DEF Init
  <2>2. Ordered(a) /\ FullIsLocked(a) /\ ~is_rate_limited(a)
    BY <2>1, AuthAssumption DEF Ordered, FullIsLocked, is_rate_limited
  <2>3. Len(failed[a]) = 0 + Len(fails[a]) /\ 0 \in Nat
    BY <2>1
  <2>4. QueueIsRecent(a)
    BY <2>1, <2>3 DEF QueueIsRecent
  <2> QED
    BY <2>2, <2>4 DEF LockOK, WithinBudget, Earned
<1>2. LockInv => LockoutInv
  <2> SUFFICES ASSUME LockInv PROVE LockoutInv
    OBVIOUS
  <2>1. ASSUME NEW a \in Accounts
        PROVE  Cardinality(Fresh(a)) < MaxAttempts + Cardinality(Threads)
    <3>1. TypeOK /\ LockOK(a)
      BY DEF LockInv
    <3>2. CASE is_rate_limited(a)
      BY <3>1, <3>2, CountsFinite, AuthAssumption DEF LockOK, WithinBudget
    <3>3. CASE ~is_rate_limited(a)
      BY <3>1, <3>3, FreshUnlocked, CountsFinite, AuthAssumption DEF LockOK
    <3> QED
      BY <3>2, <3>3
  <2>2. AttemptsBounded
    BY <2>1 DEF AttemptsBounded, Fresh
  <2>3. LockoutIsEarned
    BY DEF LockInv, LockOK, Earned, LockoutIsEarned, Behind
  <2> QED
    BY <2>2, <2>3 DEF LockoutInv, LockInv
<1> QED
  BY <1>1, <1>2, LockStep, PTL DEF Spec
=============================================================================
