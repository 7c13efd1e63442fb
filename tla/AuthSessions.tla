---------------------------- MODULE AuthSessions ----------------------------
(***************************************************************************)
(* Logins and sessions: the lock-out and the session functions of          *)
(* isched_AuthenticationMiddleware.cpp, the sessions table of              *)
(* isched_DatabaseManager.cpp, and the resolvers login, logout,            *)
(* revokeSession, revokeAllSessions and terminateAllSessions of            *)
(* isched_GqlExecutor.cpp.                                                 *)
(*                                                                         *)
(* A request runs on one thread.  Each access to the lock-out state        *)
(* (rate_limit_mutex_) and each SQL statement is atomic; anything may      *)
(* happen in between, above all while a password is verified, which is     *)
(* slow on purpose.  Sessions are numbered in the order in which their     *)
(* tokens are signed.                                                      *)
(***************************************************************************)
EXTENDS Naturals, Sequences, FiniteSets

CONSTANTS Threads,
          Accounts,      \* an organisation's users, by lock-out identity
          Holders,       \* the accounts whose roles contain platform_admin
          Window, MaxAttempts,    \* of get_rate_limit_config
          Life,          \* of a token
          MaxSessions,   \* bound on sessions
          MaxLogins,     \* bound on logins
          MaxTime        \* bound on the clock

ASSUME AuthAssumption ==
    /\ IsFiniteSet(Threads) /\ Holders \subseteq Accounts
    /\ Window \in Nat \ {0} /\ MaxAttempts \in Nat \ {0} /\ Life \in Nat
    /\ MaxSessions \in Nat /\ MaxLogins \in Nat /\ MaxTime \in Nat

VARIABLES
    now,
    logins,    \* number of logins so far
    fails,     \* failed_attempts of each identity, oldest first
    until,     \* locked_until of each identity, or 0
    failed,    \* history: when each identity's attempts failed since its last success
    call,      \* the request each thread is serving
    token,     \* the signed tokens: owner and expiry
    row,       \* sessions table: "none", "live" or "revoked"
    told,      \* sessions whose revocation the broker was told of
    alone,     \* history: sessions that logout or revokeSession has revoked
    cut        \* history: sessions a client had when revokeAllSessions changed their owner's rows

lockout  == <<fails, until, failed>>
sessions == <<token, row, told, alone, cut>>
vars     == <<now, logins, lockout, call, sessions>>

Ids   == 1..MaxSessions
Times == 0..(MaxTime + Window + Life)

Idle == [op |-> "idle"]

Call == {Idle}
   \cup [op : {"verify", "refuse", "issue"}, account : Accounts]
   \cup [op : {"persist", "logout", "tell"}, id : Ids]

TypeOK ==
    /\ now \in 0..MaxTime /\ logins \in 0..MaxLogins
    /\ fails \in [Accounts -> Seq(0..MaxTime)]
    /\ until \in [Accounts -> Times]
    /\ failed \in [Accounts -> Seq(0..MaxTime)]
    /\ call \in [Threads -> Call]
    /\ token \in Seq([owner : Accounts, expires : Times]) /\ Len(token) <= MaxSessions
    /\ row \in [Ids -> {"none", "live", "revoked"}]
    /\ told \subseteq Ids /\ alone \subseteq Ids /\ cut \subseteq Ids

Init ==
    /\ now = 0 /\ logins = 0
    /\ fails = [a \in Accounts |-> <<>>] /\ until = [a \in Accounts |-> 0]
    /\ failed = [a \in Accounts |-> <<>>]
    /\ call = [t \in Threads |-> Idle]
    /\ token = <<>> /\ row = [i \in Ids |-> "none"]
    /\ told = {} /\ alone = {} /\ cut = {}

Goto(t, c) == call' = [call EXCEPT ![t] = c]

-----------------------------------------------------------------------------
(* The lock-out                                                            *)

\* is_rate_limited, which forgets a lock that has run out.
is_rate_limited(a) == until[a] > now

ForgetLock(a) ==
    until' = IF is_rate_limited(a) THEN until ELSE [until EXCEPT ![a] = 0]

\* The attempts older than the window leave the queue at its front, up to the first that
\* is not.
Recent(q) ==
    LET first == CHOOSE n \in 1..(Len(q) + 1) :
                    /\ \A k \in 1..(n - 1) : now - q[k] > Window
                    /\ n <= Len(q) => now - q[n] <= Window
    IN  SubSeq(q, first, Len(q))

\* record_failed_attempt
record_failed_attempt(a) ==
    LET q == Append(Recent(fails[a]), now)
    IN  /\ fails' = [fails EXCEPT ![a] = q]
        /\ until' = IF Len(q) >= MaxAttempts
                    THEN [until EXCEPT ![a] = now + Window] ELSE until
        /\ failed' = [failed EXCEPT ![a] = Append(@, now)]

\* reset_failed_attempts forgets the identity.
reset_failed_attempts(a) ==
    /\ fails' = [fails EXCEPT ![a] = <<>>]
    /\ until' = [until EXCEPT ![a] = 0]
    /\ failed' = [failed EXCEPT ![a] = <<>>]

-----------------------------------------------------------------------------
(* login                                                                   *)

\* Mutant: the lock-out is not looked at before the password is.
LoginBeginUnlocked(t, a) ==
    /\ call[t] = Idle
    /\ logins < MaxLogins /\ logins' = logins + 1
    /\ Goto(t, [op |-> "verify", account |-> a])
    /\ UNCHANGED <<now, lockout, sessions>>

\* A login of an identity that is locked out is refused at once.
LoginBegin(t, a) ==
    /\ call[t] = Idle
    /\ logins < MaxLogins /\ logins' = logins + 1
    /\ ~is_rate_limited(a)
    /\ ForgetLock(a)
    /\ Goto(t, [op |-> "verify", account |-> a])
    /\ UNCHANGED <<now, fails, failed, sessions>>

\* The account is disabled: refused without a record.
LoginDisabled(t) ==
    /\ call[t].op = "verify"
    /\ Goto(t, Idle)
    /\ UNCHANGED <<now, logins, lockout, sessions>>

\* fail_login_attempt: no such account, or verify_password says no.
LoginFails(t) ==
    /\ call[t].op = "verify"
    /\ record_failed_attempt(call[t].account)
    /\ Goto(t, [op |-> "refuse", account |-> call[t].account])
    /\ UNCHANGED <<now, logins, sessions>>

\* Its second half asks is_rate_limited again, for the answer's wording.
LoginRefuse(t) ==
    /\ call[t].op = "refuse"
    /\ ForgetLock(call[t].account)
    /\ Goto(t, Idle)
    /\ UNCHANGED <<now, logins, fails, failed, sessions>>

LoginVerified(t) ==
    /\ call[t].op = "verify"
    /\ reset_failed_attempts(call[t].account)
    /\ Goto(t, [op |-> "issue", account |-> call[t].account])
    /\ UNCHANGED <<now, logins, sessions>>

\* create_session signs the token, whose jti is the new session's id ...
IssueToken(t) ==
    /\ call[t].op = "issue" /\ Len(token) < MaxSessions
    /\ token' = Append(token, [owner |-> call[t].account, expires |-> now + Life])
    /\ Goto(t, [op |-> "persist", id |-> Len(token')])
    /\ UNCHANGED <<now, logins, lockout, row, told, alone, cut>>

\* ... and inserts the row.  When that fails, or the tenant has no sessions table (the
\* platform's has none), the client gets its token all the same.
PersistSession(t) ==
    /\ call[t].op = "persist"
    /\ row' \in {row, [row EXCEPT ![call[t].id] = "live"]}
    /\ Goto(t, Idle)
    /\ UNCHANGED <<now, logins, lockout, token, told, alone, cut>>

-----------------------------------------------------------------------------
(* Tokens                                                                  *)

Issued == 1..Len(token)

\* The sessions whose token a client has.
Delivered == Issued \ {call[t].id : t \in {u \in Threads : call[u].op = "persist"}}

\* validate_request: signature and expiry, no look at the table.
validate_request(i) == now <= token[i].expires

\* One statement reads the row.
get_session(i) == row[i]

\* Mutant: a session without a row is refused.
ValidateTokenStrict(i) == validate_request(i) /\ get_session(i) = "live"

\* validate_token where get_session works: a session without a row is accepted on its
\* token's word (and so is every session when get_session fails).
validate_token(i) == validate_request(i) /\ get_session(i) # "revoked"

-----------------------------------------------------------------------------
(* Ends of sessions                                                        *)

\* A request is let in on its token alone; its session is the context's.
LogoutBegin(t, i) ==
    /\ call[t] = Idle
    /\ i \in Delivered /\ validate_request(i)
    /\ Goto(t, [op |-> "logout", id |-> i])
    /\ UNCHANGED <<now, logins, lockout, sessions>>

Revoked(ids) == [i \in Ids |-> IF i \in ids /\ row[i] = "live" THEN "revoked" ELSE row[i]]

\* Mutant: a logout stops where the statement finds no row to change.
LogoutRevokeStops(t) ==
    /\ call[t].op = "logout"
    /\ row' = Revoked({call[t].id})
    /\ alone' = alone \cup {call[t].id}
    /\ Goto(t, IF row' = row THEN Idle ELSE [call[t] EXCEPT !.op = "tell"])
    /\ UNCHANGED <<now, logins, lockout, token, told, cut>>

\* revoke_session; logout ignores whether it succeeds.
LogoutRevoke(t) ==
    /\ call[t].op = "logout"
    /\ row' \in {row, Revoked({call[t].id})}
    /\ alone' = alone \cup {call[t].id}
    /\ Goto(t, [call[t] EXCEPT !.op = "tell"])
    /\ UNCHANGED <<now, logins, lockout, token, told, cut>>

\* revokeSession ends with "Session not found" unless it changes the row.
RevokeSession(t, i) ==
    /\ call[t] = Idle
    /\ row[i] = "live"
    /\ row' = Revoked({i})
    /\ alone' = alone \cup {i}
    /\ Goto(t, [op |-> "tell", id |-> i])
    /\ UNCHANGED <<now, logins, lockout, token, told, cut>>

\* SubscriptionBroker::revoke_auth_session
TellBroker(t) ==
    /\ call[t].op = "tell"
    /\ told' = told \cup {call[t].id}
    /\ Goto(t, Idle)
    /\ UNCHANGED <<now, logins, lockout, token, row, alone, cut>>

OwnedBy(as) == {i \in Issued : token[i].owner \in as}

\* Mutant: only the newest session is revoked.
RevokeNewestSession(t, a) ==
    /\ call[t] = Idle
    /\ row' = Revoked(OwnedBy({a}) \cap {Len(token)})
    /\ cut' = cut \cup (OwnedBy({a}) \cap Delivered)
    /\ UNCHANGED <<now, logins, lockout, call, token, told, alone>>

\* revokeAllSessions: one statement, and the broker is not told.  A statement that fails is
\* ignored: the answer is true, and every row as it was.
RevokeAllSessions(t, a) ==
    /\ call[t] = Idle
    /\ \/ /\ row' = Revoked(OwnedBy({a}))
          /\ cut' = cut \cup (OwnedBy({a}) \cap Delivered)
       \/ UNCHANGED <<row, cut>>
    /\ UNCHANGED <<now, logins, lockout, call, token, told, alone>>

\* terminateAllSessions spares the rows whose roles contain platform_admin, and all of
\* them when its statement fails; it answers true either way.
TerminateAllSessions(t) ==
    /\ call[t] = Idle
    /\ row' \in {row, Revoked(OwnedBy(Accounts \ Holders))}
    /\ UNCHANGED <<now, logins, lockout, call, token, told, alone, cut>>

-----------------------------------------------------------------------------

Tick ==
    /\ now < MaxTime
    /\ now' = now + 1
    /\ UNCHANGED <<logins, lockout, call, sessions>>

Login(t) ==
    \/ \E a \in Accounts : LoginBegin(t, a)
    \/ LoginDisabled(t) \/ LoginFails(t) \/ LoginRefuse(t) \/ LoginVerified(t)
    \/ IssueToken(t) \/ PersistSession(t)

Revocation(t) ==
    \/ \E i \in Ids : LogoutBegin(t, i) \/ RevokeSession(t, i)
    \/ LogoutRevoke(t) \/ TellBroker(t)
    \/ \E a \in Accounts : RevokeAllSessions(t, a)
    \/ TerminateAllSessions(t)

Next ==
    \/ \E t \in Threads : Login(t) \/ Revocation(t)
    \/ Tick

Spec == Init /\ [][Next]_vars

-----------------------------------------------------------------------------
(* Properties                                                              *)

\* The lock-out is tested before a password is verified and counted after: still, no
\* more attempts fail within one window than MaxAttempts and one for each thread that
\* was past the test when the limit was reached.
AttemptsBounded ==
    \A a \in Accounts :
       Cardinality({k \in 1..Len(failed[a]) : now - failed[a][k] < Window})
         < MaxAttempts + Cardinality(Threads)

\* Nobody is locked out without MaxAttempts failures, since the last success, that all
\* lie within the window before the lock began.  They need not be in the queue any more:
\* an attempt that fails late, under the lock, may push some of them out.
LockoutIsEarned ==
    \A a \in Accounts :
       is_rate_limited(a) =>
          MaxAttempts <=
             Cardinality({k \in 1..Len(failed[a]) :
                             /\ failed[a][k] + Window <= until[a]
                             /\ failed[a][k] + 2 * Window >= until[a]})

\* A session that logout or revokeSession has ended is made known to the broker, or a
\* request is about to do so, whatever other revocations overlap with it.
RevocationIsTold ==
    \A i \in alone : i \in told \/ \E t \in Threads : call[t] = [op |-> "tell", id |-> i]

\* A client whose session the statement of revokeAllSessions met never gets past
\* validate_token with it, unless it has no row: no login in progress brings it back.  The
\* answer promises less: it is true, and nobody logged out, where the statement failed.
LoggedOutEverywhere ==
    \A i \in cut : validate_token(i) => row[i] = "none"

\* What validate_token refuses it refuses for good, as long as get_session works: nothing
\* revives a session.
RefusedForGood ==
    [][\A i \in Issued : ~validate_token(i) => ~validate_token(i)']_vars

\* A session of a platform_admin outlives every terminateAllSessions: it ends by its own
\* logout, by revokeSession or by revokeAllSessions only.
AdminSessionsSurvive ==
    \A i \in Issued : token[i].owner \in Holders /\ row[i] = "revoked" => i \in alone \cup cut

\* The lock-out, in every state: record_failed_attempt lets no more than its limit and the
\* attempts already past it through, and locks nobody out unearned.
LockoutInv == TypeOK /\ AttemptsBounded /\ LockoutIsEarned

\* The sessions table, in every state: a revokeAllSessions whose statement succeeds catches
\* all it met, terminateAllSessions none of a platform_admin's.
SessionsInv == LoggedOutEverywhere /\ AdminSessionsSurvive
=============================================================================
