------------------------- MODULE SubscriptionBroker -------------------------
(***************************************************************************)
(* The fan-out broker of isched_SubscriptionBroker.cpp: a contiguous       *)
(* vector of subscription records, three indices into it that the          *)
(* swap-with-last removal has to keep in step, and the table that ties an  *)
(* auth session (a JWT id) to the WebSocket it authenticated.              *)
(*                                                                         *)
(* Any thread may call any public method.  A method is one action for each *)
(* stretch it runs under Impl::mutex and one for each callback it makes    *)
(* after releasing it; call[t] is where thread t is between the two.  The  *)
(* loop of disconnect_session keeps the lock over several steps.           *)
(*                                                                         *)
(* The count callback is Server's adapt_pool, which makes threads: it may  *)
(* throw.  Out of a revocation the exception reaches GqlExecutor's try     *)
(* around the resolver and is dropped there; out of any other call it      *)
(* leaves a handler of the io pool or a destructor, and the process ends.  *)
(*                                                                         *)
(* Indices are 1-based and 0 is "no entry".  An index vector is kept as    *)
(* its set of indices: its order only decides in which order handlers are  *)
(* called and which record disconnect_session removes first, and the model *)
(* allows every order.  A missing key of an index map is the empty set.    *)
(***************************************************************************)
EXTENDS Naturals, Sequences, FiniteSets

CONSTANTS Threads,       \* threads of the io pool and the metrics publisher
          Sessions,      \* WebSocket session ids
          Topics,
          AuthSessions,  \* JWT ids
          MaxSubs,       \* bound on subscriptions ever made
          NoThread, NoSession, NoAuth

ASSUME BrokerAssumption ==
    /\ NoThread \notin Threads
    /\ NoSession \notin Sessions
    /\ NoAuth \notin AuthSessions
    /\ MaxSubs \in Nat

VARIABLES
    g_sub_id_counter,       \* last subscription id handed out
    mutex,                  \* thread inside a multi-step unique_lock section
    subscriptions,          \* vector of records
    subscription_id_index,  \* id -> index
    session_index,          \* session -> indices
    topic_index,            \* topic -> indices
    auth_sessions,          \* auth session -> WebSocket session
    ws_to_auth,             \* the reverse lookup
    call,                   \* what each thread is doing
    terminated,             \* sessions whose close callback has run
    \* History, which no step reads:
    shared,     \* auth sessions that two sockets were registered for at once
    rejoined    \* threads on their way to close a socket that registered again

store == <<subscriptions, subscription_id_index, session_index, topic_index>>
auth  == <<auth_sessions, ws_to_auth, shared, rejoined>>
vars  == <<g_sub_id_counter, mutex, store, auth, call, terminated>>

SubIds == 1..MaxSubs

\* The handler of a record is identified with the record.
SubscriptionRecord == [id : SubIds, session : Sessions, topic : Topics]

Idle == [op |-> "idle"]

\* "subscribe": has its id, waits for the lock.  "revoke": took the auth record
\* out, is about to call disconnect_session.  "erase": in the loop of
\* disconnect_session, holding the lock.  "notify": about to call the count
\* callback.  "thrown": the callback threw.  "close": about to call the close
\* callback.  "deliver": calling the handlers that publish copied.  Field close is
\* the socket to terminate
\* when the call was made by revoke_auth_session; id is the subscription id
\* that subscribe has yet to return, 0 in the other calls.
Call ==
       {Idle}
  \cup [op : {"subscribe"}, sub : SubscriptionRecord]
  \cup [op : {"revoke"}, close : Sessions]
  \cup [op : {"erase"}, session : Sessions, close : Sessions \cup {NoSession}]
  \cup [op : {"notify"}, count : Nat, close : Sessions \cup {NoSession}, id : Nat]
  \cup [op : {"thrown"}, close : Sessions \cup {NoSession}]
  \cup [op : {"close"}, close : Sessions]
  \cup [op : {"deliver"}, handlers : SUBSET SubscriptionRecord]

TypeOK ==
    /\ g_sub_id_counter \in 0..MaxSubs
    /\ mutex \in Threads \cup {NoThread}
    /\ subscriptions \in Seq(SubscriptionRecord)
    /\ subscription_id_index \in [SubIds -> Nat]
    /\ session_index \in [Sessions -> SUBSET Nat]
    /\ topic_index \in [Topics -> SUBSET Nat]
    /\ auth_sessions \in [AuthSessions -> Sessions \cup {NoSession}]
    /\ ws_to_auth \in [Sessions -> AuthSessions \cup {NoAuth}]
    /\ call \in [Threads -> Call]
    /\ terminated \in SUBSET Sessions
    /\ shared \in SUBSET AuthSessions
    /\ rejoined \in SUBSET Threads

Init ==
    /\ g_sub_id_counter = 0
    /\ mutex = NoThread
    /\ subscriptions = <<>>
    /\ subscription_id_index = [d \in SubIds |-> 0]
    /\ session_index = [s \in Sessions |-> {}]
    /\ topic_index = [tp \in Topics |-> {}]
    /\ auth_sessions = [a \in AuthSessions |-> NoSession]
    /\ ws_to_auth = [s \in Sessions |-> NoAuth]
    /\ call = [t \in Threads |-> Idle]
    /\ terminated = {}
    /\ shared = {}
    /\ rejoined = {}

-----------------------------------------------------------------------------
(* Helpers of Impl.                                                        *)

isValidIndex(index) == index \in 1..Len(subscriptions)

removeIndex(indices, index) == indices \ {index}

remapIndex(indices, from, to) ==
    IF from \in indices THEN (indices \ {from}) \cup {to} ELSE indices

\* The index maps after record `index` is gone and the last record, if it is
\* another one, has taken its place; key[k] is the key record k is filed under.
reindex(map, key, index) ==
    LET last    == Len(subscriptions)
        removed == [map EXCEPT ![key[index]] = removeIndex(@, index)]
    IN  IF index = last
        THEN removed
        ELSE [removed EXCEPT ![key[last]] = remapIndex(@, last, index)]

SessionKey == [k \in 1..Len(subscriptions) |-> subscriptions[k].session]
TopicKey   == [k \in 1..Len(subscriptions) |-> subscriptions[k].topic]

\* Mutant: the topic index of the moved record is not remapped.
eraseSubscriptionAtNoTopicRemap(index) ==
    LET last    == Len(subscriptions)
        removed == subscriptions[index]
        moved   == subscriptions[last]
    IN  /\ subscriptions' = [k \in 1..(last - 1) |->
                                IF k = index THEN moved ELSE subscriptions[k]]
        /\ subscription_id_index' =
              [[subscription_id_index EXCEPT ![moved.id] = index]
                                      EXCEPT ![removed.id] = 0]
        /\ session_index' = reindex(session_index, SessionKey, index)
        /\ topic_index' = [topic_index EXCEPT ![removed.topic] = removeIndex(@, index)]

\* eraseSubscriptionAt on a valid index: swap with the last record, pop it.
eraseSubscriptionAt(index) ==
    LET last    == Len(subscriptions)
        removed == subscriptions[index]
        moved   == subscriptions[last]
    IN  /\ subscriptions' = [k \in 1..(last - 1) |->
                                IF k = index THEN moved ELSE subscriptions[k]]
        /\ subscription_id_index' =
              [[subscription_id_index EXCEPT ![moved.id] = index]
                                      EXCEPT ![removed.id] = 0]
        /\ session_index' = reindex(session_index, SessionKey, index)
        /\ topic_index' = reindex(topic_index, TopicKey, index)

LockFree == mutex = NoThread

-----------------------------------------------------------------------------
(* subscribe                                                               *)

\* The id is taken from the atomic counter before the lock is asked for.
SubscribeBegin(t, s, tp) ==
    /\ call[t] = Idle
    /\ g_sub_id_counter < MaxSubs
    /\ g_sub_id_counter' = g_sub_id_counter + 1
    /\ call' = [call EXCEPT ![t] =
                  [op |-> "subscribe",
                   sub |-> [id |-> g_sub_id_counter + 1, session |-> s, topic |-> tp]]]
    /\ UNCHANGED <<mutex, store, auth, terminated>>

SubscribeCommit(t) ==
    /\ call[t].op = "subscribe"
    /\ LockFree
    /\ LET r     == call[t].sub
           index == Len(subscriptions) + 1
       IN  /\ subscriptions' = Append(subscriptions, r)
           /\ subscription_id_index' = [subscription_id_index EXCEPT ![r.id] = index]
           /\ session_index' = [session_index EXCEPT ![r.session] = @ \cup {index}]
           /\ topic_index' = [topic_index EXCEPT ![r.topic] = @ \cup {index}]
           /\ call' = [call EXCEPT ![t] = [op |-> "notify", count |-> index,
                                           close |-> NoSession, id |-> r.id]]
    /\ UNCHANGED <<g_sub_id_counter, mutex, auth, terminated>>

\* An id is known to callers once subscribe has returned it.
Returned(d) == \A u \in Threads : call[u].op = "notify" => call[u].id # d

\* An unknown id is a no-op.
Unsubscribe(t, d) ==
    /\ call[t] = Idle
    /\ Returned(d)
    /\ LockFree
    /\ isValidIndex(subscription_id_index[d])
    /\ eraseSubscriptionAt(subscription_id_index[d])
    /\ call' = [call EXCEPT ![t] = [op |-> "notify", count |-> Len(subscriptions'),
                                    close |-> NoSession, id |-> 0]]
    /\ UNCHANGED <<g_sub_id_counter, mutex, auth, terminated>>

-----------------------------------------------------------------------------
(* disconnect_session, called on its own (c = NoSession) or by             *)
(* revoke_auth_session, which goes on to close socket c.                   *)

\* Mutant: disconnect_session's return is taken for the caller's.
AfterDisconnectReturns(c) == Idle

\* What a thread does when disconnect_session returns.
AfterDisconnect(c) ==
    IF c = NoSession THEN Idle ELSE [op |-> "close", close |-> c]

\* The lock is taken; a session without a key returns at once.
DisconnectEnter(t, s, c) ==
    /\ LockFree
    /\ IF session_index[s] = {}
       THEN /\ call' = [call EXCEPT ![t] = AfterDisconnect(c)]
            /\ UNCHANGED mutex
       ELSE /\ call' = [call EXCEPT ![t] = [op |-> "erase", session |-> s, close |-> c]]
            /\ mutex' = t
    /\ UNCHANGED <<g_sub_id_counter, store, auth, terminated>>

DisconnectSession(t, s) ==
    /\ call[t] = Idle
    /\ DisconnectEnter(t, s, NoSession)

\* One round of the loop.  An index that names no record is only dropped.
DisconnectErase(t) ==
    /\ call[t].op = "erase"
    /\ \E index \in session_index[call[t].session] :
         IF isValidIndex(index)
         THEN eraseSubscriptionAt(index)
         ELSE /\ session_index' = [session_index EXCEPT
                                     ![call[t].session] = removeIndex(@, index)]
              /\ UNCHANGED <<subscriptions, subscription_id_index, topic_index>>
    /\ UNCHANGED <<g_sub_id_counter, mutex, auth, call, terminated>>

\* Mutant: the lock is still held when the callback is made.
DisconnectLeaveLocked(t) ==
    /\ call[t].op = "erase"
    /\ session_index[call[t].session] = {}
    /\ call' = [call EXCEPT ![t] = [op |-> "notify", count |-> Len(subscriptions),
                                    close |-> call[t].close, id |-> 0]]
    /\ UNCHANGED <<g_sub_id_counter, mutex, store, auth, terminated>>

DisconnectLeave(t) ==
    /\ call[t].op = "erase"
    /\ session_index[call[t].session] = {}
    /\ mutex' = NoThread
    /\ call' = [call EXCEPT ![t] = [op |-> "notify", count |-> Len(subscriptions),
                                    close |-> call[t].close, id |-> 0]]
    /\ UNCHANGED <<g_sub_id_counter, store, auth, terminated>>

\* The count callback runs after the lock is released.
NotifyCount(t) ==
    /\ call[t].op = "notify"
    /\ call' = [call EXCEPT ![t] = AfterDisconnect(call[t].close)]
    /\ UNCHANGED <<g_sub_id_counter, mutex, store, auth, terminated>>

\* The count callback throws, as the creation of a thread may; what the call had
\* still to do, the close callback of a revocation included, is not done.
NotifyThrows(t) ==
    /\ call[t].op = "notify"
    /\ call' = [call EXCEPT ![t] = [op |-> "thrown", close |-> call[t].close]]
    /\ rejoined' = rejoined \ {t}
    /\ UNCHANGED <<g_sub_id_counter, mutex, store, auth_sessions, ws_to_auth, shared,
                   terminated>>

\* The exception of a revocation ends at the try around the resolver that revoked.
ThrowSwallowed(t) ==
    /\ call[t].op = "thrown"
    /\ call' = [call EXCEPT ![t] = Idle]
    /\ UNCHANGED <<g_sub_id_counter, mutex, store, auth, terminated>>

\* The exception of any other call ends the process.
ProcessEnded == \E t \in Threads : call[t] = [op |-> "thrown", close |-> NoSession]

-----------------------------------------------------------------------------
(* publish                                                                 *)

\* Mutant: the handlers are copied without the shared lock.
PublishCollectUnlocked(t, tp) ==
    /\ call[t] = Idle
    /\ topic_index[tp] # {}
    /\ call' = [call EXCEPT ![t] =
                  [op |-> "deliver",
                   handlers |-> {subscriptions[i] : i \in {j \in topic_index[tp] : isValidIndex(j)}}]]
    /\ UNCHANGED <<g_sub_id_counter, mutex, store, auth, terminated>>

\* Handlers of the topic are copied under the shared lock; a topic nobody
\* listens to returns at once.
PublishCollect(t, tp) ==
    /\ call[t] = Idle
    /\ LockFree
    /\ topic_index[tp] # {}
    /\ call' = [call EXCEPT ![t] =
                  [op |-> "deliver",
                   handlers |-> {subscriptions[i] : i \in {j \in topic_index[tp] : isValidIndex(j)}}]]
    /\ UNCHANGED <<g_sub_id_counter, mutex, store, auth, terminated>>

\* One handler is called.  One that throws is caught and the loop goes on.
PublishDeliver(t) ==
    /\ call[t].op = "deliver"
    /\ \E h \in call[t].handlers :
         call' = [call EXCEPT ![t].handlers = @ \ {h}]
    /\ UNCHANGED <<g_sub_id_counter, mutex, store, auth, terminated>>

PublishReturn(t) ==
    /\ call[t].op = "deliver"
    /\ call[t].handlers = {}
    /\ call' = [call EXCEPT ![t] = Idle]
    /\ UNCHANGED <<g_sub_id_counter, mutex, store, auth, terminated>>

-----------------------------------------------------------------------------
(* Auth-session tracking                                                   *)

\* auth_sessions with the entry that ws_to_auth holds for w erased, whichever
\* socket that entry belongs to.
ForgetAuth(w) ==
    [a \in AuthSessions |-> IF a = ws_to_auth[w] THEN NoSession ELSE auth_sessions[a]]

\* The socket that thread t's revocation has yet to close.
ToClose(t) ==
    IF call[t].op \in {"revoke", "erase", "notify", "close"} THEN call[t].close ELSE NoSession

NoteRegistration(a, w) ==
    /\ shared' = IF \E v \in Sessions \ {w} : ws_to_auth[v] = a
                 THEN shared \cup {a} ELSE shared
    /\ rejoined' = rejoined \cup {t \in Threads : ToClose(t) = w}

\* Mutant: the previous registration of the socket stays.
RegisterAuthSessionKeepsOld(t, a, w) ==
    /\ call[t] = Idle
    /\ LockFree
    /\ auth_sessions' = [auth_sessions EXCEPT ![a] = w]
    /\ ws_to_auth' = [ws_to_auth EXCEPT ![w] = a]
    /\ NoteRegistration(a, w)
    /\ UNCHANGED <<g_sub_id_counter, mutex, store, call, terminated>>

RegisterAuthSession(t, a, w) ==
    /\ call[t] = Idle
    /\ LockFree
    /\ auth_sessions' = [ForgetAuth(w) EXCEPT ![a] = w]
    /\ ws_to_auth' = [ws_to_auth EXCEPT ![w] = a]
    /\ NoteRegistration(a, w)
    /\ UNCHANGED <<g_sub_id_counter, mutex, store, call, terminated>>

UnregisterAuthSession(t, w) ==
    /\ call[t] = Idle
    /\ LockFree
    /\ ws_to_auth[w] # NoAuth
    /\ auth_sessions' = ForgetAuth(w)
    /\ ws_to_auth' = [ws_to_auth EXCEPT ![w] = NoAuth]
    /\ UNCHANGED <<g_sub_id_counter, mutex, store, shared, rejoined, call,
                   terminated>>

\* The record is taken out under the lock; the rest happens after it.
RevokeAuthSession(t, a) ==
    /\ call[t] = Idle
    /\ LockFree
    /\ auth_sessions[a] # NoSession
    /\ auth_sessions' = [auth_sessions EXCEPT ![a] = NoSession]
    /\ ws_to_auth' = [ws_to_auth EXCEPT ![auth_sessions[a]] = NoAuth]
    /\ call' = [call EXCEPT ![t] = [op |-> "revoke", close |-> auth_sessions[a]]]
    /\ UNCHANGED <<g_sub_id_counter, mutex, store, shared, rejoined, terminated>>

RevokeDisconnect(t) ==
    /\ call[t].op = "revoke"
    /\ DisconnectEnter(t, call[t].close, call[t].close)

\* The socket is closed whatever it is registered for by now.  A callback that
\* throws is caught: the call returns either way.
RevokeClose(t) ==
    /\ call[t].op = "close"
    /\ terminated' = terminated \cup {call[t].close}
    /\ call' = [call EXCEPT ![t] = Idle]
    /\ rejoined' = rejoined \ {t}
    /\ UNCHANGED <<g_sub_id_counter, mutex, store, auth_sessions, ws_to_auth, shared>>

-----------------------------------------------------------------------------

\* Steps that carry on a call already begun.
Continue(t) ==
    /\ ~ProcessEnded
    /\ \/ SubscribeCommit(t)
       \/ DisconnectErase(t)
       \/ DisconnectLeave(t)
       \/ NotifyCount(t)
       \/ NotifyThrows(t)
       \/ ThrowSwallowed(t)
       \/ PublishDeliver(t)
       \/ PublishReturn(t)
       \/ RevokeDisconnect(t)
       \/ RevokeClose(t)

Begin(t) ==
    /\ ~ProcessEnded
    /\ \/ \E s \in Sessions, tp \in Topics : SubscribeBegin(t, s, tp)
       \/ \E d \in SubIds : Unsubscribe(t, d)
       \/ \E s \in Sessions : DisconnectSession(t, s)
       \/ \E tp \in Topics : PublishCollect(t, tp)
       \/ \E a \in AuthSessions, w \in Sessions : RegisterAuthSession(t, a, w)
       \/ \E w \in Sessions : UnregisterAuthSession(t, w)
       \/ \E a \in AuthSessions : RevokeAuthSession(t, a)

Next == \E t \in Threads : Begin(t) \/ Continue(t)

\* A thread inside a call keeps being scheduled, and the callbacks it makes return
\* or throw; nobody is obliged to begin a call.
Fairness == \A t \in Threads : WF_vars(Continue(t))

Spec == Init /\ [][Next]_vars

FairSpec == Spec /\ Fairness

-----------------------------------------------------------------------------
(* Index consistency                                                       *)

\* The id index and the record vector are inverse to each other.
IdIndexOK ==
    /\ \A i \in 1..Len(subscriptions) : subscription_id_index[subscriptions[i].id] = i
    /\ \A d \in SubIds :
         subscription_id_index[d] # 0 =>
            /\ isValidIndex(subscription_id_index[d])
            /\ subscriptions[subscription_id_index[d]].id = d

\* Each secondary index files every record under its own key, and nothing else.
SessionIndexOK ==
    \A s \in Sessions :
       session_index[s] = {i \in 1..Len(subscriptions) : subscriptions[i].session = s}

TopicIndexOK ==
    \A tp \in Topics :
       topic_index[tp] = {i \in 1..Len(subscriptions) : subscriptions[i].topic = tp}

\* No churn of subscribe, unsubscribe and disconnect_session, from any threads,
\* leaves an index of the broker pointing at a record that moved or went away, or
\* a record that an index has lost: the swap-with-last removal of
\* eraseSubscriptionAt fixes all three indices, in every round of the loop too.
IndexConsistent == IdIndexOK /\ SessionIndexOK /\ TopicIndexOK

\* The thread that holds the lock over several steps is the one in the loop of
\* disconnect_session.
LockDiscipline == \A t \in Threads : mutex = t <=> call[t].op = "erase"

\* Ids handed out by make_subscription_id and not yet committed are distinct from
\* one another and from every id the broker holds.
FreshIds ==
    /\ \A t \in Threads : call[t].op = "subscribe" =>
         /\ call[t].sub.id <= g_sub_id_counter
         /\ subscription_id_index[call[t].sub.id] = 0
    /\ \A t1, t2 \in Threads :
         call[t1].op = "subscribe" /\ call[t2].op = "subscribe" /\ t1 # t2 =>
            call[t1].sub.id # call[t2].sub.id
    /\ \A d \in SubIds : subscription_id_index[d] # 0 => d <= g_sub_id_counter

-----------------------------------------------------------------------------
(* Auth-session table                                                      *)

\* What the table has for an auth session is a socket registered for it, and for it
\* only: what a revocation takes out is registered for what it revokes.
EntryIsItsOwn ==
    \A a \in AuthSessions :
       auth_sessions[a] # NoSession => ws_to_auth[auth_sessions[a]] = a

\* A socket whose auth session it never shared with another is in the table.
SoleSocketIsFound ==
    \A w \in Sessions : ws_to_auth[w] \in AuthSessions \ shared =>
       auth_sessions[ws_to_auth[w]] = w

\* A socket about to be closed is registered for nothing, unless it registered after
\* it was taken out.
DoomedIsForgotten ==
    \A t \in Threads : ToClose(t) # NoSession /\ t \notin rejoined =>
       ws_to_auth[ToClose(t)] = NoAuth

\* revoke_auth_session finds the socket of its auth session and closes no other's,
\* through any sequence of registrations, replacements, socket destructions and
\* overlapping revocations, with the two exceptions the code leaves open: a socket
\* that registers for another auth session between the take-out and the close is
\* closed for the old one, and of two sockets registered for one auth session at
\* once the earlier is not found, and the later is not either once the earlier was
\* destroyed or registered for another.
RevocationHitsItsOwner == EntryIsItsOwn /\ SoleSocketIsFound /\ DoomedIsForgotten

-----------------------------------------------------------------------------
(* Refinement                                                              *)

\* The session whose removal is under way is gone for everybody else already.
Vanishing == {call[t].session : t \in {u \in Threads : call[u].op = "erase"}}

LiveSubs == {subscriptions[i] : i \in {j \in 1..Len(subscriptions) :
                                        subscriptions[j].session \notin Vanishing}}

IssuedIds == {d \in SubIds : d <= g_sub_id_counter
                 /\ \A t \in Threads : call[t].op = "subscribe" => call[t].sub.id # d}

Calling == [t \in Threads |-> IF call[t].op = "deliver" THEN call[t].handlers ELSE {}]

Registry == INSTANCE SubscriptionRegistry
               WITH live <- LiveSubs, issued <- IssuedIds, calling <- Calling

\* The broker is a set of subscriptions to its callers: each method takes effect at
\* one instant, disconnect_session and its loop included, and publish calls exactly
\* the handlers of the topic in force at the instant it collects them.
ImplementsRegistry == Registry!Spec

-----------------------------------------------------------------------------
(* Liveness                                                                *)

\* The loop of disconnect_session ends and gives the lock back, while the process
\* lives.
LockIsReleased == \A t \in Threads : mutex = t ~> mutex # t \/ ProcessEnded

\* Once revoke_auth_session has taken an auth record out, the socket it names is
\* terminated, whatever other threads do to that session meanwhile, unless the count
\* callback throws: into the revocation, which then ends short of the close callback
\* and is never tried again, or into a call that ends the process.
RevocationCompletes ==
    \A t \in Threads, w \in Sessions :
       (call[t].op = "revoke" /\ call[t].close = w) ~>
          \/ w \in terminated
          \/ call[t] = [op |-> "thrown", close |-> w]
          \/ ProcessEnded
=============================================================================
