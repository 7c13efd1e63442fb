------------------------ MODULE SubscriptionRegistry ------------------------
(***************************************************************************)
(* What the broker promises its callers, with no vector, index or lock:    *)
(* isched_SubscriptionBroker.hpp, "routes published events to all          *)
(* registered handlers that are subscribed to a matching topic" and        *)
(* "disconnect_session() removes all subscriptions for a WebSocket session *)
(* in one atomic step".                                                    *)
(***************************************************************************)
CONSTANTS Threads, Sessions, Topics, SubIds

VARIABLES live,     \* the subscriptions in force
          issued,   \* ids of subscriptions ever in force
          calling   \* for each thread, the handlers its publish has yet to call

rvars == <<live, issued, calling>>

Init ==
    /\ live = {}
    /\ issued = {}
    /\ calling = [t \in Threads |-> {}]

\* An id names one subscription for good.
Subscribe(d, s, tp) ==
    /\ d \notin issued
    /\ issued' = issued \cup {d}
    /\ live' = live \cup {[id |-> d, session |-> s, topic |-> tp]}
    /\ UNCHANGED calling

Unsubscribe(d) ==
    /\ \E r \in live : r.id = d
    /\ live' = {r \in live : r.id # d}
    /\ UNCHANGED <<issued, calling>>

DisconnectSession(s) ==
    /\ live' = {r \in live : r.session # s}
    /\ UNCHANGED <<issued, calling>>

\* Every subscription of the topic in force at one instant is called, once.
Publish(t, tp) ==
    /\ calling[t] = {}
    /\ calling' = [calling EXCEPT ![t] = {r \in live : r.topic = tp}]
    /\ UNCHANGED <<live, issued>>

Deliver(t) ==
    /\ \E h \in calling[t] : calling' = [calling EXCEPT ![t] = @ \ {h}]
    /\ UNCHANGED <<live, issued>>

Next ==
    \/ \E d \in SubIds, s \in Sessions, tp \in Topics : Subscribe(d, s, tp)
    \/ \E d \in SubIds : Unsubscribe(d)
    \/ \E s \in Sessions : DisconnectSession(s)
    \/ \E t \in Threads, tp \in Topics : Publish(t, tp)
    \/ \E t \in Threads : Deliver(t)

Spec == Init /\ [][Next]_rvars
=============================================================================
