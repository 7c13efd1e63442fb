------------------------------ MODULE WsSession ------------------------------
(***************************************************************************)
(* One WebSocket session of isched_Server.cpp: the graphql-transport-ws    *)
(* protocol, the write queue and the life of the object.                   *)
(*                                                                         *)
(* All of the session's handlers run on its strand, one after the other;   *)
(* the broker's callbacks run on any thread and post to the strand.  The   *)
(* object lives as long as an operation or a posted handler refers to it.  *)
(* The broker is seen from the session: its subscriptions and its auth     *)
(* registration, changed in atomic steps (SubscriptionBroker shows that    *)
(* they are).  The stream is Boost.Beast's.                                *)
(*                                                                         *)
(* The io threads run the handlers under no try: an exception that leaves  *)
(* one, or the destructor, ends the process (ended).                       *)
(***************************************************************************)
EXTENDS Naturals, Sequences, FiniteSets, SequencesExt

CONSTANTS Ops,         \* operation ids the client uses
          Topics,
          ReuseIds,    \* whether the client reuses the id of a live operation
          MaxFrames,   \* bound on the frames the client sends
          MaxEvents    \* bound on the events that are published

ASSUME WsAssumption ==
    MaxFrames \in Nat /\ MaxEvents \in Nat /\ ReuseIds \in BOOLEAN

VARIABLES
    stream,        \* "handshake", "open", "closed" (close frame sent) or "lost"
    reading,       \* an async_accept or async_read refers to the session
    initialized, writing, send_queue, sub_ids,
    registering,   \* handle_subscribe between execute and subscribe, or NoOne
    posted,        \* handlers posted to the strand
    closing,       \* async_close: "no", "waiting" for a write, "ready"
    life,          \* "alive", "destroying", "gone"
    subs,          \* the session's subscriptions in the broker
    registered,    \* its entry in the broker's auth table
    revoking,      \* where revoke_auth_session is with it
    calls,         \* handlers a publish has collected and not called yet
    sent, wire,    \* history: what was enqueued, what the client got
    frames, events, next_id,
    ended          \* the process has ended

broker == <<subs, registered, revoking, calls, next_id>>
queue  == <<send_queue, writing, sent>>
object == <<initialized, sub_ids, registering>>
session == <<stream, reading, object, queue, posted, closing, life, broker, wire, frames, events>>
vars    == <<session, ended>>

NoOne == [op |-> "none"]
Message == [type : {"connection_ack", "pong", "connection_error", "connection_terminate"}]
      \cup [type : {"next", "complete", "error"}, id : Ops]
SubIds == 1..MaxFrames
Sub == [id : SubIds, op : Ops, topic : Topics]

TypeOK ==
    /\ stream \in {"handshake", "open", "closed", "lost"}
    /\ reading \in BOOLEAN /\ initialized \in BOOLEAN /\ writing \in BOOLEAN
    /\ registered \in BOOLEAN /\ ended \in BOOLEAN
    /\ send_queue \in Seq(Message) /\ sent \in Seq(Message) /\ wire \in Seq(Message)
    /\ sub_ids \in [Ops -> SubIds \cup {0}]
    /\ registering \in {NoOne} \cup [op : Ops, topic : Topics]
    /\ posted \in Seq(Message)
    /\ closing \in {"no", "waiting", "ready"}
    /\ life \in {"alive", "destroying", "gone"}
    /\ subs \subseteq Sub
    /\ revoking \in {"no", "disconnect", "close", "thrown"}
    /\ calls \subseteq [event : 1..MaxEvents, id : SubIds, op : Ops]
    /\ frames \in 0..MaxFrames /\ events \in 0..MaxEvents
    /\ next_id \in 1..(MaxFrames + 1)

Init ==
    /\ stream = "handshake" /\ reading = TRUE
    /\ initialized = FALSE /\ writing = FALSE
    /\ send_queue = <<>> /\ sent = <<>> /\ wire = <<>> /\ posted = <<>>
    /\ sub_ids = [o \in Ops |-> 0]
    /\ registering = NoOne
    /\ closing = "no" /\ life = "alive"
    /\ subs = {} /\ registered = FALSE /\ revoking = "no" /\ calls = {}
    /\ frames = 0 /\ events = 0 /\ next_id = 1
    /\ ended = FALSE

\* enqueue_raw: a write is started unless one is in flight.
Enqueue(m) ==
    /\ send_queue' = Append(send_queue, m)
    /\ writing' = TRUE
    /\ sent' = Append(sent, m)

\* The strand is free for the next handler.
StrandFree == registering = NoOne

-----------------------------------------------------------------------------
(* Handshake and read loop                                                 *)

OnAccept ==
    /\ stream = "handshake"
    /\ \/ stream' = "open" /\ UNCHANGED reading
       \/ stream' = "lost" /\ reading' = FALSE
    /\ UNCHANGED <<object, queue, posted, closing, life, broker, wire, frames, events>>

\* A frame the client has sent is next on the strand.
FrameDue ==
    /\ reading /\ StrandFree
    /\ stream \in {"open", "closed"}
    /\ frames < MaxFrames

\* A frame is read and handled, and the next read is started.
Frame ==
    /\ FrameDue
    /\ frames' = frames + 1
    /\ UNCHANGED <<stream, reading, posted, closing, life, wire, events>>

\* connection_init, with a valid token of an auth session or without.
OnConnectionInit ==
    /\ Frame
    /\ initialized' = TRUE
    /\ registered' \in {registered, TRUE}
    /\ Enqueue([type |-> "connection_ack"])
    /\ UNCHANGED <<sub_ids, registering, subs, revoking, calls, next_id>>

OnPing ==
    /\ Frame
    /\ Enqueue([type |-> "pong"])
    /\ UNCHANGED <<object, broker>>

OnSubscribeRefused(op) ==
    /\ Frame
    /\ IF initialized
       THEN Enqueue([type |-> "error", id |-> op])   \* empty query
       ELSE Enqueue([type |-> "connection_error"])
    /\ UNCHANGED <<object, broker>>

\* The operation is executed and its result sent; a query that names a topic is
\* then subscribed to, one that does not is over.
OnSubscribe(op) ==
    /\ Frame
    /\ initialized
    /\ ReuseIds \/ sub_ids[op] = 0
    /\ Enqueue([type |-> "next", id |-> op])
    /\ registering' \in {NoOne} \cup [op : {op}, topic : Topics]
    /\ UNCHANGED <<initialized, sub_ids, broker>>

\* broker->subscribe, at the end of handle_subscribe.
Subscribe ==
    /\ registering # NoOne
    /\ subs' = subs \cup {[id |-> next_id, op |-> registering.op, topic |-> registering.topic]}
    /\ sub_ids' = [sub_ids EXCEPT ![registering.op] = next_id]
    /\ next_id' = next_id + 1
    /\ registering' = NoOne
    /\ UNCHANGED <<stream, reading, initialized, queue, posted, closing, life, registered,
                   revoking, calls, wire, frames, events>>

\* Mutant: the operation is forgotten and stays subscribed.
OnCompleteForgets(op) ==
    /\ Frame
    /\ sub_ids' = [sub_ids EXCEPT ![op] = 0]
    /\ Enqueue([type |-> "complete", id |-> op])
    /\ UNCHANGED <<initialized, registering, broker>>

OnComplete(op) ==
    /\ Frame
    /\ subs' = {s \in subs : s.id # sub_ids[op]}
    /\ sub_ids' = [sub_ids EXCEPT ![op] = 0]
    /\ Enqueue([type |-> "complete", id |-> op])
    /\ UNCHANGED <<initialized, registering, registered, revoking, calls, next_id>>

\* A read that fails is the last.
ReadFails ==
    /\ reading /\ StrandFree
    /\ stream \in {"closed", "lost"}
    /\ reading' = FALSE
    /\ UNCHANGED <<stream, object, queue, posted, closing, life, broker, wire, frames, events>>

-----------------------------------------------------------------------------
(* Write queue                                                             *)

\* Mutant: what waits is left for the next message to start.
WriteDoneStops ==
    /\ writing /\ StrandFree
    /\ stream = "open" /\ closing # "ready"
    /\ wire' = Append(wire, Head(send_queue))
    /\ send_queue' = Tail(send_queue)
    /\ writing' = FALSE
    /\ closing' = IF closing = "waiting" THEN "ready" ELSE closing
    /\ UNCHANGED <<stream, reading, object, sent, posted, life, broker, frames, events>>

\* on_write without an error: the next message, if there is one.  A close that waited
\* for this write goes before the next one.
WriteDone ==
    /\ writing /\ StrandFree
    /\ stream = "open" /\ closing # "ready"
    /\ wire' = Append(wire, Head(send_queue))
    /\ send_queue' = Tail(send_queue)
    /\ writing' = (send_queue' # <<>>)
    /\ closing' = IF closing = "waiting" THEN "ready" ELSE closing
    /\ UNCHANGED <<stream, reading, object, sent, posted, life, broker, frames, events>>

\* on_write with an error: the message is dropped, and nothing is started.
WriteFails ==
    /\ writing /\ StrandFree
    /\ stream \in {"closed", "lost"}
    /\ send_queue' = Tail(send_queue)
    /\ writing' = FALSE
    /\ UNCHANGED <<stream, reading, object, sent, posted, closing, life, broker, wire, frames,
                   events>>

\* Mutant: the frame is sent and the stream stays open.
RunPostedNoClose ==
    /\ posted # <<>> /\ StrandFree
    /\ Enqueue(Head(posted))
    /\ posted' = Tail(posted)
    /\ UNCHANGED <<stream, reading, object, closing, life, broker, wire, frames, events>>

\* A posted handler: the event of a publish, or close_terminate, which also starts
\* async_close behind the write that is in flight by then.
RunPosted ==
    /\ posted # <<>> /\ StrandFree
    /\ Enqueue(Head(posted))
    /\ posted' = Tail(posted)
    /\ closing' = IF Head(posted).type = "connection_terminate" /\ closing = "no"
                       /\ stream = "open"
                  THEN "waiting" ELSE closing
    /\ UNCHANGED <<stream, reading, object, life, broker, wire, frames, events>>

-----------------------------------------------------------------------------
(* The stream                                                              *)

\* The close frame goes out: writes fail from now on.
CloseSent ==
    /\ closing = "ready" /\ stream = "open"
    /\ stream' = "closed" /\ closing' = "no"
    /\ UNCHANGED <<reading, object, queue, posted, life, broker, wire, frames, events>>

\* The peer closes or vanishes, or the stream's timeout expires.
ConnectionLost ==
    /\ stream \in {"open", "closed"}
    /\ stream' = "lost"
    /\ UNCHANGED <<reading, object, queue, posted, closing, life, broker, wire, frames, events>>

-----------------------------------------------------------------------------
(* The broker, on other threads                                            *)

\* publish collects the handlers of its topic under the lock.
Publish(topic) ==
    /\ events < MaxEvents
    /\ events' = events + 1
    /\ calls' = calls \cup {[event |-> events', id |-> s.id, op |-> s.op] :
                              s \in {x \in subs : x.topic = topic}}
    /\ UNCHANGED <<stream, reading, object, queue, posted, closing, life, subs, registered,
                   revoking, next_id, wire, frames>>

\* Mutant: the callback keeps a plain pointer to the session.
DeliverUnlocked(c) ==
    /\ calls' = calls \ {c}
    /\ posted' = Append(posted, [type |-> "next", id |-> c.op])
    /\ UNCHANGED <<stream, reading, object, queue, closing, life, subs, registered, revoking,
                   next_id, wire, frames, events>>

\* The callback: weak.lock, and a post if the session is alive.
Deliver(c) ==
    /\ calls' = calls \ {c}
    /\ posted' = IF life = "alive" THEN Append(posted, [type |-> "next", id |-> c.op])
                                   ELSE posted
    /\ UNCHANGED <<stream, reading, object, queue, closing, life, subs, registered, revoking,
                   next_id, wire, frames, events>>

\* revoke_auth_session in its three stretches: the entry, the subscriptions, the
\* close callback.
Revoke ==
    /\ registered /\ revoking = "no"
    /\ registered' = FALSE /\ revoking' = "disconnect"
    /\ UNCHANGED <<stream, reading, object, queue, posted, closing, life, subs, calls, next_id,
                   wire, frames, events>>

RevokeDisconnect ==
    /\ revoking = "disconnect"
    /\ subs' = {} /\ revoking' = "close"
    /\ UNCHANGED <<stream, reading, object, queue, posted, closing, life, registered, calls,
                   next_id, wire, frames, events>>

\* The count callback throws out of disconnect_session: the close callback is not
\* reached.  A session that had no subscription is left without that callback.
RevokeThrows ==
    /\ revoking = "disconnect" /\ subs # {}
    /\ subs' = {} /\ revoking' = "thrown"
    /\ UNCHANGED <<stream, reading, object, queue, posted, closing, life, registered, calls,
                   next_id, wire, frames, events>>

\* The resolver that revoked reports the exception as an error of its field.
RevokeAbandoned ==
    /\ revoking = "thrown"
    /\ revoking' = "no"
    /\ UNCHANGED <<stream, reading, object, queue, posted, closing, life, subs, registered, calls,
                   next_id, wire, frames, events>>

RevokeClose ==
    /\ revoking = "close"
    /\ revoking' = "no"
    /\ posted' = IF life = "alive" THEN Append(posted, [type |-> "connection_terminate"])
                                   ELSE posted
    /\ UNCHANGED <<stream, reading, object, queue, closing, life, subs, registered, calls,
                   next_id, wire, frames, events>>

-----------------------------------------------------------------------------
(* ~WsSession, when nothing refers to the session any more                 *)

Unreferenced == ~reading /\ ~writing /\ posted = <<>> /\ registering = NoOne

DestroyUnregister ==
    /\ life = "alive" /\ Unreferenced
    /\ life' = "destroying"
    /\ registered' = FALSE
    /\ UNCHANGED <<stream, reading, object, queue, posted, closing, subs, revoking, calls,
                   next_id, wire, frames, events>>

\* Mutant: the subscriptions stay behind.
DestroyDisconnectSkipped ==
    /\ life = "destroying"
    /\ life' = "gone"
    /\ UNCHANGED <<stream, reading, object, queue, posted, closing, broker, wire, frames, events>>

DestroyDisconnect ==
    /\ life = "destroying"
    /\ life' = "gone"
    /\ subs' = {}
    /\ UNCHANGED <<stream, reading, object, queue, posted, closing, registered, revoking, calls,
                   next_id, wire, frames, events>>

-----------------------------------------------------------------------------

Strand ==
    \/ OnAccept \/ Subscribe \/ ReadFails
    \/ WriteDone \/ WriteFails \/ RunPosted \/ CloseSent
    \/ DestroyUnregister \/ DestroyDisconnect

Client ==
    \/ OnConnectionInit \/ OnPing \/ ConnectionLost
    \/ \E op \in Ops : OnSubscribeRefused(op) \/ OnSubscribe(op) \/ OnComplete(op)

Others ==
    \/ \E topic \in Topics : Publish(topic)
    \/ \E c \in calls : Deliver(c)
    \/ Revoke \/ RevokeDisconnect \/ RevokeThrows \/ RevokeAbandoned \/ RevokeClose

\* An exception leaves a handler: of a frame, which json finds no object or with a
\* member of another type or whose query has an argument that does not convert; of
\* the count callback, in subscribe or out of the destructor.
ProcessEnds ==
    /\ ~ended
    /\ FrameDue \/ registering # NoOne \/ (life = "destroying" /\ subs # {})
    /\ ended' = TRUE
    /\ UNCHANGED session

\* The session is gone and nobody has anything left to do with it, or nobody is left.
Over ==
    /\ \/ life = "gone" /\ calls = {} /\ revoking = "no" /\ events = MaxEvents
       \/ ended
    /\ UNCHANGED vars

\* A step of the process while it lives.
Runs(A) == ~ended /\ A /\ UNCHANGED ended

Next == Runs(Strand) \/ Runs(Client) \/ Runs(Others) \/ ProcessEnds \/ Over

Spec == Init /\ [][Next]_vars

\* Handlers that are due run, a close that has begun ends with the peer or with the
\* stream's timeout, and a thread inside the broker goes on.  No write need ever end:
\* the idle timeout starts anew with everything the client sends, whether or not it
\* reads.
FairSpec ==
    /\ Spec
    /\ WF_vars(Runs(OnAccept)) /\ WF_vars(Runs(Subscribe)) /\ WF_vars(Runs(ReadFails))
    /\ WF_vars(Runs(WriteFails)) /\ WF_vars(Runs(RunPosted)) /\ WF_vars(Runs(CloseSent))
    /\ WF_vars(Runs(DestroyUnregister)) /\ WF_vars(Runs(DestroyDisconnect))
    /\ WF_vars(Runs(\E c \in calls : Deliver(c)))
    /\ WF_vars(Runs(RevokeDisconnect)) /\ WF_vars(Runs(RevokeClose))
    /\ WF_vars(Runs(RevokeAbandoned))

-----------------------------------------------------------------------------
(* Properties                                                              *)

\* The client gets what was enqueued, in that order, each message once, up to the
\* point where the stream ended; on an open stream, nothing of it is missing.
InOrder ==
    /\ IsPrefix(wire, sent)
    /\ stream \in {"handshake", "open"} => wire \o send_queue = sent

\* No message waits on an open stream that nothing is being written to, and a write
\* in flight has its message at the head of the queue.
NothingStuck ==
    /\ stream = "open" /\ ~writing => send_queue = <<>>
    /\ writing => send_queue # <<>>

\* The session is not destroyed while a handler or an operation of it is outstanding,
\* whatever the broker's threads do with its callbacks meanwhile.
NoHandlerOutlives == life # "alive" => Unreferenced

\* As long as the client does not reuse the id of a live operation, the id of each
\* subscription is on file under its operation, so that complete ends it.
CompleteEndsOperation == \A s \in subs : sub_ids[s.op] = s.id

\* A session whose stream has ended is destroyed and leaves nothing in the broker,
\* neither a subscription made while it was being revoked nor its auth entry, if the
\* process lives.
LostSessionGoes ==
    stream \in {"closed", "lost"} ~> \/ life = "gone" /\ subs = {} /\ ~registered
                                    \/ ended

\* A revocation that has found the session's entry ends the session, if the process
\* lives, with two exceptions: the count callback throws before the close callback is
\* reached, or the client leaves a write in flight for ever, behind which the close
\* frame waits.
RevokedSessionGoes ==
    revoking # "no" ~> \/ life = "gone"
                       \/ ended
                       \/ revoking = "thrown"
                       \/ [](writing /\ stream = "open")

\* The session's write queue, in every state: the types, the order of enqueue_raw, and no
\* message that do_write has forgotten.
QueueInv == TypeOK /\ InOrder /\ NothingStuck
=============================================================================
