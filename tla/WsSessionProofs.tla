-------------------------- MODULE WsSessionProofs --------------------------
(***************************************************************************)
(* Proofs about WsSession for any operations and topics and any number of  *)
(* frames and events.                                                      *)
(***************************************************************************)
EXTENDS WsSession, SequenceTheorems, TLAPS

\* The queue before the handshake obeys the rule of an open stream: OnAccept opens it.
NothingStuckYet ==
    /\ stream \in {"handshake", "open"} /\ ~writing => send_queue = <<>>
    /\ writing => send_queue # <<>>

\* Every subscription id was paid for by a frame, one of them perhaps still by the
\* handle_subscribe under way.
IdsWithinFrames ==
    next_id + (IF registering = NoOne THEN 0 ELSE 1) <= frames + 1

WsInv == TypeOK /\ InOrder /\ NothingStuckYet /\ IdsWithinFrames

\* The operation handle_subscribe is registering has no subscription on file.
RegisteringIsNew == registering # NoOne => sub_ids[registering.op] = 0

CompleteInv == CompleteEndsOperation /\ RegisteringIsNew

-----------------------------------------------------------------------------
(* Sequences                                                               *)

\* A message appended to what waits is appended to what was enqueued.
LEMMA ConcatAppend ==
    ASSUME NEW S, NEW w \in Seq(S), NEW q \in Seq(S), NEW m \in S
    PROVE  w \o Append(q, m) = Append(w \o q, m)
PROOF
  <1>1. Append(q, m) = q \o <<m>> /\ w \o q \in Seq(S) /\ <<m>> \in Seq(S)
    BY AppendIsConcat, ConcatProperties
  <1>2. Append(w \o q, m) = (w \o q) \o <<m>>
    BY <1>1, AppendIsConcat
  <1> QED
    BY <1>1, <1>2, ConcatAssociative

\* A message that goes from the head of what waits to the end of what the client has.
LEMMA ConcatHeadTail ==
    ASSUME NEW S, NEW w \in Seq(S), NEW q \in Seq(S), q # <<>>
    PROVE  Append(w, Head(q)) \o Tail(q) = w \o q
PROOF
  <1>1. Head(q) \in S /\ Tail(q) \in Seq(S) /\ <<Head(q)>> \in Seq(S)
    BY HeadTailProperties
  <1>2. q = <<Head(q)>> \o Tail(q)
    <2>1. Len(<<Head(q)>> \o Tail(q)) = Len(q)
      BY <1>1, ConcatProperties, HeadTailProperties
    <2>2. \A i \in 1..Len(q) : (<<Head(q)>> \o Tail(q))[i] = q[i]
      BY <1>1, ConcatProperties, HeadTailProperties
    <2>3. <<Head(q)>> \o Tail(q) \in Seq(S)
      BY <1>1, ConcatProperties
    <2> QED
      BY <2>1, <2>2, <2>3, SeqEqual
  <1>3. Append(w, Head(q)) = w \o <<Head(q)>>
    BY <1>1, AppendIsConcat
  <1>4. (w \o <<Head(q)>>) \o Tail(q) = w \o (<<Head(q)>> \o Tail(q))
    BY <1>1, ConcatAssociative
  <1> QED
    BY <1>2, <1>3, <1>4

\* What the client has is a prefix of what it has and what waits.
LEMMA ConcatPrefix ==
    ASSUME NEW S, NEW w \in Seq(S), NEW q \in Seq(S)
    PROVE  IsPrefix(w, w \o q)
PROOF
  <1>1. /\ w \o q \in Seq(S) /\ Len(w) \in Nat /\ Len(q) \in Nat
        /\ Len(w \o q) = Len(w) + Len(q)
        /\ \A i \in 1..Len(w) : (w \o q)[i] = w[i]
    BY ConcatProperties, LenProperties
  <1> HIDE DEF IsPrefix
  <1>2. SubSeq(w, 1, Len(w)) = SubSeq(w \o q, 1, Len(w))
    BY <1>1
  <1> QED
    BY <1>1, <1>2 DEF IsPrefix

\* A prefix stays one when messages are appended behind it.
LEMMA AppendPrefix ==
    ASSUME NEW S, NEW w \in Seq(S), NEW s \in Seq(S), NEW m \in S, IsPrefix(w, s)
    PROVE  IsPrefix(w, Append(s, m))
PROOF
  <1>1. /\ Append(s, m) \in Seq(S) /\ Len(Append(s, m)) = Len(s) + 1
        /\ \A i \in 1..Len(s) : Append(s, m)[i] = s[i]
        /\ Len(w) \in Nat /\ Len(s) \in Nat /\ Len(w) <= Len(s)
    BY AppendProperties, LenProperties DEF IsPrefix
  <1>2. SubSeq(s, 1, Len(w)) = SubSeq(Append(s, m), 1, Len(w))
    BY <1>1
  <1> QED
    BY <1>1, <1>2 DEF IsPrefix

-----------------------------------------------------------------------------
(* The queue                                                               *)

\* enqueue_raw keeps the order and starts a write.
LEMMA EnqueueStep ==
    ASSUME TypeOK, InOrder, NEW m \in Message, Enqueue(m), UNCHANGED <<stream, wire>>
    PROVE  /\ send_queue' \in Seq(Message) /\ sent' \in Seq(Message) /\ writing' = TRUE
           /\ InOrder' /\ NothingStuckYet'
PROOF
  <1>1. /\ send_queue \in Seq(Message) /\ sent \in Seq(Message) /\ wire \in Seq(Message)
    BY DEF TypeOK
  <1>2. /\ send_queue' = Append(send_queue, m) /\ sent' = Append(sent, m) /\ writing' = TRUE
        /\ stream' = stream /\ wire' = wire
    BY DEF Enqueue
  <1>3. send_queue' \in Seq(Message) /\ sent' \in Seq(Message) /\ send_queue' # <<>>
    BY <1>1, <1>2, AppendProperties
  <1>4. IsPrefix(wire', sent')
    BY <1>1, <1>2, AppendPrefix DEF InOrder
  <1>5. stream' \in {"handshake", "open"} => wire' \o send_queue' = sent'
    BY <1>1, <1>2, ConcatAppend DEF InOrder
  <1> QED
    BY <1>2, <1>3, <1>4, <1>5 DEF InOrder, NothingStuckYet

\* Steps that leave the queue alone and do not bring a stream back.
LEMMA IdleQueueStep ==
    ASSUME InOrder, NothingStuckYet, UNCHANGED <<queue, wire>>,
           stream' \in {"handshake", "open"} => stream \in {"handshake", "open"}
    PROVE  InOrder' /\ NothingStuckYet'
PROOF
  BY DEF InOrder, NothingStuckYet, queue

\* on_write hands the client the next message in turn.
LEMMA WriteDoneStep ==
    ASSUME TypeOK, InOrder, NothingStuckYet, WriteDone
    PROVE  /\ send_queue' \in Seq(Message) /\ wire' \in Seq(Message)
           /\ InOrder' /\ NothingStuckYet'
PROOF
  <1>1. /\ send_queue \in Seq(Message) /\ wire \in Seq(Message) /\ send_queue # <<>>
        /\ stream = "open" /\ stream' = stream /\ sent' = sent
        /\ wire' = Append(wire, Head(send_queue)) /\ send_queue' = Tail(send_queue)
        /\ wire \o send_queue = sent
    BY DEF TypeOK, WriteDone, NothingStuckYet, InOrder
  <1>2. writing' <=> send_queue' # <<>>
    BY DEF WriteDone
  <1>3. send_queue' \in Seq(Message) /\ wire' \in Seq(Message)
    BY <1>1, HeadTailProperties, AppendProperties
  <1>4. wire' \o send_queue' = sent'
    BY <1>1, ConcatHeadTail
  <1>5. IsPrefix(wire', sent')
    BY <1>3, <1>4, ConcatPrefix
  <1> QED
    BY <1>2, <1>3, <1>4, <1>5 DEF InOrder, NothingStuckYet

\* on_write with an error drops one message; the stream is no longer open.
LEMMA WriteFailsStep ==
    ASSUME TypeOK, InOrder, NothingStuckYet, WriteFails
    PROVE  send_queue' \in Seq(Message) /\ InOrder' /\ NothingStuckYet'
PROOF
  <1>1. /\ send_queue \in Seq(Message) /\ send_queue # <<>>
        /\ stream \in {"closed", "lost"} /\ stream' = stream /\ sent' = sent /\ wire' = wire
        /\ send_queue' = Tail(send_queue) /\ ~writing'
    BY DEF TypeOK, WriteFails, NothingStuckYet
  <1>2. send_queue' \in Seq(Message)
    BY <1>1, HeadTailProperties
  <1> QED
    BY <1>1, <1>2 DEF InOrder, NothingStuckYet

-----------------------------------------------------------------------------
(* The invariant                                                           *)

\* A new session has queued nothing.
LEMMA InitWsInv == Init => WsInv
PROOF
  <1> SUFFICES ASSUME Init PROVE WsInv
    OBVIOUS
  <1>1. TypeOK
    <2>1. /\ reading \in BOOLEAN /\ initialized \in BOOLEAN /\ writing \in BOOLEAN
          /\ registered \in BOOLEAN
      BY DEF Init
    <2>2. /\ frames \in 0..MaxFrames /\ events \in 0..MaxEvents
          /\ next_id \in 1..(MaxFrames + 1)
      BY WsAssumption DEF Init
    <2>3. /\ send_queue \in Seq(Message) /\ sent \in Seq(Message) /\ wire \in Seq(Message)
          /\ posted \in Seq(Message) /\ sub_ids \in [Ops -> SubIds \cup {0}]
      BY DEF Init
    <2> QED
      BY <2>1, <2>2, <2>3 DEF Init, TypeOK
  <1>2. InOrder
    <2>1. <<>> \in Seq(Message) /\ <<>> \o <<>> = <<>>
      BY ConcatEmptySeq
    <2>2. IsPrefix(<<>>, <<>> \o <<>>)
      BY <2>1, ConcatPrefix
    <2> QED
      BY <2>1, <2>2 DEF Init, InOrder
  <1>3. NothingStuckYet /\ IdsWithinFrames
    BY DEF Init, NothingStuckYet, IdsWithinFrames
  <1> QED
    BY <1>1, <1>2, <1>3 DEF WsInv

\* What a frame's handler shares with the others: it uses up one frame.
LEMMA FrameStep ==
    ASSUME WsInv, ended' \in BOOLEAN, Frame, NEW m \in Message, Enqueue(m),
           initialized' \in BOOLEAN, registered' \in BOOLEAN,
           sub_ids' \in [Ops -> SubIds \cup {0}],
           registering' \in {NoOne} \cup [op : Ops, topic : Topics],
           subs' \subseteq subs, UNCHANGED <<revoking, calls, next_id>>
    PROVE  WsInv'
PROOF
  <1>1. /\ frames < MaxFrames /\ frames' = frames + 1 /\ registering = NoOne
        /\ UNCHANGED <<stream, reading, posted, closing, life, wire, events>>
    BY DEF Frame, FrameDue, StrandFree
  <1>2. /\ send_queue' \in Seq(Message) /\ sent' \in Seq(Message) /\ writing' = TRUE
        /\ InOrder' /\ NothingStuckYet'
    BY <1>1, EnqueueStep DEF WsInv
  <1>3. frames' \in 0..MaxFrames
    BY <1>1, WsAssumption DEF WsInv, TypeOK
  <1>4. TypeOK'
    BY <1>1, <1>2, <1>3 DEF WsInv, TypeOK
  <1>5. IdsWithinFrames'
    BY <1>1, WsAssumption DEF WsInv, TypeOK, IdsWithinFrames
  <1> QED
    BY <1>2, <1>4, <1>5 DEF WsInv

\* Steps of the session that enqueue nothing and write nothing.
LEMMA OtherStep ==
    ASSUME WsInv, ended' \in BOOLEAN, UNCHANGED <<queue, wire, frames>>,
           stream' \in {"handshake", "open", "closed", "lost"},
           stream' \in {"handshake", "open"} => stream \in {"handshake", "open"},
           reading' \in BOOLEAN, initialized' \in BOOLEAN, registered' \in BOOLEAN,
           sub_ids' \in [Ops -> SubIds \cup {0}],
           posted' \in Seq(Message), closing' \in {"no", "waiting", "ready"},
           life' \in {"alive", "destroying", "gone"}, subs' \subseteq Sub,
           revoking' \in {"no", "disconnect", "close", "thrown"},
           calls' \subseteq [event : 1..MaxEvents, id : SubIds, op : Ops],
           events' \in 0..MaxEvents,
           \/ UNCHANGED <<registering, next_id>>
           \/ registering # NoOne /\ registering' = NoOne /\ next_id' = next_id + 1
    PROVE  WsInv'
PROOF
  <1>1. InOrder' /\ NothingStuckYet'
    BY IdleQueueStep DEF WsInv
  <1>2. IdsWithinFrames'
    BY WsAssumption DEF WsInv, TypeOK, IdsWithinFrames
  <1>3. next_id' \in 1..(MaxFrames + 1)
    <2>1. CASE UNCHANGED <<registering, next_id>>
      BY <2>1 DEF WsInv, TypeOK
    <2>2. CASE registering # NoOne /\ registering' = NoOne /\ next_id' = next_id + 1
      BY <2>2, WsAssumption DEF WsInv, TypeOK, IdsWithinFrames
    <2> QED
      BY <2>1, <2>2
  <1>4. TypeOK'
    BY <1>3 DEF WsInv, TypeOK, queue
  <1> QED
    BY <1>1, <1>2, <1>4 DEF WsInv

\* A handler that runs on the strand keeps the invariant.
LEMMA StrandStep ==
    ASSUME WsInv, ended' \in BOOLEAN, Strand
    PROVE  WsInv'
PROOF
  <1> USE DEF object, broker
  <1>1. CASE OnAccept
    BY <1>1, OtherStep DEF OnAccept, WsInv, TypeOK
  <1>2. CASE Subscribe
    <2>1. /\ registering \in [op : Ops, topic : Topics] /\ next_id \in SubIds
      BY <1>2, WsAssumption DEF Subscribe, WsInv, TypeOK, IdsWithinFrames, SubIds
    <2>2. [id |-> next_id, op |-> registering.op, topic |-> registering.topic] \in Sub
      BY <2>1 DEF Sub
    <2>3. subs' \subseteq Sub
      BY <1>2, <2>2 DEF Subscribe, WsInv, TypeOK
    <2>4. sub_ids' \in [Ops -> SubIds \cup {0}]
      BY <1>2, <2>1 DEF Subscribe, WsInv, TypeOK
    <2> QED
      BY <1>2, <2>3, <2>4, OtherStep DEF Subscribe, WsInv, TypeOK
  <1>3. CASE ReadFails
    BY <1>3, OtherStep DEF ReadFails, WsInv, TypeOK
  <1>4. CASE WriteDone
    <2>1. /\ send_queue' \in Seq(Message) /\ wire' \in Seq(Message)
          /\ InOrder' /\ NothingStuckYet'
      BY <1>4, WriteDoneStep DEF WsInv
    <2>2. TypeOK'
      BY <1>4, <2>1 DEF WriteDone, WsInv, TypeOK
    <2>3. IdsWithinFrames'
      BY <1>4 DEF WriteDone, WsInv, IdsWithinFrames
    <2> QED
      BY <2>1, <2>2, <2>3 DEF WsInv
  <1>5. CASE WriteFails
    <2>1. send_queue' \in Seq(Message) /\ InOrder' /\ NothingStuckYet'
      BY <1>5, WriteFailsStep DEF WsInv
    <2>2. TypeOK'
      BY <1>5, <2>1 DEF WriteFails, WsInv, TypeOK
    <2>3. IdsWithinFrames'
      BY <1>5 DEF WriteFails, WsInv, IdsWithinFrames
    <2> QED
      BY <2>1, <2>2, <2>3 DEF WsInv
  <1>6. CASE RunPosted
    <2>1. posted \in Seq(Message) /\ posted # <<>>
      BY <1>6 DEF RunPosted, WsInv, TypeOK
    <2>2. Head(posted) \in Message /\ Tail(posted) \in Seq(Message)
      BY <2>1, HeadTailProperties
    <2>3. /\ send_queue' \in Seq(Message) /\ sent' \in Seq(Message) /\ writing' = TRUE
          /\ InOrder' /\ NothingStuckYet'
      BY <1>6, <2>2, EnqueueStep DEF RunPosted, WsInv
    <2>4. TypeOK'
      BY <1>6, <2>2, <2>3 DEF RunPosted, WsInv, TypeOK
    <2>5. IdsWithinFrames'
      BY <1>6 DEF RunPosted, WsInv, IdsWithinFrames
    <2> QED
      BY <2>3, <2>4, <2>5 DEF WsInv
  <1>7. CASE CloseSent
    BY <1>7, OtherStep DEF CloseSent, WsInv, TypeOK
  <1>8. CASE DestroyUnregister
    BY <1>8, OtherStep DEF DestroyUnregister, WsInv, TypeOK
  <1>9. CASE DestroyDisconnect
    BY <1>9, OtherStep DEF DestroyDisconnect, WsInv, TypeOK
  <1> QED
    BY <1>1, <1>2, <1>3, <1>4, <1>5, <1>6, <1>7, <1>8, <1>9 DEF Strand

\* A frame of the client keeps the invariant.
LEMMA ClientStep ==
    ASSUME WsInv, ended' \in BOOLEAN, Client
    PROVE  WsInv'
PROOF
  <1> USE DEF object, broker
  <1>1. CASE OnConnectionInit
    <2>1. [type |-> "connection_ack"] \in Message
      BY DEF Message
    <2>2. registered' \in BOOLEAN
      BY <1>1 DEF OnConnectionInit, WsInv, TypeOK
    <2> QED
      BY <1>1, <2>1, <2>2, FrameStep DEF OnConnectionInit, WsInv, TypeOK
  <1>2. CASE OnPing
    <2>1. [type |-> "pong"] \in Message
      BY DEF Message
    <2> QED
      BY <1>2, <2>1, FrameStep DEF OnPing, WsInv, TypeOK
  <1>3. CASE ConnectionLost
    BY <1>3, OtherStep DEF ConnectionLost, WsInv, TypeOK
  <1>4. ASSUME NEW op \in Ops, OnSubscribeRefused(op)
        PROVE  WsInv'
    <2>1. PICK m \in Message : Enqueue(m)
      <3>1. [type |-> "error", id |-> op] \in Message /\ [type |-> "connection_error"] \in Message
        BY DEF Message
      <3> QED
        BY <1>4, <3>1 DEF OnSubscribeRefused
    <2> QED
      BY <1>4, <2>1, FrameStep DEF OnSubscribeRefused, WsInv, TypeOK
  <1>5. ASSUME NEW op \in Ops, OnSubscribe(op)
        PROVE  WsInv'
    <2>1. [type |-> "next", id |-> op] \in Message
      BY DEF Message
    <2>2. registering' \in {NoOne} \cup [op : Ops, topic : Topics]
      BY <1>5 DEF OnSubscribe
    <2> QED
      BY <1>5, <2>1, <2>2, FrameStep DEF OnSubscribe, WsInv, TypeOK
  <1>6. ASSUME NEW op \in Ops, OnComplete(op)
        PROVE  WsInv'
    <2>1. [type |-> "complete", id |-> op] \in Message
      BY DEF Message
    <2>2. sub_ids' \in [Ops -> SubIds \cup {0}]
      BY <1>6 DEF OnComplete, WsInv, TypeOK
    <2>3. subs' \subseteq subs
      BY <1>6 DEF OnComplete
    <2> QED
      BY <1>6, <2>1, <2>2, <2>3, FrameStep DEF OnComplete, WsInv, TypeOK
  <1> QED
    BY <1>1, <1>2, <1>3, <1>4, <1>5, <1>6 DEF Client

\* Publishers, revocations and the network keep the invariant.
LEMMA OthersStep ==
    ASSUME WsInv, ended' \in BOOLEAN, Others
    PROVE  WsInv'
PROOF
  <1> USE DEF object, broker
  <1>1. ASSUME NEW topic \in Topics, Publish(topic)
        PROVE  WsInv'
    <2>1. events' \in 1..MaxEvents
      BY <1>1, WsAssumption DEF Publish, WsInv, TypeOK
    <2>2. calls' \subseteq [event : 1..MaxEvents, id : SubIds, op : Ops]
      BY <1>1, <2>1 DEF Publish, WsInv, TypeOK, Sub
    <2>3. events' \in 0..MaxEvents
      BY <2>1, WsAssumption
    <2> QED
      BY <1>1, <2>2, <2>3, OtherStep DEF Publish, WsInv, TypeOK
  <1>2. ASSUME NEW c \in calls, Deliver(c)
        PROVE  WsInv'
    <2>1. [type |-> "next", id |-> c.op] \in Message
      BY DEF WsInv, TypeOK, Message
    <2>2. posted' \in Seq(Message)
      BY <1>2, <2>1, AppendProperties DEF Deliver, WsInv, TypeOK
    <2>3. calls' \subseteq [event : 1..MaxEvents, id : SubIds, op : Ops]
      BY <1>2 DEF Deliver, WsInv, TypeOK
    <2> QED
      BY <1>2, <2>2, <2>3, OtherStep DEF Deliver, WsInv, TypeOK
  <1>3. CASE Revoke
    BY <1>3, OtherStep DEF Revoke, WsInv, TypeOK
  <1>4. CASE RevokeDisconnect
    BY <1>4, OtherStep DEF RevokeDisconnect, WsInv, TypeOK
  <1>5. CASE RevokeClose
    <2>1. [type |-> "connection_terminate"] \in Message
      BY DEF Message
    <2>2. posted' \in Seq(Message)
      BY <1>5, <2>1, AppendProperties DEF RevokeClose, WsInv, TypeOK
    <2> QED
      BY <1>5, <2>2, OtherStep DEF RevokeClose, WsInv, TypeOK
  <1>6. CASE RevokeThrows
    BY <1>6, OtherStep DEF RevokeThrows, WsInv, TypeOK
  <1>7. CASE RevokeAbandoned
    BY <1>7, OtherStep DEF RevokeAbandoned, WsInv, TypeOK
  <1> QED
    BY <1>1, <1>2, <1>3, <1>4, <1>5, <1>6, <1>7 DEF Others

\* A session's messages reach the client in the order enqueue_raw was given them, and
\* do_write forgets none, for every instance and whether or not ids are reused.
THEOREM QueueCorrect == Spec => []QueueInv
PROOF
  <1>1. Init => WsInv
    BY InitWsInv
  <1>2. WsInv /\ [Next]_vars => WsInv'
    <2> SUFFICES ASSUME WsInv, [Next]_vars PROVE WsInv'
      OBVIOUS
    <2>1. CASE UNCHANGED session /\ ended' \in BOOLEAN
      BY <2>1 DEF session, object, queue, broker, WsInv, TypeOK, InOrder, NothingStuckYet,
                  IdsWithinFrames
    <2>2. ended \in BOOLEAN
      BY DEF WsInv, TypeOK
    <2>3. CASE Runs(Strand)
      BY <2>2, <2>3, StrandStep DEF Runs
    <2>4. CASE Runs(Client)
      BY <2>2, <2>4, ClientStep DEF Runs
    <2>5. CASE Runs(Others)
      BY <2>2, <2>5, OthersStep DEF Runs
    <2>6. CASE ProcessEnds
      BY <2>1, <2>6 DEF ProcessEnds
    <2>7. CASE UNCHANGED vars
      BY <2>1, <2>2, <2>7 DEF vars
    <2> QED
      BY <2>3, <2>4, <2>5, <2>6, <2>7 DEF Next, Over
  <1>3. WsInv => QueueInv
    BY DEF WsInv, QueueInv, NothingStuckYet, NothingStuck
  <1> QED
    BY <1>1, <1>2, <1>3, PTL DEF Spec

-----------------------------------------------------------------------------
(* The life of the object and the operations of the client                 *)

\* shared_from_this and weak.lock: no handler, operation or posted event finds the
\* session destroyed, for every instance.
THEOREM HandlersKeepAlive == Spec => []NoHandlerOutlives
PROOF
  <1>1. Init => NoHandlerOutlives
    BY DEF Init, NoHandlerOutlives
  <1>2. NoHandlerOutlives /\ [Next]_vars => NoHandlerOutlives'
    <2> SUFFICES ASSUME NoHandlerOutlives, [Next]_vars PROVE NoHandlerOutlives'
      OBVIOUS
    <2> USE DEF NoHandlerOutlives, Unreferenced, object, queue, broker
    <2>1. CASE Strand
      BY <2>1 DEF Strand, OnAccept, Subscribe, ReadFails, WriteDone, WriteFails, RunPosted,
                  CloseSent, DestroyUnregister, DestroyDisconnect
    <2>2. CASE Client
      BY <2>2 DEF Client, OnConnectionInit, OnPing, ConnectionLost, OnSubscribeRefused,
                  OnSubscribe, OnComplete, Frame, FrameDue, Enqueue
    <2>3. CASE Others
      BY <2>3 DEF Others, Publish, Deliver, Revoke, RevokeDisconnect, RevokeThrows,
                  RevokeAbandoned, RevokeClose
    <2>4. CASE UNCHANGED session
      BY <2>4 DEF session
    <2> QED
      BY <2>1, <2>2, <2>3, <2>4 DEF Next, Runs, ProcessEnds, Over, vars
  <1> QED
    BY <1>1, <1>2, PTL DEF Spec

\* handle_complete finds the subscription of its operation, for every instance in which
\* the client reuses no id of a live operation: the id handle_subscribe is about to
\* file has nothing on file, so no subscription is filed over.
THEOREM CompleteEnds ==
    ASSUME ReuseIds = FALSE
    PROVE  Spec => []CompleteEndsOperation
PROOF
  <1>1. Init => CompleteInv
    BY DEF Init, CompleteInv, CompleteEndsOperation, RegisteringIsNew
  <1>2. QueueInv /\ CompleteInv /\ [Next]_vars => CompleteInv'
    <2> SUFFICES ASSUME TypeOK, CompleteInv, [Next]_vars PROVE CompleteInv'
      BY DEF QueueInv
    <2> USE DEF CompleteInv, CompleteEndsOperation, RegisteringIsNew, object, queue, broker
    <2>1. ASSUME subs' \subseteq subs, UNCHANGED <<sub_ids, registering>>
          PROVE  CompleteInv'
      BY <2>1
    <2>2. CASE Subscribe
      <3>1. registering \in [op : Ops, topic : Topics] /\ subs \subseteq Sub
        BY <2>2 DEF Subscribe, TypeOK
      <3>2. \A s \in subs : s.op # registering.op
        BY <2>2, <3>1 DEF Subscribe, Sub, SubIds
      <3>3. sub_ids' = [sub_ids EXCEPT ![registering.op] = next_id]
            /\ registering' = NoOne
            /\ subs' = subs \cup {[id |-> next_id, op |-> registering.op, topic |-> registering.topic]}
        BY <2>2 DEF Subscribe
      <3>4. \A o \in Ops : sub_ids'[o] = IF o = registering.op THEN next_id ELSE sub_ids[o]
        BY <3>1, <3>3 DEF TypeOK
      <3> QED
        BY <3>1, <3>2, <3>3, <3>4 DEF Sub
    <2>3. ASSUME NEW op \in Ops, OnSubscribe(op)
          PROVE  CompleteInv'
      BY <2>3 DEF OnSubscribe
    <2>4. ASSUME NEW op \in Ops, OnComplete(op)
          PROVE  CompleteInv'
      <3>1. /\ registering' = NoOne /\ subs \subseteq Sub
            /\ subs' = {s \in subs : s.id # sub_ids[op]}
            /\ sub_ids' = [sub_ids EXCEPT ![op] = 0]
        BY <2>4 DEF OnComplete, Frame, FrameDue, StrandFree, TypeOK
      <3>2. \A s \in subs' : s.op \in Ops /\ s.op # op
        BY <3>1 DEF Sub
      <3> QED
        BY <3>1, <3>2 DEF TypeOK
    <2>5. CASE Strand
      BY <2>1, <2>2, <2>5
         DEF Strand, OnAccept, ReadFails, WriteDone, WriteFails, RunPosted, CloseSent,
             DestroyUnregister, DestroyDisconnect
    <2>6. CASE Client
      BY <2>1, <2>3, <2>4, <2>6
         DEF Client, OnConnectionInit, OnPing, ConnectionLost, OnSubscribeRefused
    <2>7. CASE Others
      BY <2>1, <2>7 DEF Others, Publish, Deliver, Revoke, RevokeDisconnect, RevokeThrows,
                  RevokeAbandoned, RevokeClose
    <2>8. CASE UNCHANGED session
      BY <2>1, <2>8 DEF session
    <2> QED
      BY <2>5, <2>6, <2>7, <2>8 DEF Next, Runs, ProcessEnds, Over, vars
  <1>3. CompleteInv => CompleteEndsOperation
    BY DEF CompleteInv
  <1> QED
    BY <1>1, <1>2, <1>3, QueueCorrect, PTL DEF Spec
=============================================================================
