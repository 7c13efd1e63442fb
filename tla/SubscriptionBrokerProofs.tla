---------------------- MODULE SubscriptionBrokerProofs ----------------------
(***************************************************************************)
(* Proofs about SubscriptionBroker for any numbers of threads, sockets,    *)
(* topics, auth sessions and subscriptions.                                *)
(***************************************************************************)
EXTENDS SubscriptionBroker, TLAPS

StoreType ==
    /\ subscriptions \in Seq(SubscriptionRecord)
    /\ subscription_id_index \in [SubIds -> Nat]
    /\ session_index \in [Sessions -> SUBSET Nat]
    /\ topic_index \in [Topics -> SUBSET Nat]

\* The type invariant alone is not inductive (a stale index would send
\* eraseSubscriptionAt outside the vector), nor is index consistency: it needs the
\* ids waiting in unfinished subscribe calls to be fresh.
BrokerInv == TypeOK /\ IndexConsistent /\ LockDiscipline /\ FreshIds

-----------------------------------------------------------------------------
(* The swap-with-last removal                                              *)

\* Removing a record shortens the vector by one and moves only the last record.
LEMMA EraseVector ==
    ASSUME StoreType, NEW index \in 1..Len(subscriptions), eraseSubscriptionAt(index)
    PROVE  /\ subscriptions' \in Seq(SubscriptionRecord)
           /\ Len(subscriptions') = Len(subscriptions) - 1
           /\ \A k \in 1..Len(subscriptions') :
                subscriptions'[k] = IF k = index THEN subscriptions[Len(subscriptions)]
                                                 ELSE subscriptions[k]
PROOF
  <1> DEFINE last == Len(subscriptions)
             next == [k \in 1..(last - 1) |->
                        IF k = index THEN subscriptions[last] ELSE subscriptions[k]]
  <1>1. last \in Nat /\ last >= 1 /\ last - 1 \in Nat
    BY DEF StoreType
  <1>2. subscriptions' = next
    BY DEF eraseSubscriptionAt
  <1>3. \A k \in 1..last : subscriptions[k] \in SubscriptionRecord
    BY DEF StoreType
  <1>4. next \in [1..(last - 1) -> SubscriptionRecord]
    BY <1>1, <1>3
  <1>5. next \in Seq(SubscriptionRecord) /\ Len(next) = last - 1
    BY <1>1, <1>4
  <1> QED
    BY <1>1, <1>2, <1>5

\* After the removal the id index is again the inverse of the vector.
LEMMA EraseIdIndex ==
    ASSUME StoreType, IdIndexOK, NEW index \in 1..Len(subscriptions),
           eraseSubscriptionAt(index)
    PROVE  /\ subscription_id_index' \in [SubIds -> Nat]
           /\ IdIndexOK'
           /\ \A d \in SubIds : subscription_id_index[d] = 0 => subscription_id_index'[d] = 0
PROOF
  <1> DEFINE last == Len(subscriptions)
             rid  == subscriptions[index].id
             mid  == subscriptions[last].id
  <1>1. last \in Nat /\ last >= 1 /\ index \in Nat
    BY DEF StoreType
  <1>2. \A k \in 1..last : subscriptions[k].id \in SubIds
    <2>1. \A k \in 1..last : subscriptions[k] \in SubscriptionRecord
      BY DEF StoreType
    <2> QED
      BY <2>1 DEF SubscriptionRecord
  <1>3. rid \in SubIds /\ mid \in SubIds
    BY <1>1, <1>2
  <1>4. \A k \in 1..last : subscription_id_index[subscriptions[k].id] = k
    BY DEF IdIndexOK
  <1>5. subscription_id_index' =
          [d \in SubIds |-> IF d = rid THEN 0
                            ELSE IF d = mid THEN index ELSE subscription_id_index[d]]
    BY <1>3 DEF eraseSubscriptionAt, StoreType
  <1>6. subscription_id_index' \in [SubIds -> Nat]
    BY <1>1, <1>5 DEF StoreType
  <1>7. /\ Len(subscriptions') = last - 1
        /\ \A k \in 1..(last - 1) :
             subscriptions'[k] = IF k = index THEN subscriptions[last] ELSE subscriptions[k]
    BY EraseVector
  <1>8. ASSUME NEW k \in 1..(last - 1)
        PROVE  subscription_id_index'[subscriptions'[k].id] = k
    <2>1. CASE k = index
      BY <2>1, <1>1, <1>2, <1>3, <1>4, <1>5, <1>7
    <2>2. CASE k # index
      BY <2>2, <1>1, <1>2, <1>3, <1>4, <1>5, <1>7
    <2> QED
      BY <2>1, <2>2
  <1>9. ASSUME NEW d \in SubIds, subscription_id_index'[d] # 0
        PROVE  /\ subscription_id_index'[d] \in 1..(last - 1)
               /\ subscriptions'[subscription_id_index'[d]].id = d
    <2>1. d # rid
      BY <1>5, <1>9
    <2>2. CASE d = mid
      BY <2>1, <2>2, <1>1, <1>3, <1>4, <1>5, <1>7
    <2>3. CASE d # mid
      <3>1. subscription_id_index'[d] = subscription_id_index[d]
        BY <2>1, <2>3, <1>5
      <3>2. /\ subscription_id_index[d] \in 1..last
            /\ subscriptions[subscription_id_index[d]].id = d
        BY <3>1, <1>9 DEF IdIndexOK, isValidIndex
      <3>3. subscription_id_index[d] # index /\ subscription_id_index[d] # last
        BY <3>2, <2>1, <2>3
      <3> QED
        BY <3>1, <3>2, <3>3, <1>1, <1>7
    <2> QED
      BY <2>2, <2>3
  <1>10. ASSUME NEW d \in SubIds, subscription_id_index[d] = 0
         PROVE  subscription_id_index'[d] = 0
    <2>1. d # mid
      BY <1>10, <1>1, <1>4
    <2> QED
      BY <2>1, <1>5, <1>10
  <1> QED
    BY <1>6, <1>7, <1>8, <1>9, <1>10 DEF IdIndexOK, isValidIndex

\* map files the records 1..n under their keys.
Files(map, key, n, K) ==
    /\ map \in [K -> SUBSET Nat]
    /\ \A x \in K : map[x] = {i \in 1..n : key[i] = x}

\* The keys of the records once the last one has moved to place index.
MovedKey(key, index) ==
    [i \in 1..(Len(subscriptions) - 1) |->
        IF i = index THEN key[Len(subscriptions)] ELSE key[i]]

\* removeIndex and remapIndex together turn an index of the records into the index
\* of those that are left, for sessions and for topics alike.
LEMMA ReindexCorrect ==
    ASSUME Len(subscriptions) \in Nat, NEW K, NEW map,
           NEW key \in [1..Len(subscriptions) -> K],
           NEW index \in 1..Len(subscriptions),
           Files(map, key, Len(subscriptions), K)
    PROVE  Files(reindex(map, key, index), MovedKey(key, index), Len(subscriptions) - 1, K)
PROOF
  <1> DEFINE n == Len(subscriptions)
             removed == [map EXCEPT ![key[index]] = removeIndex(@, index)]
             moved == MovedKey(key, index)
  <1>1. /\ n \in Nat /\ n >= 1 /\ index \in Nat /\ index \in 1..n
        /\ key[index] \in K /\ key[n] \in K
    OBVIOUS
  <1>2. moved = [i \in 1..(n - 1) |-> IF i = index THEN key[n] ELSE key[i]]
    BY DEF MovedKey
  <1>3. map \in [K -> SUBSET Nat] /\ \A x \in K : map[x] = {i \in 1..n : key[i] = x}
    BY DEF Files
  <1>4. removed \in [K -> SUBSET Nat]
    BY <1>1, <1>3 DEF removeIndex
  <1>5. \A x \in K : removed[x] = {i \in 1..n : key[i] = x /\ i # index}
    BY <1>1, <1>3 DEF removeIndex
  <1>6. CASE index = n
    <2>1. reindex(map, key, index) = removed
      BY <1>6 DEF reindex
    <2> HIDE DEF removed, moved, n
    <2>2. \A x \in K : removed[x] = {i \in 1..(n - 1) : moved[i] = x}
      BY <1>1, <1>2, <1>5, <1>6
    <2>3. Files(removed, moved, n - 1, K)
      BY <2>2, <1>4 DEF Files
    <2> QED
      BY <2>1, <2>3 DEF moved, n
  <1>7. CASE index # n
    <2> DEFINE result == [removed EXCEPT ![key[n]] = remapIndex(@, n, index)]
    <2>1. reindex(map, key, index) = result
      BY <1>7 DEF reindex
    <2> HIDE DEF removed, moved, n
    <2>2. removed[key[n]] \in SUBSET Nat /\ n \in removed[key[n]]
      BY <1>1, <1>4, <1>5, <1>7
    <2>3. remapIndex(removed[key[n]], n, index) = (removed[key[n]] \ {n}) \cup {index}
      BY <2>2 DEF remapIndex
    <2>4. result \in [K -> SUBSET Nat]
      BY <1>1, <1>4, <2>2, <2>3
    <2>5. ASSUME NEW x \in K, x # key[n]
          PROVE  result[x] = {i \in 1..(n - 1) : moved[i] = x}
      <3>1. result[x] = removed[x]
        BY <2>5, <1>4
      <3> QED
        BY <3>1, <2>5, <1>1, <1>2, <1>5
    <2>6. result[key[n]] = {i \in 1..(n - 1) : moved[i] = key[n]}
      <3>1. result[key[n]] = (removed[key[n]] \ {n}) \cup {index}
        BY <1>1, <1>4, <2>3
      <3> QED
        BY <3>1, <1>1, <1>2, <1>5, <1>7
    <2> HIDE DEF result
    <2>7. Files(result, moved, n - 1, K)
      BY <2>4, <2>5, <2>6 DEF Files
    <2> QED
      BY <2>1, <2>7 DEF moved, n
  <1> QED
    BY <1>6, <1>7

\* eraseSubscriptionAt keeps the store well-typed and its indices consistent.
LEMMA EraseStore ==
    ASSUME StoreType, IndexConsistent, NEW index \in 1..Len(subscriptions),
           eraseSubscriptionAt(index)
    PROVE  StoreType' /\ IndexConsistent'
PROOF
  <1> DEFINE n == Len(subscriptions)
  <1>1. n \in Nat
    BY DEF StoreType
  <1>2. \A k \in 1..n : subscriptions[k] \in SubscriptionRecord
    BY DEF StoreType
  <1>3. SessionKey \in [1..n -> Sessions] /\ TopicKey \in [1..n -> Topics]
    BY <1>2 DEF SessionKey, TopicKey, SubscriptionRecord
  <1>4. /\ subscriptions' \in Seq(SubscriptionRecord)
        /\ Len(subscriptions') = n - 1
        /\ \A k \in 1..(n - 1) :
             subscriptions'[k] = IF k = index THEN subscriptions[n] ELSE subscriptions[k]
    BY EraseVector
  <1>5. subscription_id_index' \in [SubIds -> Nat] /\ IdIndexOK'
    BY EraseIdIndex DEF IndexConsistent
  <1>6. session_index' \in [Sessions -> SUBSET Nat] /\ SessionIndexOK'
    <2>1. Files(session_index, SessionKey, n, Sessions)
      BY DEF IndexConsistent, SessionIndexOK, SessionKey, StoreType, Files
    <2>2. session_index' = reindex(session_index, SessionKey, index)
      BY DEF eraseSubscriptionAt
    <2>3. Files(session_index', MovedKey(SessionKey, index), n - 1, Sessions)
      BY <1>1, <1>3, <2>1, <2>2, ReindexCorrect
    <2>4. \A i \in 1..(n - 1) : MovedKey(SessionKey, index)[i] = subscriptions'[i].session
      BY <1>1, <1>4 DEF SessionKey, MovedKey
    <2> QED
      BY <2>3, <2>4, <1>4 DEF SessionIndexOK, Files
  <1>7. topic_index' \in [Topics -> SUBSET Nat] /\ TopicIndexOK'
    <2>1. Files(topic_index, TopicKey, n, Topics)
      BY DEF IndexConsistent, TopicIndexOK, TopicKey, StoreType, Files
    <2>2. topic_index' = reindex(topic_index, TopicKey, index)
      BY DEF eraseSubscriptionAt
    <2>3. Files(topic_index', MovedKey(TopicKey, index), n - 1, Topics)
      BY <1>1, <1>3, <2>1, <2>2, ReindexCorrect
    <2>4. \A i \in 1..(n - 1) : MovedKey(TopicKey, index)[i] = subscriptions'[i].topic
      BY <1>1, <1>4 DEF TopicKey, MovedKey
    <2> QED
      BY <2>3, <2>4, <1>4 DEF TopicIndexOK, Files
  <1> QED
    BY <1>4, <1>5, <1>6, <1>7 DEF StoreType, IndexConsistent

-----------------------------------------------------------------------------
(* The invariant                                                           *)

\* An empty broker has exact indices.
LEMMA InitBrokerInv == Init => BrokerInv
PROOF
  <1> SUFFICES ASSUME Init PROVE BrokerInv
    OBVIOUS
  <1> USE BrokerAssumption DEF Init
  <1>1. TypeOK
    BY DEF TypeOK, Call, SubIds
  <1>2. IndexConsistent
    BY DEF IndexConsistent, IdIndexOK, SessionIndexOK, TopicIndexOK
  <1>3. LockDiscipline
    BY DEF LockDiscipline, Idle
  <1>4. FreshIds
    BY DEF FreshIds, Idle
  <1> QED
    BY <1>1, <1>2, <1>3, <1>4 DEF BrokerInv

\* Calls that leave the store and the id counter alone, neither take nor give back
\* the lock, and put no thread into subscribe or into the loop.
LEMMA QuietStep ==
    ASSUME BrokerInv, NEW t \in Threads, NEW c \in Call,
           c.op # "subscribe", c.op # "erase", call[t].op # "erase",
           call' = [call EXCEPT ![t] = c],
           UNCHANGED <<g_sub_id_counter, mutex, store>>,
           auth_sessions' \in [AuthSessions -> Sessions \cup {NoSession}],
           ws_to_auth' \in [Sessions -> AuthSessions \cup {NoAuth}],
           shared' \in SUBSET AuthSessions, rejoined' \in SUBSET Threads,
           terminated' \in SUBSET Sessions
    PROVE  BrokerInv'
PROOF
  <1>1. TypeOK'
    BY DEF BrokerInv, TypeOK, store
  <1>2. IndexConsistent'
    BY DEF BrokerInv, IndexConsistent, IdIndexOK, SessionIndexOK, TopicIndexOK,
           isValidIndex, store
  <1>3. \A u \in Threads : u # t => call'[u] = call[u]
    BY DEF BrokerInv, TypeOK
  <1>4. call'[t] = c
    BY DEF BrokerInv, TypeOK
  <1>5. LockDiscipline'
    BY <1>3, <1>4 DEF BrokerInv, LockDiscipline
  <1>6. FreshIds'
    BY <1>3, <1>4 DEF BrokerInv, FreshIds, store
  <1> QED
    BY <1>1, <1>2, <1>5, <1>6 DEF BrokerInv

\* A call that removes one record under the lock.
LEMMA EraseStep ==
    ASSUME BrokerInv, NEW t \in Threads, NEW c \in Call,
           NEW index \in 1..Len(subscriptions), eraseSubscriptionAt(index),
           c.op # "subscribe", c.op = "erase" <=> call[t].op = "erase",
           call' = [call EXCEPT ![t] = c],
           UNCHANGED <<g_sub_id_counter, mutex, auth, terminated>>
    PROVE  BrokerInv'
PROOF
  <1>1. StoreType /\ IndexConsistent
    BY DEF BrokerInv, TypeOK, StoreType
  <1>2. StoreType' /\ IndexConsistent'
    BY <1>1, EraseStore
  <1>3. TypeOK'
    BY <1>2 DEF BrokerInv, TypeOK, StoreType, auth
  <1>4. \A d \in SubIds : subscription_id_index[d] = 0 => subscription_id_index'[d] = 0
    BY <1>1, EraseIdIndex DEF IndexConsistent
  <1>5. \A u \in Threads : u # t => call'[u] = call[u]
    BY DEF BrokerInv, TypeOK
  <1>6. call'[t] = c
    BY DEF BrokerInv, TypeOK
  <1>7. LockDiscipline'
    BY <1>5, <1>6 DEF BrokerInv, LockDiscipline
  <1>8. \A u \in Threads : call'[u].op = "subscribe" =>
           u # t /\ call'[u] = call[u] /\ call[u].sub.id \in SubIds
    <2> SUFFICES ASSUME NEW u \in Threads, call'[u].op = "subscribe"
                 PROVE  u # t /\ call'[u] = call[u] /\ call[u].sub.id \in SubIds
      OBVIOUS
    <2>1. u # t /\ call'[u] = call[u]
      BY <1>5, <1>6
    <2>2. call[u] \in Call
      BY DEF BrokerInv, TypeOK
    <2> QED
      BY <2>1, <2>2 DEF Call, Idle, SubscriptionRecord
  <1>9. FreshIds'
    BY <1>4, <1>8 DEF BrokerInv, FreshIds
  <1> QED
    BY <1>2, <1>3, <1>7, <1>9 DEF BrokerInv

\* A subscription enters the vector and the three indices together.
LEMMA CommitStep ==
    ASSUME BrokerInv, NEW t \in Threads, SubscribeCommit(t)
    PROVE  BrokerInv'
PROOF
  <1> DEFINE r == call[t].sub
             n == Len(subscriptions)
  <1>1. call[t] \in Call /\ call[t].op = "subscribe"
    BY DEF BrokerInv, TypeOK, SubscribeCommit
  <1>2. r \in SubscriptionRecord
    BY <1>1 DEF Call, Idle
  <1>3. r.id \in SubIds /\ r.session \in Sessions /\ r.topic \in Topics
    BY <1>2 DEF SubscriptionRecord
  <1>4. n \in Nat /\ subscriptions \in Seq(SubscriptionRecord)
    BY DEF BrokerInv, TypeOK
  <1>5. /\ subscriptions' = Append(subscriptions, r)
        /\ subscription_id_index' = [subscription_id_index EXCEPT ![r.id] = n + 1]
        /\ session_index' = [session_index EXCEPT ![r.session] = @ \cup {n + 1}]
        /\ topic_index' = [topic_index EXCEPT ![r.topic] = @ \cup {n + 1}]
        /\ call' = [call EXCEPT ![t] = [op |-> "notify", count |-> n + 1,
                                        close |-> NoSession, id |-> r.id]]
        /\ mutex = NoThread
        /\ UNCHANGED <<g_sub_id_counter, mutex, auth, terminated>>
    BY DEF SubscribeCommit, LockFree
  <1> HIDE DEF r
  <1>6. /\ subscriptions' \in Seq(SubscriptionRecord)
        /\ Len(subscriptions') = n + 1
        /\ subscriptions'[n + 1] = r
        /\ \A k \in 1..n : subscriptions'[k] = subscriptions[k]
    BY <1>2, <1>4, <1>5
  <1>7. r.id <= g_sub_id_counter /\ subscription_id_index[r.id] = 0
    BY <1>1 DEF BrokerInv, FreshIds, r
  <1>8. [op |-> "notify", count |-> n + 1, close |-> NoSession, id |-> r.id] \in Call
    BY <1>3, <1>4 DEF Call, SubIds
  <1>9. TypeOK'
    BY <1>3, <1>4, <1>5, <1>6, <1>8 DEF BrokerInv, TypeOK, auth
  <1>10. IdIndexOK'
    <2>1. \A k \in 1..n : subscriptions[k] \in SubscriptionRecord
      BY <1>4
    <2>2. \A k \in 1..n : subscriptions[k].id \in SubIds /\ subscription_id_index[subscriptions[k].id] = k
      BY <2>1 DEF BrokerInv, IndexConsistent, IdIndexOK, SubscriptionRecord
    <2>3. \A k \in 1..n : subscriptions[k].id # r.id
      BY <2>2, <1>7
    <2>4. \A d \in SubIds : subscription_id_index'[d] =
             IF d = r.id THEN n + 1 ELSE subscription_id_index[d]
      BY <1>3, <1>5 DEF BrokerInv, TypeOK
    <2>5. \A k \in 1..(n + 1) : subscription_id_index'[subscriptions'[k].id] = k
      BY <2>2, <2>3, <2>4, <1>3, <1>4, <1>6
    <2>6. ASSUME NEW d \in SubIds, subscription_id_index'[d] # 0
          PROVE  /\ subscription_id_index'[d] \in 1..(n + 1)
                 /\ subscriptions'[subscription_id_index'[d]].id = d
      <3>1. CASE d = r.id
        BY <3>1, <2>4, <1>4, <1>6
      <3>2. CASE d # r.id
        <4>1. subscription_id_index'[d] = subscription_id_index[d]
          BY <3>2, <2>4
        <4>2. subscription_id_index[d] \in 1..n /\ subscriptions[subscription_id_index[d]].id = d
          BY <4>1, <2>6 DEF BrokerInv, IndexConsistent, IdIndexOK, isValidIndex
        <4> QED
          BY <4>1, <4>2, <1>4, <1>6
      <3> QED
        BY <3>1, <3>2
    <2> QED
      BY <2>5, <2>6, <1>6 DEF IdIndexOK, isValidIndex
  <1>11. SessionIndexOK'
    <2>1. \A s \in Sessions : session_index[s] = {i \in 1..n : subscriptions[i].session = s}
      BY DEF BrokerInv, IndexConsistent, SessionIndexOK
    <2>2. \A s \in Sessions : session_index'[s] =
             IF s = r.session THEN session_index[s] \cup {n + 1} ELSE session_index[s]
      BY <1>3, <1>5 DEF BrokerInv, TypeOK
    <2>3. ASSUME NEW s \in Sessions
          PROVE  session_index'[s] = {i \in 1..(n + 1) : subscriptions'[i].session = s}
      <3> HIDE DEF n
      <3>1. \A i : i \in 1..(n + 1) <=> i \in 1..n \/ i = n + 1
        BY <1>4
      <3>2. \A i \in 1..n : subscriptions'[i].session = s <=> subscriptions[i].session = s
        BY <1>6
      <3>3. subscriptions'[n + 1].session = r.session
        BY <1>6
      <3>4. \A i : i \in session_index'[s] <=>
               (i \in 1..n /\ subscriptions[i].session = s) \/ (i = n + 1 /\ s = r.session)
        <4>1. \A i : i \in session_index[s] <=> i \in 1..n /\ subscriptions[i].session = s
          BY <2>1
        <4>2. CASE s = r.session
          <5>1. session_index'[s] = session_index[s] \cup {n + 1}
            BY <4>2, <2>2
          <5> QED
            BY <5>1, <4>1, <4>2
        <4>3. CASE s # r.session
          <5>1. session_index'[s] = session_index[s]
            BY <4>3, <2>2
          <5> QED
            BY <5>1, <4>1, <4>3
        <4> QED
          BY <4>2, <4>3
      <3> QED
        BY <3>1, <3>2, <3>3, <3>4
    <2> QED
      BY <2>3, <1>6 DEF SessionIndexOK
  <1>12. TopicIndexOK'
    <2>1. \A tp \in Topics : topic_index[tp] = {i \in 1..n : subscriptions[i].topic = tp}
      BY DEF BrokerInv, IndexConsistent, TopicIndexOK
    <2>2. \A tp \in Topics : topic_index'[tp] =
             IF tp = r.topic THEN topic_index[tp] \cup {n + 1} ELSE topic_index[tp]
      BY <1>3, <1>5 DEF BrokerInv, TypeOK
    <2>3. ASSUME NEW tp \in Topics
          PROVE  topic_index'[tp] = {i \in 1..(n + 1) : subscriptions'[i].topic = tp}
      <3> HIDE DEF n
      <3>1. \A i : i \in 1..(n + 1) <=> i \in 1..n \/ i = n + 1
        BY <1>4
      <3>2. \A i \in 1..n : subscriptions'[i].topic = tp <=> subscriptions[i].topic = tp
        BY <1>6
      <3>3. subscriptions'[n + 1].topic = r.topic
        BY <1>6
      <3>4. \A i : i \in topic_index'[tp] <=>
               (i \in 1..n /\ subscriptions[i].topic = tp) \/ (i = n + 1 /\ tp = r.topic)
        <4>1. \A i : i \in topic_index[tp] <=> i \in 1..n /\ subscriptions[i].topic = tp
          BY <2>1
        <4>2. CASE tp = r.topic
          <5>1. topic_index'[tp] = topic_index[tp] \cup {n + 1}
            BY <4>2, <2>2
          <5> QED
            BY <5>1, <4>1, <4>2
        <4>3. CASE tp # r.topic
          <5>1. topic_index'[tp] = topic_index[tp]
            BY <4>3, <2>2
          <5> QED
            BY <5>1, <4>1, <4>3
        <4> QED
          BY <4>2, <4>3
      <3> QED
        BY <3>1, <3>2, <3>3, <3>4
    <2> QED
      BY <2>3, <1>6 DEF TopicIndexOK
  <1>13. \A u \in Threads : u # t => call'[u] = call[u]
    BY <1>5 DEF BrokerInv, TypeOK
  <1>14. call'[t].op = "notify"
    BY <1>5 DEF BrokerInv, TypeOK
  <1>15. LockDiscipline'
    BY <1>1, <1>5, <1>13, <1>14 DEF BrokerInv, LockDiscipline
  <1>16. FreshIds'
    <2>1. \A u \in Threads : call'[u].op = "subscribe" =>
             /\ call'[u] = call[u]
             /\ call[u].sub.id \in SubIds
             /\ call[u].sub.id # r.id
      <3> SUFFICES ASSUME NEW u \in Threads, call'[u].op = "subscribe"
                   PROVE  /\ call'[u] = call[u]
                          /\ call[u].sub.id \in SubIds
                          /\ call[u].sub.id # r.id
        OBVIOUS
      <3>1. u # t /\ call'[u] = call[u]
        BY <1>13, <1>14
      <3>2. call[u] \in Call
        BY DEF BrokerInv, TypeOK
      <3>3. call[u].sub.id \in SubIds
        BY <3>1, <3>2 DEF Call, Idle, SubscriptionRecord
      <3>4. call[u].sub.id # r.id
        BY <3>1, <1>1 DEF BrokerInv, FreshIds, r
      <3> QED
        BY <3>1, <3>3, <3>4
    <2>2. \A d \in SubIds : subscription_id_index'[d] =
             IF d = r.id THEN n + 1 ELSE subscription_id_index[d]
      BY <1>3, <1>5 DEF BrokerInv, TypeOK
    <2> QED
      BY <2>1, <2>2, <1>5, <1>7 DEF BrokerInv, FreshIds
  <1> QED
    BY <1>9, <1>10, <1>11, <1>12, <1>15, <1>16 DEF BrokerInv, IndexConsistent

\* Taking the lock, or finding nothing to remove.
LEMMA EnterStep ==
    ASSUME BrokerInv, NEW t \in Threads, NEW s \in Sessions,
           NEW c \in Sessions \cup {NoSession}, DisconnectEnter(t, s, c),
           call[t].op # "erase"
    PROVE  BrokerInv'
PROOF
  <1>1. AfterDisconnect(c) \in Call /\ AfterDisconnect(c).op \in {"idle", "close"}
    BY DEF AfterDisconnect, Call, Idle
  <1>2. CASE session_index[s] = {}
    BY <1>1, <1>2, QuietStep DEF DisconnectEnter, BrokerInv, TypeOK, auth
  <1>3. CASE session_index[s] # {}
    <2> DEFINE e == [op |-> "erase", session |-> s, close |-> c]
    <2>1. /\ call' = [call EXCEPT ![t] = e] /\ mutex = NoThread /\ mutex' = t
          /\ UNCHANGED <<g_sub_id_counter, store, auth, terminated>>
      BY <1>3 DEF DisconnectEnter, LockFree
    <2>2. e \in Call
      BY DEF Call
    <2>3. TypeOK'
      BY <2>1, <2>2 DEF BrokerInv, TypeOK, store, auth
    <2>4. IndexConsistent'
      BY <2>1 DEF BrokerInv, IndexConsistent, IdIndexOK, SessionIndexOK, TopicIndexOK,
                  isValidIndex, store
    <2>5. call'[t] = e /\ \A u \in Threads : u # t => call'[u] = call[u]
      BY <2>1 DEF BrokerInv, TypeOK
    <2>6. \A u \in Threads : call[u].op # "erase"
      BY <2>1, BrokerAssumption DEF BrokerInv, LockDiscipline
    <2>7. LockDiscipline'
      BY <2>1, <2>5, <2>6 DEF LockDiscipline
    <2>8. \A u \in Threads : call'[u].op = "subscribe" => call'[u] = call[u]
      BY <2>5
    <2>9. FreshIds'
      BY <2>1, <2>8 DEF BrokerInv, FreshIds, store
    <2> QED
      BY <2>3, <2>4, <2>7, <2>9 DEF BrokerInv
  <1> QED
    BY <1>2, <1>3

\* Every step of every thread preserves the invariant.
LEMMA NextBrokerInv ==
    ASSUME BrokerInv, NEW t \in Threads, Begin(t) \/ Continue(t)
    PROVE  BrokerInv'
PROOF
  <1> USE BrokerAssumption
  <1>1. call[t] \in Call
    BY DEF BrokerInv, TypeOK
  <1>2. Idle \in Call /\ Idle.op = "idle"
    BY DEF Call, Idle
  <1>3. ASSUME NEW s \in Sessions, NEW tp \in Topics, SubscribeBegin(t, s, tp)
        PROVE  BrokerInv'
    <2> DEFINE d == g_sub_id_counter + 1
               c == [op |-> "subscribe", sub |-> [id |-> d, session |-> s, topic |-> tp]]
    <2>1. /\ call' = [call EXCEPT ![t] = c] /\ g_sub_id_counter' = d
          /\ call[t] = Idle
          /\ UNCHANGED <<mutex, store, auth, terminated>>
      BY <1>3 DEF SubscribeBegin
    <2>2. g_sub_id_counter \in Nat /\ d \in SubIds /\ d \in 0..MaxSubs
      BY <1>3 DEF SubscribeBegin, BrokerInv, TypeOK, SubIds
    <2>3. c \in Call
      BY <2>2 DEF Call, SubscriptionRecord
    <2>4. TypeOK'
      BY <2>1, <2>2, <2>3 DEF BrokerInv, TypeOK, store, auth
    <2>5. IndexConsistent'
      BY <2>1 DEF BrokerInv, IndexConsistent, IdIndexOK, SessionIndexOK, TopicIndexOK,
                  isValidIndex, store
    <2>6. call'[t] = c /\ \A u \in Threads : u # t => call'[u] = call[u]
      BY <2>1 DEF BrokerInv, TypeOK
    <2>7. LockDiscipline'
      BY <2>1, <2>6, <1>2 DEF BrokerInv, LockDiscipline
    <2>8. subscription_id_index[d] = 0
      BY <2>2 DEF BrokerInv, FreshIds
    <2>9. \A u \in Threads : u # t /\ call'[u].op = "subscribe" =>
             call'[u] = call[u] /\ call[u].sub.id \in SubIds /\ call[u].sub.id <= g_sub_id_counter
      <3> SUFFICES ASSUME NEW u \in Threads, u # t, call'[u].op = "subscribe"
                   PROVE  /\ call'[u] = call[u] /\ call[u].sub.id \in SubIds
                          /\ call[u].sub.id <= g_sub_id_counter
        OBVIOUS
      <3>1. call'[u] = call[u] /\ call[u] \in Call
        BY <2>6 DEF BrokerInv, TypeOK
      <3>2. call[u].sub.id \in SubIds
        BY <3>1 DEF Call, Idle, SubscriptionRecord
      <3> QED
        BY <3>1, <3>2 DEF BrokerInv, FreshIds
    <2>10. c.op = "subscribe" /\ c.sub.id = d
      OBVIOUS
    <2> HIDE DEF c
    <2>11. FreshIds'
      <3>1. ASSUME NEW u \in Threads, call'[u].op = "subscribe"
            PROVE  call'[u].sub.id <= d /\ subscription_id_index[call'[u].sub.id] = 0
        <4>1. CASE u = t
          BY <4>1, <2>2, <2>6, <2>8, <2>10
        <4>2. CASE u # t
          BY <4>2, <3>1, <2>2, <2>9 DEF BrokerInv, FreshIds, SubIds
        <4> QED
          BY <4>1, <4>2
      <3>2. ASSUME NEW u1 \in Threads, NEW u2 \in Threads, u1 # u2,
                   call'[u1].op = "subscribe", call'[u2].op = "subscribe"
            PROVE  call'[u1].sub.id # call'[u2].sub.id
        <4>1. CASE u1 = t
          BY <4>1, <3>2, <2>2, <2>6, <2>9, <2>10 DEF SubIds
        <4>2. CASE u2 = t
          BY <4>2, <3>2, <2>2, <2>6, <2>9, <2>10 DEF SubIds
        <4>3. CASE u1 # t /\ u2 # t
          BY <4>3, <3>2, <2>9 DEF BrokerInv, FreshIds
        <4> QED
          BY <4>1, <4>2, <4>3
      <3>3. \A e \in SubIds : subscription_id_index[e] # 0 => e <= d
        BY <2>2 DEF BrokerInv, FreshIds, SubIds
      <3> QED
        BY <3>1, <3>2, <3>3, <2>1 DEF FreshIds, store
    <2> QED
      BY <2>4, <2>5, <2>7, <2>11 DEF BrokerInv
  <1>4. ASSUME NEW d \in SubIds, Unsubscribe(t, d)
        PROVE  BrokerInv'
    <2> DEFINE c == [op |-> "notify", count |-> Len(subscriptions'),
                     close |-> NoSession, id |-> 0]
               index == subscription_id_index[d]
    <2>1. /\ index \in 1..Len(subscriptions) /\ eraseSubscriptionAt(index)
          /\ call' = [call EXCEPT ![t] = c] /\ call[t] = Idle
          /\ UNCHANGED <<g_sub_id_counter, mutex, auth, terminated>>
      BY <1>4 DEF Unsubscribe, isValidIndex
    <2>2. StoreType
      BY DEF BrokerInv, TypeOK, StoreType
    <2>3. Len(subscriptions') \in Nat
      BY <2>1, <2>2, EraseVector
    <2>4. c \in Call /\ c.op = "notify"
      BY <2>3 DEF Call
    <2> HIDE DEF c, index
    <2> QED
      BY <2>1, <2>4, <1>2, EraseStep
  <1>5. ASSUME NEW s \in Sessions, DisconnectSession(t, s)
        PROVE  BrokerInv'
    BY <1>2, <1>5, EnterStep DEF DisconnectSession
  <1>6. ASSUME NEW tp \in Topics, PublishCollect(t, tp)
        PROVE  BrokerInv'
    <2> DEFINE hs == {subscriptions[i] : i \in {j \in topic_index[tp] : isValidIndex(j)}}
               c == [op |-> "deliver", handlers |-> hs]
    <2>1. hs \in SUBSET SubscriptionRecord
      BY DEF BrokerInv, TypeOK, isValidIndex
    <2>2. c \in Call /\ c.op = "deliver"
      BY <2>1 DEF Call
    <2>3. call' = [call EXCEPT ![t] = c] /\ call[t] = Idle
      BY <1>6 DEF PublishCollect
    <2> HIDE DEF c
    <2> QED
      BY <1>2, <1>6, <2>2, <2>3, QuietStep DEF PublishCollect, BrokerInv, TypeOK, auth
  <1>7. ASSUME NEW a \in AuthSessions, NEW w \in Sessions, RegisterAuthSession(t, a, w)
        PROVE  BrokerInv'
    <2>1. /\ auth_sessions' \in [AuthSessions -> Sessions \cup {NoSession}]
          /\ ws_to_auth' \in [Sessions -> AuthSessions \cup {NoAuth}]
      BY <1>7 DEF RegisterAuthSession, ForgetAuth, BrokerInv, TypeOK
    <2>3. shared' \in SUBSET AuthSessions /\ rejoined' \in SUBSET Threads
      BY <1>7 DEF RegisterAuthSession, NoteRegistration, BrokerInv, TypeOK
    <2>2. call' = [call EXCEPT ![t] = Idle] /\ call[t] = Idle
      BY <1>7 DEF RegisterAuthSession, BrokerInv, TypeOK
    <2> QED
      BY <1>2, <1>7, <2>1, <2>2, <2>3, QuietStep DEF RegisterAuthSession, BrokerInv, TypeOK
  <1>8. ASSUME NEW w \in Sessions, UnregisterAuthSession(t, w)
        PROVE  BrokerInv'
    <2>1. /\ auth_sessions' \in [AuthSessions -> Sessions \cup {NoSession}]
          /\ ws_to_auth' \in [Sessions -> AuthSessions \cup {NoAuth}]
      BY <1>8 DEF UnregisterAuthSession, ForgetAuth, BrokerInv, TypeOK
    <2>2. call' = [call EXCEPT ![t] = Idle] /\ call[t] = Idle
      BY <1>8 DEF UnregisterAuthSession, BrokerInv, TypeOK
    <2> QED
      BY <1>2, <1>8, <2>1, <2>2, QuietStep DEF UnregisterAuthSession, BrokerInv, TypeOK
  <1>9. ASSUME NEW a \in AuthSessions, RevokeAuthSession(t, a)
        PROVE  BrokerInv'
    <2> DEFINE c == [op |-> "revoke", close |-> auth_sessions[a]]
    <2>1. auth_sessions[a] \in Sessions
      BY <1>9 DEF RevokeAuthSession, BrokerInv, TypeOK
    <2>2. c \in Call /\ c.op = "revoke"
      BY <2>1 DEF Call
    <2>3. /\ auth_sessions' \in [AuthSessions -> Sessions \cup {NoSession}]
          /\ ws_to_auth' \in [Sessions -> AuthSessions \cup {NoAuth}]
      BY <1>9 DEF RevokeAuthSession, BrokerInv, TypeOK
    <2>4. call' = [call EXCEPT ![t] = c] /\ call[t] = Idle
      BY <1>9 DEF RevokeAuthSession
    <2> HIDE DEF c
    <2> QED
      BY <1>2, <1>9, <2>2, <2>3, <2>4, QuietStep DEF RevokeAuthSession, BrokerInv, TypeOK
  <1>10. ASSUME SubscribeCommit(t)
         PROVE  BrokerInv'
    BY <1>10, CommitStep
  <1>11. ASSUME DisconnectErase(t)
         PROVE  BrokerInv'
    <2>1. call[t].op = "erase" /\ call[t].session \in Sessions
      BY <1>1, <1>11 DEF DisconnectErase, Call, Idle
    <2>2. \A i \in session_index[call[t].session] : i \in 1..Len(subscriptions)
      BY <2>1 DEF BrokerInv, IndexConsistent, SessionIndexOK
    <2>3. PICK index \in 1..Len(subscriptions) : eraseSubscriptionAt(index)
      BY <1>11, <2>2 DEF DisconnectErase, isValidIndex
    <2>4. call' = [call EXCEPT ![t] = call[t]]
      BY <1>11 DEF DisconnectErase, BrokerInv, TypeOK
    <2>5. UNCHANGED <<g_sub_id_counter, mutex, auth, terminated>>
      BY <1>11 DEF DisconnectErase
    <2> QED
      BY <1>1, <2>1, <2>3, <2>4, <2>5, EraseStep
  <1>12. ASSUME DisconnectLeave(t)
         PROVE  BrokerInv'
    <2> DEFINE c == [op |-> "notify", count |-> Len(subscriptions),
                     close |-> call[t].close, id |-> 0]
    <2>1. call[t].op = "erase" /\ call[t].close \in Sessions \cup {NoSession}
      BY <1>1, <1>12 DEF DisconnectLeave, Call, Idle
    <2>2. Len(subscriptions) \in Nat
      BY DEF BrokerInv, TypeOK
    <2>3. c \in Call
      BY <2>1, <2>2 DEF Call
    <2>4. /\ call' = [call EXCEPT ![t] = c] /\ mutex' = NoThread
          /\ UNCHANGED <<g_sub_id_counter, store, auth, terminated>>
      BY <1>12 DEF DisconnectLeave
    <2>5. TypeOK'
      BY <2>3, <2>4 DEF BrokerInv, TypeOK, store, auth
    <2>6. IndexConsistent'
      BY <2>4 DEF BrokerInv, IndexConsistent, IdIndexOK, SessionIndexOK, TopicIndexOK,
                  isValidIndex, store
    <2>7. call'[t].op = "notify" /\ \A u \in Threads : u # t => call'[u] = call[u]
      BY <2>4 DEF BrokerInv, TypeOK
    <2>8. mutex = t
      BY <2>1 DEF BrokerInv, LockDiscipline
    <2>9. LockDiscipline'
      BY <2>4, <2>7, <2>8 DEF BrokerInv, LockDiscipline
    <2>10. \A u \in Threads : call'[u].op = "subscribe" => call'[u] = call[u]
      BY <2>7
    <2>11. FreshIds'
      BY <2>4, <2>10 DEF BrokerInv, FreshIds, store
    <2> QED
      BY <2>5, <2>6, <2>9, <2>11 DEF BrokerInv
  <1>13. ASSUME NotifyCount(t)
         PROVE  BrokerInv'
    <2>1. call[t].close \in Sessions \cup {NoSession} /\ call[t].count \in Nat
      BY <1>1, <1>13 DEF NotifyCount, Call, Idle
    <2>2. AfterDisconnect(call[t].close) \in Call
          /\ AfterDisconnect(call[t].close).op \in {"idle", "close"}
      BY <2>1 DEF AfterDisconnect, Call, Idle
    <2> QED
      BY <1>13, <2>1, <2>2, QuietStep DEF NotifyCount, BrokerInv, TypeOK, auth
  <1>14. ASSUME PublishDeliver(t)
         PROVE  BrokerInv'
    <2>1. PICK h \in call[t].handlers : call' = [call EXCEPT ![t].handlers = @ \ {h}]
      BY <1>14 DEF PublishDeliver
    <2> DEFINE c == [op |-> "deliver", handlers |-> call[t].handlers \ {h}]
    <2>2. call[t].op = "deliver"
      BY <1>14 DEF PublishDeliver
    <2>3. call[t] \in [op : {"deliver"}, handlers : SUBSET SubscriptionRecord]
      BY <1>1, <2>2 DEF Call, Idle
    <2>4. [call[t] EXCEPT !.handlers = @ \ {h}] = c
      BY <2>3
    <2>5. call' = [call EXCEPT ![t] = c]
      BY <2>1, <2>4
    <2>6. c \in Call /\ c.op = "deliver"
      BY <2>3 DEF Call
    <2> HIDE DEF c
    <2> QED
      BY <1>14, <2>2, <2>5, <2>6, QuietStep DEF PublishDeliver, BrokerInv, TypeOK, auth
  <1>15. ASSUME PublishReturn(t)
         PROVE  BrokerInv'
    BY <1>2, <1>15, QuietStep DEF PublishReturn, BrokerInv, TypeOK, auth
  <1>16. ASSUME RevokeDisconnect(t)
         PROVE  BrokerInv'
    <2>1. call[t].op = "revoke" /\ call[t].close \in Sessions
      BY <1>1, <1>16 DEF RevokeDisconnect, Call, Idle
    <2> QED
      BY <1>16, <2>1, EnterStep DEF RevokeDisconnect
  <1>17. ASSUME RevokeClose(t)
         PROVE  BrokerInv'
    <2>1. call[t].op = "close" /\ call[t].close \in Sessions
      BY <1>1, <1>17 DEF RevokeClose, Call, Idle
    <2> QED
      BY <1>2, <1>17, <2>1, QuietStep DEF RevokeClose, BrokerInv, TypeOK, auth
  <1>18. ASSUME NotifyThrows(t)
         PROVE  BrokerInv'
    <2> DEFINE c == [op |-> "thrown", close |-> call[t].close]
    <2>1. call[t].close \in Sessions \cup {NoSession} /\ call[t].op = "notify"
      BY <1>1, <1>18 DEF NotifyThrows, Call, Idle
    <2>2. c \in Call /\ c.op = "thrown"
      BY <2>1 DEF Call
    <2>3. call' = [call EXCEPT ![t] = c] /\ rejoined' \in SUBSET Threads
      BY <1>18 DEF NotifyThrows, BrokerInv, TypeOK
    <2> HIDE DEF c
    <2> QED
      BY <1>18, <2>1, <2>2, <2>3, QuietStep DEF NotifyThrows, BrokerInv, TypeOK
  <1>19. ASSUME ThrowSwallowed(t)
         PROVE  BrokerInv'
    BY <1>2, <1>19, QuietStep DEF ThrowSwallowed, BrokerInv, TypeOK, auth
  <1> QED
    BY <1>3, <1>4, <1>5, <1>6, <1>7, <1>8, <1>9, <1>10, <1>11, <1>12, <1>13, <1>14,
       <1>15, <1>16, <1>17, <1>18, <1>19 DEF Begin, Continue

\* In every behaviour of the broker its state is well-typed, its three indices agree
\* with its vector, the lock is where the loop is, and pending ids are fresh.
THEOREM BrokerInvariant == Spec => []BrokerInv
PROOF
  <1>1. Init => BrokerInv
    BY InitBrokerInv
  <1>2. BrokerInv /\ [Next]_vars => BrokerInv'
    <2> SUFFICES ASSUME BrokerInv, [Next]_vars PROVE BrokerInv'
      OBVIOUS
    <2>1. CASE Next
      BY <2>1, NextBrokerInv DEF Next
    <2>2. CASE UNCHANGED vars
      BY <2>2 DEF vars, store, auth, BrokerInv, TypeOK, IndexConsistent, IdIndexOK,
                  SessionIndexOK, TopicIndexOK, isValidIndex, LockDiscipline, FreshIds
    <2> QED
      BY <2>1, <2>2
  <1> QED
    BY <1>1, <1>2, PTL DEF Spec

\* Type correctness, for every instance.
THEOREM TypeCorrect == Spec => []TypeOK
PROOF
  <1>1. BrokerInv => TypeOK
    BY DEF BrokerInv
  <1> QED
    BY <1>1, BrokerInvariant, PTL

\* Index consistency, for every instance: no interleaving of subscribe, unsubscribe,
\* disconnect_session and revoke_auth_session corrupts an index.
THEOREM IndexCorrect == Spec => []IndexConsistent
PROOF
  <1>1. BrokerInv => IndexConsistent
    BY DEF BrokerInv
  <1> QED
    BY <1>1, BrokerInvariant, PTL

-----------------------------------------------------------------------------
(* The auth-session table                                                  *)

\* The table part of the property: each method erases the entry it replaces, and while
\* an auth session has one socket its two entries name each other.
TableOK == EntryIsItsOwn /\ SoleSocketIsFound

\* A step that leaves the table alone, and the sockets a thread has to close too, or
\* has one less of them, forgets no registration.
LEMMA TableKept ==
    ASSUME BrokerInv, RevocationHitsItsOwner, NEW t \in Threads, NEW c,
           call' = [call EXCEPT ![t] = c],
           c.op \in {"revoke", "erase", "notify", "close"} => c.close \in {ToClose(t), NoSession},
           UNCHANGED <<auth_sessions, ws_to_auth, shared>>, rejoined \ {t} \subseteq rejoined',
           c.op \in {"revoke", "erase", "notify", "close"} => rejoined \subseteq rejoined'
    PROVE  RevocationHitsItsOwner'
PROOF
  <1>1. TableOK'
    BY DEF RevocationHitsItsOwner, TableOK, EntryIsItsOwn, SoleSocketIsFound
  <1>2. call'[t] = c /\ \A u \in Threads : u # t => call'[u] = call[u]
    BY DEF BrokerInv, TypeOK
  <1>3. ASSUME NEW u \in Threads, ToClose(u)' # NoSession, u \notin rejoined'
        PROVE  ws_to_auth'[ToClose(u)'] = NoAuth
    <2>1. CASE u = t
      <3>1. c.op \in {"revoke", "erase", "notify", "close"} /\ ToClose(u)' = c.close
        BY <1>2, <1>3, <2>1 DEF ToClose
      <3>2. ToClose(t) = ToClose(u)' /\ t \notin rejoined
        BY <3>1, <1>3, <2>1
      <3> QED
        BY <3>2, <1>3 DEF RevocationHitsItsOwner, DoomedIsForgotten
    <2>2. CASE u # t
      <3>1. ToClose(u)' = ToClose(u) /\ u \notin rejoined
        BY <1>2, <1>3, <2>2 DEF ToClose
      <3> QED
        BY <3>1, <1>3 DEF RevocationHitsItsOwner, DoomedIsForgotten
    <2> QED
      BY <2>1, <2>2
  <1> QED
    BY <1>1, <1>3 DEF RevocationHitsItsOwner, TableOK, DoomedIsForgotten

\* Registration: the socket leaves its former entry, whichever socket that entry was
\* of, which is its own unless the auth session had two.
LEMMA RegisterKeeps ==
    ASSUME BrokerInv, RevocationHitsItsOwner, NEW t \in Threads, NEW a \in AuthSessions,
           NEW w \in Sessions, RegisterAuthSession(t, a, w)
    PROVE  RevocationHitsItsOwner'
PROOF
  <1> USE BrokerAssumption
  <1>1. /\ auth_sessions \in [AuthSessions -> Sessions \cup {NoSession}]
        /\ ws_to_auth \in [Sessions -> AuthSessions \cup {NoAuth}]
    BY DEF BrokerInv, TypeOK
  <1>2. /\ auth_sessions' = [ForgetAuth(w) EXCEPT ![a] = w]
        /\ ws_to_auth' = [ws_to_auth EXCEPT ![w] = a]
        /\ NoteRegistration(a, w) /\ call' = call
    BY DEF RegisterAuthSession
  <1>3. \A b \in AuthSessions : auth_sessions'[b] =
           IF b = a THEN w ELSE IF b = ws_to_auth[w] THEN NoSession ELSE auth_sessions[b]
    BY <1>1, <1>2 DEF ForgetAuth
  <1>4. \A v \in Sessions : ws_to_auth'[v] = IF v = w THEN a ELSE ws_to_auth[v]
    BY <1>1, <1>2
  <1>5. EntryIsItsOwn'
    BY <1>1, <1>3, <1>4 DEF EntryIsItsOwn, RevocationHitsItsOwner
  <1>6. SoleSocketIsFound'
    <2> SUFFICES ASSUME NEW v \in Sessions, ws_to_auth'[v] \in AuthSessions \ shared'
                 PROVE  auth_sessions'[ws_to_auth'[v]] = v
      BY DEF SoleSocketIsFound
    <2>1. CASE v = w
      BY <2>1, <1>3, <1>4
    <2>2. CASE v # w
      <3>1. ws_to_auth'[v] = ws_to_auth[v] /\ ws_to_auth[v] # a
        BY <2>2, <1>2, <1>4 DEF NoteRegistration
      <3>2. ws_to_auth[v] \in AuthSessions \ shared
        BY <3>1, <1>2 DEF NoteRegistration
      <3>3. auth_sessions[ws_to_auth[v]] = v
        BY <3>2 DEF RevocationHitsItsOwner, SoleSocketIsFound
      <3>4. ws_to_auth[v] # ws_to_auth[w]
        BY <3>2, <3>3, <2>2 DEF RevocationHitsItsOwner, SoleSocketIsFound
      <3> QED
        BY <3>1, <3>2, <3>3, <3>4, <1>3
    <2> QED
      BY <2>1, <2>2
  <1>7. DoomedIsForgotten'
    <2> SUFFICES ASSUME NEW u \in Threads, ToClose(u)' # NoSession, u \notin rejoined'
                 PROVE  ws_to_auth'[ToClose(u)'] = NoAuth
      BY DEF DoomedIsForgotten
    <2>1. ToClose(u)' = ToClose(u) /\ ToClose(u) # w /\ u \notin rejoined
      BY <1>2 DEF ToClose, NoteRegistration
    <2>2. ws_to_auth[ToClose(u)] = NoAuth
      BY <2>1 DEF RevocationHitsItsOwner, DoomedIsForgotten
    <2> QED
      BY <2>1, <2>2, <1>2
  <1> QED
    BY <1>5, <1>6, <1>7 DEF RevocationHitsItsOwner

\* A socket that goes away takes only its own entry along, unless the auth session
\* had two.
LEMMA UnregisterKeeps ==
    ASSUME BrokerInv, RevocationHitsItsOwner, NEW t \in Threads, NEW w \in Sessions,
           UnregisterAuthSession(t, w)
    PROVE  RevocationHitsItsOwner'
PROOF
  <1> USE BrokerAssumption
  <1>1. /\ auth_sessions \in [AuthSessions -> Sessions \cup {NoSession}]
        /\ ws_to_auth \in [Sessions -> AuthSessions \cup {NoAuth}]
    BY DEF BrokerInv, TypeOK
  <1>2. /\ auth_sessions' = ForgetAuth(w)
        /\ ws_to_auth' = [ws_to_auth EXCEPT ![w] = NoAuth]
        /\ UNCHANGED <<shared, rejoined, call>>
    BY DEF UnregisterAuthSession
  <1>3. \A b \in AuthSessions : auth_sessions'[b] =
           IF b = ws_to_auth[w] THEN NoSession ELSE auth_sessions[b]
    BY <1>1, <1>2 DEF ForgetAuth
  <1>4. \A v \in Sessions : ws_to_auth'[v] = IF v = w THEN NoAuth ELSE ws_to_auth[v]
    BY <1>1, <1>2
  <1>5. EntryIsItsOwn'
    BY <1>1, <1>3, <1>4 DEF EntryIsItsOwn, RevocationHitsItsOwner
  <1>6. SoleSocketIsFound'
    <2> SUFFICES ASSUME NEW v \in Sessions, ws_to_auth'[v] \in AuthSessions \ shared'
                 PROVE  auth_sessions'[ws_to_auth'[v]] = v
      BY DEF SoleSocketIsFound
    <2>1. v # w /\ ws_to_auth'[v] = ws_to_auth[v] /\ ws_to_auth[v] \in AuthSessions \ shared
      BY <1>2, <1>4
    <2>2. auth_sessions[ws_to_auth[v]] = v
      BY <2>1 DEF RevocationHitsItsOwner, SoleSocketIsFound
    <2>3. ws_to_auth[v] # ws_to_auth[w]
      BY <2>1, <2>2 DEF RevocationHitsItsOwner, SoleSocketIsFound
    <2> QED
      BY <2>1, <2>2, <2>3, <1>3
  <1>7. DoomedIsForgotten'
    BY <1>1, <1>2 DEF RevocationHitsItsOwner, DoomedIsForgotten, ToClose
  <1> QED
    BY <1>5, <1>6, <1>7 DEF RevocationHitsItsOwner

\* The take-out erases both entries of its socket and no other's.
LEMMA RevokeKeeps ==
    ASSUME BrokerInv, RevocationHitsItsOwner, NEW t \in Threads, NEW a \in AuthSessions,
           RevokeAuthSession(t, a)
    PROVE  RevocationHitsItsOwner'
PROOF
  <1> USE BrokerAssumption
  <1> DEFINE w == auth_sessions[a]
             c == [op |-> "revoke", close |-> w]
  <1>1. /\ auth_sessions \in [AuthSessions -> Sessions \cup {NoSession}]
        /\ ws_to_auth \in [Sessions -> AuthSessions \cup {NoAuth}]
    BY DEF BrokerInv, TypeOK
  <1>2. /\ auth_sessions' = [auth_sessions EXCEPT ![a] = NoSession]
        /\ ws_to_auth' = [ws_to_auth EXCEPT ![w] = NoAuth]
        /\ call' = [call EXCEPT ![t] = c]
        /\ UNCHANGED <<shared, rejoined>>
    BY DEF RevokeAuthSession
  <1>3. w \in Sessions /\ ws_to_auth[w] = a
    BY <1>1 DEF RevokeAuthSession, RevocationHitsItsOwner, EntryIsItsOwn
  <1>4. call'[t] = c /\ \A u \in Threads : u # t => call'[u] = call[u]
    BY <1>2 DEF BrokerInv, TypeOK
  <1>5. c.op = "revoke" /\ c.close = w
    OBVIOUS
  <1> HIDE DEF c
  <1>6. EntryIsItsOwn'
    BY <1>1, <1>2, <1>3 DEF EntryIsItsOwn, RevocationHitsItsOwner
  <1>7. SoleSocketIsFound'
    <2> SUFFICES ASSUME NEW v \in Sessions, ws_to_auth'[v] \in AuthSessions \ shared'
                 PROVE  auth_sessions'[ws_to_auth'[v]] = v
      BY DEF SoleSocketIsFound
    <2>1. v # w /\ ws_to_auth'[v] = ws_to_auth[v] /\ ws_to_auth[v] \in AuthSessions \ shared
      BY <1>1, <1>2, <1>3
    <2>2. auth_sessions[ws_to_auth[v]] = v
      BY <2>1 DEF RevocationHitsItsOwner, SoleSocketIsFound
    <2> QED
      BY <2>1, <2>2, <1>1, <1>2
  <1>8. DoomedIsForgotten'
    <2> SUFFICES ASSUME NEW u \in Threads, ToClose(u)' # NoSession, u \notin rejoined'
                 PROVE  ws_to_auth'[ToClose(u)'] = NoAuth
      BY DEF DoomedIsForgotten
    <2>1. CASE u = t
      <3>1. ToClose(u)' = w
        BY <2>1, <1>4, <1>5 DEF ToClose
      <3> QED
        BY <3>1, <1>1, <1>2, <1>3
    <2>2. CASE u # t
      <3>1. ToClose(u)' = ToClose(u) /\ u \notin rejoined
        BY <2>2, <1>2, <1>4 DEF ToClose
      <3>2. ws_to_auth[ToClose(u)] = NoAuth
        BY <3>1 DEF RevocationHitsItsOwner, DoomedIsForgotten
      <3> QED
        BY <3>1, <3>2, <1>1, <1>2
    <2> QED
      BY <2>1, <2>2
  <1> QED
    BY <1>6, <1>7, <1>8 DEF RevocationHitsItsOwner

\* The other steps take up no socket that was not theirs to close already.
LEMMA OthersKeep ==
    ASSUME BrokerInv, RevocationHitsItsOwner, NEW t \in Threads,
           \/ \E s \in Sessions, tp \in Topics : SubscribeBegin(t, s, tp)
           \/ \E d \in SubIds : Unsubscribe(t, d)
           \/ \E s \in Sessions : DisconnectSession(t, s)
           \/ \E tp \in Topics : PublishCollect(t, tp)
           \/ Continue(t)
    PROVE  RevocationHitsItsOwner'
PROOF
  <1> USE DEF auth
  <1>1. call[t] \in Call /\ call = [call EXCEPT ![t] = call[t]]
    BY DEF BrokerInv, TypeOK
  <1>2. ASSUME NEW s \in Sessions, NEW c \in Sessions \cup {NoSession},
               DisconnectEnter(t, s, c), c \in {ToClose(t), NoSession}
        PROVE  RevocationHitsItsOwner'
    <2>1. CASE session_index[s] = {}
      <3> DEFINE e == AfterDisconnect(c)
      <3>1. /\ call' = [call EXCEPT ![t] = e]
            /\ UNCHANGED <<auth_sessions, ws_to_auth, shared, rejoined>>
            /\ e.op \in {"revoke", "erase", "notify", "close"} => e.close \in {ToClose(t), NoSession}
        BY <1>2, <2>1 DEF DisconnectEnter, AfterDisconnect, Idle
      <3> HIDE DEF e
      <3> QED
        BY <3>1, TableKept
    <2>2. CASE session_index[s] # {}
      <3> DEFINE e == [op |-> "erase", session |-> s, close |-> c]
      <3>1. /\ call' = [call EXCEPT ![t] = e]
            /\ UNCHANGED <<auth_sessions, ws_to_auth, shared, rejoined>>
            /\ e.close \in {ToClose(t), NoSession}
        BY <1>2, <2>2 DEF DisconnectEnter
      <3> HIDE DEF e
      <3> QED
        BY <3>1, TableKept
    <2> QED
      BY <2>1, <2>2
  <1>3. ASSUME NEW c, call' = [call EXCEPT ![t] = c],
               c.op \in {"revoke", "erase", "notify", "close"} => c.close \in {ToClose(t), NoSession},
               UNCHANGED <<auth_sessions, ws_to_auth, shared, rejoined>>
        PROVE  RevocationHitsItsOwner'
    BY <1>3, TableKept
  <1>4. ASSUME NEW s \in Sessions, NEW tp \in Topics, SubscribeBegin(t, s, tp)
        PROVE  RevocationHitsItsOwner'
    BY <1>3, <1>4 DEF SubscribeBegin
  <1>5. ASSUME NEW d \in SubIds, Unsubscribe(t, d)
        PROVE  RevocationHitsItsOwner'
    BY <1>3, <1>5 DEF Unsubscribe
  <1>6. ASSUME NEW s \in Sessions, DisconnectSession(t, s)
        PROVE  RevocationHitsItsOwner'
    BY <1>2, <1>6 DEF DisconnectSession
  <1>7. ASSUME NEW tp \in Topics, PublishCollect(t, tp)
        PROVE  RevocationHitsItsOwner'
    BY <1>3, <1>7 DEF PublishCollect
  <1>8. CASE SubscribeCommit(t)
    BY <1>3, <1>8 DEF SubscribeCommit
  <1>9. CASE DisconnectErase(t)
    <2>1. call[t].close = ToClose(t)
      BY <1>9 DEF DisconnectErase, ToClose
    <2> QED
      BY <1>1, <1>3, <1>9, <2>1 DEF DisconnectErase
  <1>10. CASE DisconnectLeave(t)
    BY <1>3, <1>10 DEF DisconnectLeave, ToClose
  <1>11. CASE NotifyCount(t)
    <2> DEFINE e == AfterDisconnect(call[t].close)
    <2>1. call' = [call EXCEPT ![t] = e] /\ UNCHANGED <<auth_sessions, ws_to_auth, shared, rejoined>>
      BY <1>11 DEF NotifyCount
    <2>2. e.op \in {"revoke", "erase", "notify", "close"} => e.close \in {ToClose(t), NoSession}
      BY <1>11 DEF NotifyCount, AfterDisconnect, ToClose, Idle
    <2> HIDE DEF e
    <2> QED
      BY <2>1, <2>2, <1>3
  <1>12. CASE NotifyThrows(t)
    <2> DEFINE e == [op |-> "thrown", close |-> call[t].close]
    <2>1. /\ call' = [call EXCEPT ![t] = e] /\ e.op = "thrown"
          /\ UNCHANGED <<auth_sessions, ws_to_auth, shared>> /\ rejoined' = rejoined \ {t}
      BY <1>12 DEF NotifyThrows
    <2> HIDE DEF e
    <2> QED
      BY <2>1, TableKept
  <1>13. CASE ThrowSwallowed(t)
    BY <1>3, <1>13 DEF ThrowSwallowed, Idle
  <1>14. CASE PublishDeliver(t)
    <2>1. PICK h \in call[t].handlers : call' = [call EXCEPT ![t].handlers = @ \ {h}]
      BY <1>14 DEF PublishDeliver
    <2>2. call[t] \in [op : {"deliver"}, handlers : SUBSET SubscriptionRecord]
      BY <1>1, <1>14 DEF PublishDeliver, Call, Idle
    <2> DEFINE e == [op |-> "deliver", handlers |-> call[t].handlers \ {h}]
    <2>3. [call[t] EXCEPT !.handlers = @ \ {h}] = e
      BY <2>2
    <2>4. call' = [call EXCEPT ![t] = e] /\ e.op = "deliver"
      BY <2>1, <2>3
    <2> HIDE DEF e
    <2> QED
      BY <2>4, <1>3, <1>14 DEF PublishDeliver
  <1>15. CASE PublishReturn(t)
    BY <1>3, <1>15 DEF PublishReturn, Idle
  <1>16. CASE RevokeDisconnect(t)
    <2>1. call[t].close \in Sessions /\ call[t].close = ToClose(t)
      BY <1>1, <1>16 DEF RevokeDisconnect, Call, Idle, ToClose
    <2> QED
      BY <1>2, <1>16, <2>1 DEF RevokeDisconnect
  <1>17. CASE RevokeClose(t)
    <2>1. /\ call' = [call EXCEPT ![t] = Idle] /\ Idle.op = "idle"
          /\ UNCHANGED <<auth_sessions, ws_to_auth, shared>> /\ rejoined' = rejoined \ {t}
      BY <1>17 DEF RevokeClose, Idle
    <2> QED
      BY <2>1, TableKept
  <1> QED
    BY <1>4, <1>5, <1>6, <1>7, <1>8, <1>9, <1>10, <1>11, <1>12, <1>13, <1>14, <1>15,
       <1>16, <1>17 DEF Continue

\* For every instance, revoke_auth_session takes out a socket registered for what it
\* revokes and for nothing else, finds it as long as no other socket was registered for
\* the same auth session, and closes it registered for something only if it registered
\* again in between.
THEOREM RevocationOwner == Spec => []RevocationHitsItsOwner
PROOF
  <1>1. Init => RevocationHitsItsOwner
    BY BrokerAssumption DEF Init, RevocationHitsItsOwner, EntryIsItsOwn, SoleSocketIsFound,
                            DoomedIsForgotten, ToClose, Idle
  <1>2. BrokerInv /\ RevocationHitsItsOwner /\ [Next]_vars => RevocationHitsItsOwner'
    <2> SUFFICES ASSUME BrokerInv, RevocationHitsItsOwner, [Next]_vars
                 PROVE  RevocationHitsItsOwner'
      OBVIOUS
    <2>1. CASE Next
      BY <2>1, RegisterKeeps, UnregisterKeeps, RevokeKeeps, OthersKeep DEF Next, Begin
    <2>2. CASE UNCHANGED vars
      BY <2>2 DEF vars, auth, RevocationHitsItsOwner, EntryIsItsOwn, SoleSocketIsFound,
                  DoomedIsForgotten, ToClose
    <2> QED
      BY <2>1, <2>2
  <1> QED
    BY <1>1, <1>2, BrokerInvariant, PTL DEF Spec

-----------------------------------------------------------------------------
(* The broker implements the registry                                      *)

\* The records of the vector, in no order.
Records == {subscriptions[i] : i \in 1..Len(subscriptions)}

\* The subscriptions in force are the records of sessions that no loop is removing.
LEMMA LiveRecords == LiveSubs = {r \in Records : r.session \notin Vanishing}
PROOF
  BY DEF LiveSubs, Records

\* With the lock free no session is being removed.
LEMMA NothingVanishing ==
    ASSUME BrokerInv, LockFree
    PROVE  Vanishing = {}
PROOF
  BY BrokerAssumption DEF BrokerInv, LockDiscipline, LockFree, Vanishing

\* The thread in the loop is the only one.
LEMMA OneVanishing ==
    ASSUME BrokerInv, NEW t \in Threads, call[t].op = "erase"
    PROVE  Vanishing = {call[t].session}
PROOF
  <1>1. \A u \in Threads : call[u].op = "erase" => u = t
    BY DEF BrokerInv, LockDiscipline
  <1> QED
    BY <1>1 DEF Vanishing

\* The removal takes out one record: its own, found by its id, and no other.
LEMMA EraseRecords ==
    ASSUME BrokerInv, NEW index \in 1..Len(subscriptions), eraseSubscriptionAt(index)
    PROVE  Records' = {r \in Records : r.id # subscriptions[index].id}
PROOF
  <1> DEFINE n == Len(subscriptions)
  <1>1. StoreType /\ n \in Nat /\ index \in Nat
    BY DEF BrokerInv, TypeOK, StoreType
  <1>2. \A i, j \in 1..n : subscriptions[i].id = subscriptions[j].id => i = j
    BY DEF BrokerInv, IndexConsistent, IdIndexOK
  <1>3. /\ Len(subscriptions') = n - 1
        /\ \A k \in 1..(n - 1) :
             subscriptions'[k] = IF k = index THEN subscriptions[n] ELSE subscriptions[k]
    BY <1>1, EraseVector
  <1>4. ASSUME NEW r \in Records'
        PROVE  r \in Records /\ r.id # subscriptions[index].id
    <2>1. PICK k \in 1..(n - 1) : r = subscriptions'[k]
      BY <1>3, <1>4 DEF Records
    <2>2. CASE k = index
      <3>1. r = subscriptions[n] /\ n \in 1..n /\ n # index
        BY <2>1, <2>2, <1>1, <1>3
      <3>2. r.id # subscriptions[index].id
        BY <3>1, <1>2
      <3> QED
        BY <3>1, <3>2 DEF Records
    <2>3. CASE k # index
      <3>1. r = subscriptions[k] /\ k \in 1..n
        BY <2>1, <2>3, <1>1, <1>3
      <3>2. r.id # subscriptions[index].id
        BY <3>1, <2>3, <1>2
      <3> QED
        BY <3>1, <3>2 DEF Records
    <2> QED
      BY <2>2, <2>3
  <1>5. ASSUME NEW r \in Records, r.id # subscriptions[index].id
        PROVE  r \in Records'
    <2>1. PICK k \in 1..n : r = subscriptions[k]
      BY <1>5 DEF Records
    <2>2. k # index
      BY <2>1, <1>5
    <2>3. CASE k = n
      <3>1. index \in 1..(n - 1) /\ subscriptions'[index] = r
        BY <2>1, <2>2, <2>3, <1>1, <1>3
      <3> QED
        BY <3>1, <1>3 DEF Records
    <2>4. CASE k # n
      <3>1. k \in 1..(n - 1) /\ subscriptions'[k] = r
        BY <2>1, <2>2, <2>4, <1>1, <1>3
      <3> QED
        BY <3>1, <1>3 DEF Records
    <2> QED
      BY <2>3, <2>4
  <1> QED
    BY <1>4, <1>5

\* A step of a thread outside the loop removes no session from sight.
LEMMA VanishingStep ==
    ASSUME BrokerInv, NEW t \in Threads, NEW c, call' = [call EXCEPT ![t] = c],
           call[t].op # "erase", c.op # "erase"
    PROVE  Vanishing' = Vanishing
PROOF
  <1>1. call'[t] = c /\ \A u \in Threads : u # t => call'[u] = call[u]
    BY DEF BrokerInv, TypeOK
  <1>2. \A u \in Threads : call'[u].op = "erase" <=> call[u].op = "erase"
    BY <1>1
  <1>3. \A u \in Threads : call[u].op = "erase" => call'[u] = call[u]
    BY <1>1
  <1> QED
    BY <1>2, <1>3 DEF Vanishing

\* Ids become known to the registry only where subscribe commits.
LEMMA IssuedStep ==
    ASSUME BrokerInv, NEW t \in Threads, NEW c, call' = [call EXCEPT ![t] = c],
           call[t].op # "subscribe", c.op # "subscribe", UNCHANGED g_sub_id_counter
    PROVE  IssuedIds' = IssuedIds
PROOF
  <1>1. call'[t] = c /\ \A u \in Threads : u # t => call'[u] = call[u]
    BY DEF BrokerInv, TypeOK
  <1>2. \A u \in Threads : call'[u].op = "subscribe" <=> call[u].op = "subscribe"
    BY <1>1
  <1>3. \A u \in Threads : call[u].op = "subscribe" => call'[u] = call[u]
    BY <1>1
  <1> QED
    BY <1>2, <1>3 DEF IssuedIds

\* The handlers a thread has yet to call are those of its own publish.
LEMMA CallingStep ==
    ASSUME BrokerInv, NEW t \in Threads, NEW c, call' = [call EXCEPT ![t] = c]
    PROVE  /\ Calling[t] = IF call[t].op = "deliver" THEN call[t].handlers ELSE {}
           /\ c.op = "deliver" => Calling' = [Calling EXCEPT ![t] = c.handlers]
           /\ c.op # "deliver" /\ Calling[t] = {} => Calling' = Calling
PROOF
  <1>1. call'[t] = c /\ \A u \in Threads : u # t => call'[u] = call[u]
    BY DEF BrokerInv, TypeOK
  <1>2. Calling[t] = IF call[t].op = "deliver" THEN call[t].handlers ELSE {}
    BY DEF Calling
  <1>3. /\ Calling = [u \in Threads |-> Calling[u]]
        /\ Calling' = [u \in Threads |-> Calling'[u]]
        /\ DOMAIN Calling = Threads
    BY DEF Calling
  <1>4. \A u \in Threads : u # t => Calling'[u] = Calling[u]
    BY <1>1 DEF Calling
  <1>5. ASSUME c.op = "deliver"
        PROVE  Calling' = [Calling EXCEPT ![t] = c.handlers]
    <2>1. Calling'[t] = c.handlers
      BY <1>1, <1>5 DEF Calling
    <2>2. [Calling EXCEPT ![t] = c.handlers]
            = [u \in Threads |-> IF u = t THEN c.handlers ELSE Calling[u]]
      BY <1>3
    <2>3. Calling' = [u \in Threads |-> IF u = t THEN c.handlers ELSE Calling[u]]
      BY <2>1, <1>3, <1>4
    <2> QED
      BY <2>2, <2>3
  <1>6. ASSUME c.op # "deliver", Calling[t] = {}
        PROVE  Calling' = Calling
    <2>1. Calling'[t] = {}
      BY <1>1, <1>6 DEF Calling
    <2>2. \A u \in Threads : Calling'[u] = Calling[u]
      BY <2>1, <1>4, <1>6
    <2> QED
      BY <2>2, <1>3
  <1> QED
    BY <1>2, <1>5, <1>6

\* A step that keeps the store, hands out no id and delivers nothing is invisible.
LEMMA InvisibleStep ==
    ASSUME BrokerInv, NEW t \in Threads, NEW c, call' = [call EXCEPT ![t] = c],
           call[t].op \notin {"erase", "subscribe", "deliver"},
           c.op \notin {"erase", "subscribe", "deliver"},
           UNCHANGED <<g_sub_id_counter, store>>
    PROVE  UNCHANGED <<LiveSubs, IssuedIds, Calling>>
PROOF
  <1>1. Vanishing' = Vanishing
    BY VanishingStep
  <1>2. Records' = Records
    BY DEF Records, store
  <1>3. LiveSubs' = LiveSubs
    BY <1>1, <1>2, LiveRecords DEF LiveSubs, store
  <1>4. IssuedIds' = IssuedIds
    BY IssuedStep
  <1>5. Calling' = Calling
    BY CallingStep
  <1> QED
    BY <1>3, <1>4, <1>5

RegistryStep == Registry!Next \/ UNCHANGED <<LiveSubs, IssuedIds, Calling>>

\* subscribe takes effect where the record is appended: its id was never in force.
LEMMA CommitImplements ==
    ASSUME BrokerInv, NEW t \in Threads, SubscribeCommit(t)
    PROVE  \E d \in SubIds, s \in Sessions, tp \in Topics : Registry!Subscribe(d, s, tp)
PROOF
  <1> DEFINE r == call[t].sub
             n == Len(subscriptions)
             c == [op |-> "notify", count |-> n + 1, close |-> NoSession, id |-> r.id]
  <1>1. call[t] \in Call /\ call[t].op = "subscribe" /\ LockFree
    BY DEF BrokerInv, TypeOK, SubscribeCommit
  <1>2. r \in SubscriptionRecord
    BY <1>1 DEF Call, Idle
  <1>3. /\ r.id \in SubIds /\ r.session \in Sessions /\ r.topic \in Topics
        /\ r = [id |-> r.id, session |-> r.session, topic |-> r.topic]
    BY <1>2 DEF SubscriptionRecord
  <1>4. n \in Nat /\ subscriptions \in Seq(SubscriptionRecord)
    BY DEF BrokerInv, TypeOK
  <1>5. /\ subscriptions' = Append(subscriptions, r)
        /\ call' = [call EXCEPT ![t] = c]
        /\ g_sub_id_counter' = g_sub_id_counter
    BY DEF SubscribeCommit
  <1>6. c.op = "notify"
    OBVIOUS
  <1> HIDE DEF r, c
  <1>7. /\ Len(subscriptions') = n + 1
        /\ subscriptions'[n + 1] = r
        /\ \A k \in 1..n : subscriptions'[k] = subscriptions[k]
    BY <1>2, <1>4, <1>5
  <1>8. Records' = Records \cup {r}
    <2>1. \A k : k \in 1..(n + 1) <=> k \in 1..n \/ k = n + 1
      BY <1>4
    <2> QED
      BY <2>1, <1>7 DEF Records
  <1>9. Vanishing = {} /\ Vanishing' = {}
    BY <1>1, <1>5, <1>6, NothingVanishing, VanishingStep
  <1>10. LiveSubs = Records
    BY <1>9, LiveRecords
  <1>11. LiveSubs' = Records'
    BY <1>9 DEF LiveSubs, Records
  <1>12. call'[t] = c /\ \A u \in Threads : u # t => call'[u] = call[u]
    BY <1>5 DEF BrokerInv, TypeOK
  <1>13. r.id \notin IssuedIds
    BY <1>1 DEF IssuedIds, r
  <1>14. IssuedIds' = IssuedIds \cup {r.id}
    <2>1. r.id <= g_sub_id_counter
      BY <1>1 DEF BrokerInv, FreshIds, r
    <2>2. \A u \in Threads : u # t /\ call[u].op = "subscribe" => call[u].sub.id # r.id
      BY <1>1 DEF BrokerInv, FreshIds, r
    <2>3. ASSUME NEW d \in SubIds
          PROVE  (\A u \in Threads : call'[u].op = "subscribe" => call'[u].sub.id # d) <=>
                 (\A u \in Threads : call[u].op = "subscribe" => call[u].sub.id # d) \/ d = r.id
      <3>1. (\A u \in Threads : call'[u].op = "subscribe" => call'[u].sub.id # d) <=>
            (\A u \in Threads : u # t /\ call[u].op = "subscribe" => call[u].sub.id # d)
        BY <1>6, <1>12
      <3>2. CASE d = r.id
        BY <3>1, <3>2, <2>2
      <3>3. CASE d # r.id
        BY <3>1, <3>3, <1>1 DEF r
      <3> QED
        BY <3>2, <3>3
    <2> QED
      BY <2>1, <2>3, <1>3, <1>5 DEF IssuedIds
  <1>15. Calling' = Calling
    BY <1>1, <1>5, <1>6, CallingStep
  <1>16. Registry!Subscribe(r.id, r.session, r.topic)
    BY <1>3, <1>8, <1>10, <1>11, <1>13, <1>14, <1>15 DEF Registry!Subscribe
  <1> QED
    BY <1>3, <1>16

\* unsubscribe takes effect where the record is swapped out.
LEMMA UnsubscribeImplements ==
    ASSUME BrokerInv, NEW t \in Threads, NEW d \in SubIds, Unsubscribe(t, d)
    PROVE  Registry!Unsubscribe(d)
PROOF
  <1> DEFINE index == subscription_id_index[d]
             c == [op |-> "notify", count |-> Len(subscriptions'), close |-> NoSession, id |-> 0]
  <1>1. /\ index \in 1..Len(subscriptions) /\ eraseSubscriptionAt(index)
        /\ call' = [call EXCEPT ![t] = c] /\ call[t] = Idle /\ LockFree
        /\ g_sub_id_counter' = g_sub_id_counter
    BY DEF Unsubscribe, isValidIndex
  <1>2. c.op = "notify" /\ call[t].op = "idle"
    BY <1>1 DEF Idle
  <1>3. index # 0
    BY <1>1
  <1>4. subscriptions[index].id = d
    BY <1>3 DEF BrokerInv, IndexConsistent, IdIndexOK
  <1> HIDE DEF index, c
  <1>5. Records' = {r \in Records : r.id # d}
    BY <1>1, <1>4, EraseRecords
  <1>6. Vanishing = {} /\ Vanishing' = {}
    BY <1>1, <1>2, NothingVanishing, VanishingStep
  <1>7. LiveSubs = Records
    BY <1>6, LiveRecords
  <1>8. LiveSubs' = Records'
    BY <1>6 DEF LiveSubs, Records
  <1>9. \E r \in LiveSubs : r.id = d
    BY <1>1, <1>4, <1>7 DEF Records
  <1>10. IssuedIds' = IssuedIds /\ Calling' = Calling
    BY <1>1, <1>2, IssuedStep, CallingStep
  <1> QED
    BY <1>5, <1>7, <1>8, <1>9, <1>10 DEF Registry!Unsubscribe

\* disconnect_session takes effect where the lock is taken; with nothing to remove
\* it takes none.
LEMMA EnterImplements ==
    ASSUME BrokerInv, NEW t \in Threads, NEW s \in Sessions,
           NEW x \in Sessions \cup {NoSession}, DisconnectEnter(t, s, x),
           call[t].op \notin {"erase", "subscribe", "deliver"}
    PROVE  RegistryStep
PROOF
  <1>1. LockFree /\ UNCHANGED <<g_sub_id_counter, store>>
    BY DEF DisconnectEnter
  <1>2. CASE session_index[s] = {}
    <2> DEFINE c == AfterDisconnect(x)
    <2>1. call' = [call EXCEPT ![t] = c] /\ c.op \in {"idle", "close"}
      BY <1>2 DEF DisconnectEnter, AfterDisconnect, Idle
    <2> HIDE DEF c
    <2> QED
      BY <2>1, <1>1, InvisibleStep DEF RegistryStep
  <1>3. CASE session_index[s] # {}
    <2> DEFINE c == [op |-> "erase", session |-> s, close |-> x]
    <2>1. call' = [call EXCEPT ![t] = c]
      BY <1>3 DEF DisconnectEnter
    <2>2. c.op = "erase" /\ c.session = s
      OBVIOUS
    <2> HIDE DEF c
    <2>3. call'[t] = c /\ \A u \in Threads : u # t => call'[u] = call[u]
      BY <2>1 DEF BrokerInv, TypeOK
    <2>4. Vanishing = {} /\ \A u \in Threads : call[u].op # "erase"
      BY <1>1, NothingVanishing, BrokerAssumption DEF BrokerInv, LockDiscipline, LockFree
    <2>5. Vanishing' = {s}
      BY <2>2, <2>3, <2>4 DEF Vanishing
    <2>6. LiveSubs = Records
      BY <2>4, LiveRecords
    <2>7. LiveSubs' = {r \in Records : r.session # s}
      BY <1>1, <2>5 DEF LiveSubs, Records, store
    <2>8. IssuedIds' = IssuedIds /\ Calling' = Calling
      BY <1>1, <2>1, <2>2, IssuedStep, CallingStep
    <2>9. Registry!DisconnectSession(s)
      BY <2>6, <2>7, <2>8 DEF Registry!DisconnectSession
    <2> QED
      BY <2>9 DEF RegistryStep, Registry!Next
  <1> QED
    BY <1>2, <1>3

\* The rounds of the loop remove only records that nobody sees any more.
LEMMA EraseImplements ==
    ASSUME BrokerInv, NEW t \in Threads, DisconnectErase(t)
    PROVE  UNCHANGED <<LiveSubs, IssuedIds, Calling>>
PROOF
  <1> DEFINE s == call[t].session
  <1>1. call[t] \in Call /\ call[t].op = "erase"
    BY DEF BrokerInv, TypeOK, DisconnectErase
  <1>2. s \in Sessions
    BY <1>1 DEF Call, Idle
  <1>3. UNCHANGED <<g_sub_id_counter, call>>
    BY DEF DisconnectErase
  <1>4. \A i \in session_index[s] : i \in 1..Len(subscriptions) /\ subscriptions[i].session = s
    BY <1>2 DEF BrokerInv, IndexConsistent, SessionIndexOK
  <1>5. PICK index \in session_index[s] : eraseSubscriptionAt(index)
    BY <1>4 DEF DisconnectErase, isValidIndex
  <1>6. index \in 1..Len(subscriptions) /\ subscriptions[index].session = s
    BY <1>4, <1>5
  <1>7. Records' = {r \in Records : r.id # subscriptions[index].id}
    BY <1>5, <1>6, EraseRecords
  <1>8. \A r \in Records : r.id = subscriptions[index].id => r = subscriptions[index]
    BY <1>6 DEF Records, BrokerInv, IndexConsistent, IdIndexOK
  <1>9. Vanishing = {s} /\ Vanishing' = {s}
    <2>1. Vanishing = {s}
      BY <1>1, OneVanishing
    <2>2. Vanishing' = Vanishing
      BY <1>3 DEF Vanishing
    <2> QED
      BY <2>1, <2>2
  <1>10. LiveSubs = {r \in Records : r.session # s}
    BY <1>9, LiveRecords
  <1>11. LiveSubs' = {r \in Records' : r.session # s}
    BY <1>9 DEF LiveSubs, Records
  <1>12. LiveSubs' = LiveSubs
    BY <1>6, <1>7, <1>8, <1>10, <1>11
  <1>13. IssuedIds' = IssuedIds /\ Calling' = Calling
    BY <1>3 DEF IssuedIds, Calling
  <1> QED
    BY <1>12, <1>13

\* When the loop ends the session has no record left, so giving the lock back shows
\* nobody anything new.
LEMMA LeaveImplements ==
    ASSUME BrokerInv, NEW t \in Threads, DisconnectLeave(t)
    PROVE  UNCHANGED <<LiveSubs, IssuedIds, Calling>>
PROOF
  <1> DEFINE s == call[t].session
             c == [op |-> "notify", count |-> Len(subscriptions),
                   close |-> call[t].close, id |-> 0]
  <1>1. call[t] \in Call /\ call[t].op = "erase" /\ session_index[s] = {}
    BY DEF BrokerInv, TypeOK, DisconnectLeave
  <1>2. s \in Sessions
    BY <1>1 DEF Call, Idle
  <1>3. call' = [call EXCEPT ![t] = c] /\ UNCHANGED <<g_sub_id_counter, store>>
    BY DEF DisconnectLeave
  <1>4. c.op = "notify"
    OBVIOUS
  <1> HIDE DEF c
  <1>5. call'[t] = c /\ \A u \in Threads : u # t => call'[u] = call[u]
    BY <1>3 DEF BrokerInv, TypeOK
  <1>6. \A i \in 1..Len(subscriptions) : subscriptions[i].session # s
    BY <1>1, <1>2 DEF BrokerInv, IndexConsistent, SessionIndexOK
  <1>7. Vanishing = {s}
    BY <1>1, OneVanishing
  <1>8. Vanishing' = {}
    <2>1. \A u \in Threads : call[u].op = "erase" => u = t
      BY <1>1 DEF BrokerInv, LockDiscipline
    <2> QED
      BY <2>1, <1>4, <1>5 DEF Vanishing
  <1>9. LiveSubs' = LiveSubs
    BY <1>3, <1>6, <1>7, <1>8 DEF LiveSubs, store
  <1>10. IssuedIds' = IssuedIds /\ Calling' = Calling
    BY <1>1, <1>3, <1>4, IssuedStep, CallingStep
  <1> QED
    BY <1>9, <1>10

\* publish takes effect where it copies the handlers: the topic index gives it all
\* the subscriptions of the topic, and no session is half removed.
LEMMA CollectImplements ==
    ASSUME BrokerInv, NEW t \in Threads, NEW tp \in Topics, PublishCollect(t, tp)
    PROVE  Registry!Publish(t, tp)
PROOF
  <1> DEFINE hs == {subscriptions[i] : i \in {j \in topic_index[tp] : isValidIndex(j)}}
             c  == [op |-> "deliver", handlers |-> hs]
  <1>1. /\ call[t] = Idle /\ LockFree /\ call' = [call EXCEPT ![t] = c]
        /\ UNCHANGED <<g_sub_id_counter, store>>
    BY DEF PublishCollect
  <1>2. c.op = "deliver" /\ c.handlers = hs /\ call[t].op = "idle"
    BY <1>1 DEF Idle
  <1> HIDE DEF c
  <1>3. Vanishing = {} /\ Vanishing' = {}
    BY <1>1, <1>2, NothingVanishing, VanishingStep
  <1>4. LiveSubs = Records
    BY <1>3, LiveRecords
  <1>5. LiveSubs' = Records
    BY <1>1, <1>3 DEF LiveSubs, Records, store
  <1>6. hs = {r \in Records : r.topic = tp}
    BY DEF BrokerInv, IndexConsistent, TopicIndexOK, Records, isValidIndex
  <1>7. Calling[t] = {} /\ Calling' = [Calling EXCEPT ![t] = hs]
    <2>1. Calling[t] = {} /\ Calling' = [Calling EXCEPT ![t] = c.handlers]
      BY <1>1, <1>2, CallingStep
    <2> HIDE DEF hs
    <2> QED
      BY <2>1, <1>2, Zenon
  <1>8. IssuedIds' = IssuedIds
    BY <1>1, <1>2, IssuedStep
  <1> QED
    BY <1>4, <1>5, <1>6, <1>7, <1>8 DEF Registry!Publish

\* One round of publish's loop calls one of the handlers it copied.
LEMMA DeliverImplements ==
    ASSUME BrokerInv, NEW t \in Threads, PublishDeliver(t)
    PROVE  Registry!Deliver(t)
PROOF
  <1>1. call[t] \in Call /\ call[t].op = "deliver"
    BY DEF BrokerInv, TypeOK, PublishDeliver
  <1>2. call[t] \in [op : {"deliver"}, handlers : SUBSET SubscriptionRecord]
    BY <1>1 DEF Call, Idle
  <1>3. PICK h \in call[t].handlers : call' = [call EXCEPT ![t].handlers = @ \ {h}]
    BY DEF PublishDeliver
  <1> DEFINE c == [op |-> "deliver", handlers |-> call[t].handlers \ {h}]
  <1>4. call' = [call EXCEPT ![t] = c]
    <2>1. [call[t] EXCEPT !.handlers = @ \ {h}] = c
      BY <1>2
    <2> QED
      BY <2>1, <1>3
  <1>5. c.op = "deliver" /\ c.handlers = call[t].handlers \ {h}
    OBVIOUS
  <1>6. UNCHANGED <<g_sub_id_counter, store>>
    BY DEF PublishDeliver
  <1> HIDE DEF c
  <1>7. Vanishing' = Vanishing /\ IssuedIds' = IssuedIds
    BY <1>1, <1>4, <1>5, <1>6, VanishingStep, IssuedStep
  <1>8. LiveSubs' = LiveSubs
    BY <1>6, <1>7 DEF LiveSubs, store
  <1>9. Calling[t] = call[t].handlers /\ Calling' = [Calling EXCEPT ![t] = call[t].handlers \ {h}]
    <2>1. Calling[t] = call[t].handlers /\ Calling' = [Calling EXCEPT ![t] = c.handlers]
      BY <1>1, <1>4, <1>5, CallingStep
    <2> QED
      BY <2>1, <1>5, Zenon
  <1> QED
    BY <1>7, <1>8, <1>9 DEF Registry!Deliver

\* The first state of the broker is the empty registry.
LEMMA InitImplements == Init => Registry!Init
PROOF
  <1> SUFFICES ASSUME Init PROVE Registry!Init
    OBVIOUS
  <1>1. LiveSubs = {}
    BY DEF Init, LiveSubs
  <1>2. IssuedIds = {}
    BY BrokerAssumption DEF Init, IssuedIds, SubIds
  <1>3. Calling = [t \in Threads |-> {}]
    BY DEF Init, Calling, Idle
  <1> QED
    BY <1>1, <1>2, <1>3 DEF Registry!Init

\* Every step of every thread is one step of the registry, or none.
LEMMA NextImplements ==
    ASSUME BrokerInv, NEW t \in Threads, Begin(t) \/ Continue(t)
    PROVE  RegistryStep
PROOF
  <1> USE BrokerAssumption
  <1>1. call[t] \in Call /\ call = [call EXCEPT ![t] = call[t]]
    BY DEF BrokerInv, TypeOK
  <1>2. Idle.op = "idle"
    BY DEF Idle
  <1>3. ASSUME NEW s \in Sessions, NEW tp \in Topics, SubscribeBegin(t, s, tp)
        PROVE  RegistryStep
    <2> DEFINE d == g_sub_id_counter + 1
               c == [op |-> "subscribe", sub |-> [id |-> d, session |-> s, topic |-> tp]]
    <2>1. /\ call' = [call EXCEPT ![t] = c] /\ g_sub_id_counter' = d
          /\ call[t] = Idle /\ UNCHANGED store
      BY <1>3 DEF SubscribeBegin
    <2>2. c.op = "subscribe" /\ c.sub.id = d
      OBVIOUS
    <2>3. g_sub_id_counter \in Nat
      BY DEF BrokerInv, TypeOK
    <2> HIDE DEF c
    <2>4. call'[t] = c /\ \A u \in Threads : u # t => call'[u] = call[u]
      BY <2>1 DEF BrokerInv, TypeOK
    <2>5. LiveSubs' = LiveSubs
      <3>1. Vanishing' = Vanishing
        BY <2>1, <2>2, <1>2, VanishingStep
      <3> QED
        BY <3>1, <2>1 DEF LiveSubs, store
    <2>6. IssuedIds' = IssuedIds
      <3>1. ASSUME NEW e \in SubIds
            PROVE  (e <= d /\ \A u \in Threads : call'[u].op = "subscribe" => call'[u].sub.id # e)
                   <=> (e <= g_sub_id_counter
                        /\ \A u \in Threads : call[u].op = "subscribe" => call[u].sub.id # e)
        <4>1. (\A u \in Threads : call'[u].op = "subscribe" => call'[u].sub.id # e)
              <=> (\A u \in Threads : call[u].op = "subscribe" => call[u].sub.id # e) /\ e # d
          BY <2>1, <2>2, <2>4, <1>2
        <4>2. e \in Nat
          BY DEF SubIds
        <4>3. e <= g_sub_id_counter <=> e <= d /\ e # d
          BY <4>2, <2>3
        <4> QED
          BY <4>1, <4>3
      <3> QED
        BY <3>1, <2>1 DEF IssuedIds
    <2>7. Calling' = Calling
      BY <2>1, <2>2, <1>2, CallingStep
    <2> QED
      BY <2>5, <2>6, <2>7 DEF RegistryStep
  <1>4. ASSUME NEW d \in SubIds, Unsubscribe(t, d)
        PROVE  RegistryStep
    BY <1>4, UnsubscribeImplements DEF RegistryStep, Registry!Next
  <1>5. ASSUME NEW s \in Sessions, DisconnectSession(t, s)
        PROVE  RegistryStep
    BY <1>2, <1>5, EnterImplements DEF DisconnectSession
  <1>6. ASSUME NEW tp \in Topics, PublishCollect(t, tp)
        PROVE  RegistryStep
    BY <1>6, CollectImplements DEF RegistryStep, Registry!Next
  <1>7. ASSUME NEW a \in AuthSessions, NEW w \in Sessions, RegisterAuthSession(t, a, w)
        PROVE  RegistryStep
    BY <1>1, <1>2, <1>7, InvisibleStep DEF RegisterAuthSession, RegistryStep
  <1>8. ASSUME NEW w \in Sessions, UnregisterAuthSession(t, w)
        PROVE  RegistryStep
    BY <1>1, <1>2, <1>8, InvisibleStep DEF UnregisterAuthSession, RegistryStep
  <1>9. ASSUME NEW a \in AuthSessions, RevokeAuthSession(t, a)
        PROVE  RegistryStep
    <2> DEFINE c == [op |-> "revoke", close |-> auth_sessions[a]]
    <2>1. /\ call' = [call EXCEPT ![t] = c] /\ call[t] = Idle /\ c.op = "revoke"
          /\ UNCHANGED <<g_sub_id_counter, store>>
      BY <1>9 DEF RevokeAuthSession
    <2> HIDE DEF c
    <2> QED
      BY <2>1, <1>2, InvisibleStep DEF RegistryStep
  <1>10. ASSUME SubscribeCommit(t)
         PROVE  RegistryStep
    BY <1>10, CommitImplements DEF RegistryStep, Registry!Next
  <1>11. ASSUME DisconnectErase(t)
         PROVE  RegistryStep
    BY <1>11, EraseImplements DEF RegistryStep
  <1>12. ASSUME DisconnectLeave(t)
         PROVE  RegistryStep
    BY <1>12, LeaveImplements DEF RegistryStep
  <1>13. ASSUME NotifyCount(t)
         PROVE  RegistryStep
    <2> DEFINE c == AfterDisconnect(call[t].close)
    <2>1. /\ call' = [call EXCEPT ![t] = c] /\ call[t].op = "notify"
          /\ c.op \in {"idle", "close"} /\ UNCHANGED <<g_sub_id_counter, store>>
      BY <1>13 DEF NotifyCount, AfterDisconnect, Idle
    <2> HIDE DEF c
    <2> QED
      BY <2>1, InvisibleStep DEF RegistryStep
  <1>14. ASSUME PublishDeliver(t)
         PROVE  RegistryStep
    BY <1>14, DeliverImplements DEF RegistryStep, Registry!Next
  <1>15. ASSUME PublishReturn(t)
         PROVE  RegistryStep
    <2>1. /\ call' = [call EXCEPT ![t] = Idle] /\ call[t].op = "deliver"
          /\ call[t].handlers = {} /\ UNCHANGED <<g_sub_id_counter, store>>
      BY <1>15 DEF PublishReturn
    <2>2. Vanishing' = Vanishing /\ IssuedIds' = IssuedIds
      BY <2>1, <1>2, VanishingStep, IssuedStep
    <2>3. LiveSubs' = LiveSubs
      BY <2>1, <2>2 DEF LiveSubs, store
    <2>4. Calling' = Calling
      BY <2>1, <1>2, CallingStep
    <2> QED
      BY <2>2, <2>3, <2>4 DEF RegistryStep
  <1>16. ASSUME RevokeDisconnect(t)
         PROVE  RegistryStep
    <2>1. call[t].op = "revoke" /\ call[t].close \in Sessions
      BY <1>1, <1>16 DEF RevokeDisconnect, Call, Idle
    <2> QED
      BY <1>16, <2>1, EnterImplements DEF RevokeDisconnect
  <1>17. ASSUME RevokeClose(t)
         PROVE  RegistryStep
    BY <1>2, <1>17, InvisibleStep DEF RevokeClose, RegistryStep
  <1>18. ASSUME NotifyThrows(t)
         PROVE  RegistryStep
    <2> DEFINE c == [op |-> "thrown", close |-> call[t].close]
    <2>1. /\ call' = [call EXCEPT ![t] = c] /\ call[t].op = "notify"
          /\ c.op = "thrown" /\ UNCHANGED <<g_sub_id_counter, store>>
      BY <1>18 DEF NotifyThrows
    <2> HIDE DEF c
    <2> QED
      BY <2>1, InvisibleStep DEF RegistryStep
  <1>19. ASSUME ThrowSwallowed(t)
         PROVE  RegistryStep
    BY <1>2, <1>19, InvisibleStep DEF ThrowSwallowed, RegistryStep
  <1> QED
    BY <1>3, <1>4, <1>5, <1>6, <1>7, <1>8, <1>9, <1>10, <1>11, <1>12, <1>13, <1>14,
       <1>15, <1>16, <1>17, <1>18, <1>19 DEF Begin, Continue

\* To its callers the broker is the registry, for every instance: each method takes
\* effect at one instant, disconnect_session and its loop of swap-with-last removals
\* included, an id is never reused, and publish calls each subscription of the topic
\* in force when it collects the handlers, and no other.
THEOREM BrokerImplementsRegistry == Spec => ImplementsRegistry
PROOF
  <1>1. Init => Registry!Init
    BY InitImplements
  <1>2. BrokerInv /\ [Next]_vars => [Registry!Next]_(Registry!rvars)
    <2> SUFFICES ASSUME BrokerInv, [Next]_vars
                 PROVE  Registry!Next \/ UNCHANGED <<LiveSubs, IssuedIds, Calling>>
      BY DEF Registry!rvars
    <2>1. CASE Next
      BY <2>1, NextImplements DEF Next, RegistryStep
    <2>2. CASE UNCHANGED vars
      BY <2>2 DEF vars, store, LiveSubs, Vanishing, IssuedIds, Calling
    <2> QED
      BY <2>1, <2>2
  <1> QED
    BY <1>1, <1>2, BrokerInvariant, PTL DEF Spec, ImplementsRegistry, Registry!Spec
=============================================================================
