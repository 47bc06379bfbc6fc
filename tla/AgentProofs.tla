----------------------------- MODULE AgentProofs -----------------------------
(***************************************************************************)
(* Proofs about the agent.  Dispatcher, for any senders, batches and        *)
(* bounds: the types, the order of delivery, and that it implements         *)
(* SenderChannels.  VirtOperator: however many objects there are, their     *)
(* constructors open one connection.                                        *)
(***************************************************************************)
EXTENDS Dispatcher, SequenceTheorems, TLAPS, VirtOperator

USE DispatcherAssumption

LEMMA TypeInit == Init => TypeOK
BY DEF Init, TypeOK, Item, None

LEMMA TypeNext == TypeOK /\ [Next]_vars => TypeOK'
<1> SUFFICES ASSUME TypeOK, [Next]_vars PROVE TypeOK'
  OBVIOUS
<1> USE DEF TypeOK, Item
<1>1. CASE BootWatchdog
  BY <1>1 DEF BootWatchdog, StartFails
<1>2. ASSUME NEW s \in Senders, BootSender(s) PROVE TypeOK'
  <2>1. module_router' \subseteq Senders
    BY <1>2 DEF BootSender
  <2>2. thread' \in [Senders -> {"idle", "busy", "dead"}]
    BY <1>2 DEF BootSender
  <2>3. boot' \in {"on", "done", "failed"} /\ faults' \in Nat
    BY <1>2 DEF BootSender, StartFails
  <2> QED BY <1>2, <2>1, <2>2, <2>3 DEF BootSender
<1>3. CASE RunGet
  BY <1>3 DEF RunGet
<1>4. CASE SendOneData
  <2> DEFINE item == Head(batch)
  <2>0. batch \in Seq(Item) /\ batch # <<>>
    BY <1>4 DEF SendOneData
  <2> HIDE DEF Item
  <2>1. item \in Item /\ Tail(batch) \in Seq(Item)
    BY <2>0, HeadTailProperties DEF SendOneData
  <2>2. batch' \in Seq(Item)
    BY <1>4, <2>1 DEF SendOneData
  <2>3. sender_queue' \in [Senders -> Seq(Nat)]
    <3>1. CASE item.to \in module_router
      <4>1. sender_queue' = [sender_queue EXCEPT ![item.to] = Append(@, item.id)]
        BY <1>4, <3>1 DEF SendOneData
      <4>2. Append(sender_queue[item.to], item.id) \in Seq(Nat)
        <5>1. item.id \in Nat
          BY <2>1 DEF Item
        <5>2. sender_queue[item.to] \in Seq(Nat)
          BY <3>1
        <5> QED BY <5>1, <5>2, AppendProperties
      <4> QED BY <4>1, <4>2
    <3>2. CASE item.to \notin module_router
      BY <1>4, <3>2 DEF SendOneData
    <3> QED BY <3>1, <3>2
  <2> QED BY <1>4, <2>2, <2>3 DEF SendOneData
<1>5. ASSUME NEW b \in Batches, Post(b) PROVE TypeOK'
  <2> DEFINE new == [i \in 1..Len(b) |-> [to |-> b[i], id |-> posted + i]]
  <2>1. b \in Seq(Dests)
    OBVIOUS
  <2>2. new \in Seq(Item)
    BY <2>1
  <2>3. msg_queue' = Append(msg_queue, new)
    BY <1>5 DEF Post
  <2>4. msg_queue' \in Seq(Seq(Item))
    BY <2>2, <2>3
  <2>5. posted' \in 0..MaxData
    BY <1>5, <2>1 DEF Post
  <2> QED BY <1>5, <2>4, <2>5 DEF Post
<1>6. ASSUME NEW s \in Senders, SenderGet(s) PROVE TypeOK'
  BY <1>6 DEF SenderGet
<1>7. ASSUME NEW s \in Senders, SendReturns(s) PROVE TypeOK'
  BY <1>7 DEF SendReturns, None
<1>8. ASSUME NEW s \in Senders, SendRaises(s) PROVE TypeOK'
  <2>1. thread' \in [Senders -> {"idle", "busy", "dead"}]
    BY <1>8 DEF SendRaises
  <2>2. sending' \in [Senders -> Nat] /\ faults' \in Nat
    BY <1>8 DEF SendRaises, None
  <2> QED BY <1>8, <2>1, <2>2 DEF SendRaises
<1>9. ASSUME NEW s \in Senders, WatchAlive(s) \/ WatchClear(s) PROVE TypeOK'
  <2>1. todo' \subseteq todo
    BY <1>9 DEF WatchAlive, WatchClear
  <2>2. CASE WatchAlive(s)
    BY <2>1, <2>2 DEF WatchAlive
  <2>3. CASE WatchClear(s)
    <3>1. sender_queue' = [sender_queue EXCEPT ![s] = <<>>] /\ watchdog' = s
      BY <2>3 DEF WatchClear
    <3>2. sender_queue' \in [Senders -> Seq(Nat)]
      BY <3>1, EmptySeq
    <3> QED BY <2>1, <2>3, <3>1, <3>2 DEF WatchClear
  <2> QED BY <1>9, <2>2, <2>3
<1>10. ASSUME NEW s \in Senders, WatchStart(s) PROVE TypeOK'
  <2>1. todo' \subseteq Senders
    BY <1>10 DEF WatchStart
  <2>2. thread' \in [Senders -> {"idle", "busy", "dead"}]
    BY <1>10 DEF WatchStart
  <2>3. watchdog' \in {"off", "scan", "dead"} /\ faults' \in Nat
    BY <1>10 DEF WatchStart, StartFails
  <2> QED BY <1>10, <2>1, <2>2, <2>3 DEF WatchStart
<1>11. CASE WatchSleep
  <2>1. todo' \subseteq Senders
    BY <1>11 DEF WatchSleep
  <2> QED BY <1>11, <2>1 DEF WatchSleep
<1>12. CASE UNCHANGED vars
  BY <1>12 DEF vars
<1> QED
  BY <1>1, <1>2, <1>3, <1>4, <1>5, <1>6, <1>7, <1>8, <1>9, <1>10, <1>11, <1>12
  DEF Next, Boot, Run, Watch, SendData

\* Every variable keeps its type.
THEOREM TypeCorrect == Spec => []TypeOK
BY TypeInit, TypeNext, PTL DEF Spec

-----------------------------------------------------------------------------
(* How a step changes what a sender has pending.                            *)

Channel(s) == <<sender_queue[s], thread[s], sending[s]>>

LEMMA PendingUnchanged ==
  ASSUME NEW s \in Senders, Channel(s)' = Channel(s)
  PROVE  Pending(s)' = Pending(s)
BY DEF Channel, Pending

LEMMA PendingGet ==
  ASSUME TypeOK, NEW s \in Senders, SenderGet(s)
  PROVE  Pending(s)' = Pending(s)
<1> DEFINE q == sender_queue[s]
<1>1. q \in Seq(Nat) /\ q # <<>>
  BY DEF TypeOK, SenderGet
<1>2. sender_queue'[s] = Tail(q) /\ thread'[s] = "busy" /\ thread[s] = "idle"
      /\ sending'[s] = Head(q)
  BY DEF TypeOK, SenderGet
<1>3. /\ Tail(q) \in Seq(Nat) /\ Len(Tail(q)) = Len(q) - 1 /\ Len(q) \in Nat \ {0}
      /\ \A i \in 1..Len(q) - 1 : Tail(q)[i] = q[i + 1]
      /\ Head(q) = q[1] /\ DOMAIN q = 1..Len(q)
      /\ DOMAIN Tail(q) = 1..Len(q) - 1
  BY <1>1, HeadTailProperties, EmptySeq, LenProperties
<1>4. Pending(s) = {q[i] : i \in 1..Len(q)}
  BY <1>2, <1>3 DEF Pending
<1>5. Pending(s)' = {Tail(q)[i] : i \in 1..Len(q) - 1} \cup {Head(q)}
  <2> DEFINE t == Tail(q)
  <2>1. sender_queue'[s] = t /\ DOMAIN t = 1..Len(q) - 1
    BY <1>2, <1>3
  <2> HIDE DEF t
  <2>2. Pending(s)' = {t[i] : i \in 1..Len(q) - 1} \cup {Head(q)}
    BY <1>2, <2>1 DEF Pending
  <2> QED BY <2>2 DEF t
<1>6. ASSUME NEW i \in 1..Len(q)
      PROVE  q[i] \in {Tail(q)[j] : j \in 1..Len(q) - 1} \cup {Head(q)}
  <2>1. CASE i = 1
    BY <1>3, <2>1
  <2>2. CASE i # 1
    <3>1. i - 1 \in 1..Len(q) - 1 /\ q[i] = Tail(q)[i - 1]
      BY <1>3, <2>2
    <3> QED BY <3>1
  <2> QED BY <2>1, <2>2
<1>7. ASSUME NEW j \in 1..Len(q) - 1
      PROVE  Tail(q)[j] \in {q[i] : i \in 1..Len(q)}
  BY <1>3
<1>8. Head(q) \in {q[i] : i \in 1..Len(q)}
  BY <1>3
<1> QED BY <1>4, <1>5, <1>6, <1>7, <1>8

LEMMA PendingSettle ==
  ASSUME TypeOK, ChannelInOrder, NEW s \in Senders, thread[s] = "busy",
         sender_queue'[s] = sender_queue[s], thread'[s] # "busy"
  PROVE  /\ Pending(s)' = Pending(s) \ {sending[s]}
         /\ sending[s] \in Pending(s)
         /\ \A e \in Pending(s) : sending[s] <= e
<1> DEFINE Q == {sender_queue[s][i] : i \in DOMAIN sender_queue[s]}
<1>1. sending[s] \in Nat /\ \A e \in Q : e \in Nat /\ sending[s] < e
  <2>1. sender_queue[s] \in Seq(Nat)
    BY DEF TypeOK
  <2> QED BY <2>1, ElementOfSeq, LenProperties DEF TypeOK, ChannelInOrder
<1>2. Pending(s) = Q \cup {sending[s]}
  BY DEF Pending
<1>3. Pending(s)' = Q
  BY DEF Pending
<1>4. sending[s] \notin Q
  BY <1>1
<1> HIDE DEF Q
<1> QED BY <1>1, <1>2, <1>3, <1>4

LEMMA PendingAccept ==
  ASSUME TypeOK, NEW s \in Senders, NEW d \in Nat,
         sender_queue'[s] = Append(sender_queue[s], d),
         thread'[s] = thread[s], sending'[s] = sending[s]
  PROVE  Pending(s)' = Pending(s) \cup {d}
<1> DEFINE q == sender_queue[s]
           r == Append(q, d)
<1>1. q \in Seq(Nat)
  BY DEF TypeOK
<1>2. /\ DOMAIN q = 1..Len(q) /\ Len(q) \in Nat /\ DOMAIN r = 1..Len(q) + 1
      /\ \A i \in 1..Len(q) : r[i] = q[i]
      /\ r[Len(q) + 1] = d
  BY <1>1, AppendProperties, LenProperties
<1> DEFINE Q == {q[i] : i \in 1..Len(q)}
           R == {r[i] : i \in 1..Len(q) + 1}
<1> HIDE DEF r
<1>3. R = Q \cup {d}
  BY <1>2
<1>4. {sender_queue'[s][i] : i \in DOMAIN sender_queue'[s]} = R
  BY <1>2 DEF r
<1>5. {sender_queue[s][i] : i \in DOMAIN sender_queue[s]} = Q
  BY <1>2
<1> HIDE DEF Q, R
<1> QED BY <1>3, <1>4, <1>5 DEF Pending

LEMMA PendingClear ==
  ASSUME NEW s \in Senders, thread[s] = "dead", thread'[s] = thread[s],
         sender_queue'[s] = <<>>
  PROVE  Pending(s)' = {}
BY DEF Pending

-----------------------------------------------------------------------------
(* Upstream of the senders.                                                 *)

LEMMA UpstreamTypes ==
  ASSUME TypeOK
  PROVE  /\ DOMAIN batch = 1..Len(batch) /\ Len(batch) \in Nat
         /\ \A i \in DOMAIN batch : batch[i] \in Item
         /\ DOMAIN msg_queue = 1..Len(msg_queue) /\ Len(msg_queue) \in Nat
         /\ \A k \in DOMAIN msg_queue :
              /\ msg_queue[k] \in Seq(Item)
              /\ \A i \in DOMAIN msg_queue[k] : msg_queue[k][i].id \in Nat
<1>1. batch \in Seq(Item) /\ msg_queue \in Seq(Seq(Item))
  BY DEF TypeOK
<1>2. DOMAIN batch = 1..Len(batch) /\ Len(batch) \in Nat
      /\ \A i \in DOMAIN batch : batch[i] \in Item
  BY <1>1, LenProperties, ElementOfSeq
<1>3. DOMAIN msg_queue = 1..Len(msg_queue) /\ Len(msg_queue) \in Nat
      /\ \A k \in DOMAIN msg_queue : msg_queue[k] \in Seq(Item)
  BY <1>1, LenProperties, ElementOfSeq
<1>4. ASSUME NEW k \in DOMAIN msg_queue, NEW i \in DOMAIN msg_queue[k]
      PROVE  msg_queue[k][i].id \in Nat
  <2>1. msg_queue[k][i] \in Item
    BY <1>3, <1>4, LenProperties, ElementOfSeq
  <2> QED BY <2>1 DEF Item
<1> QED BY <1>2, <1>3, <1>4

LEMMA PostView ==
  ASSUME TypeOK, NEW b \in Batches, Post(b)
  PROVE  /\ posted' = posted + Len(b) /\ Len(b) \in Nat /\ posted \in Nat
         /\ DOMAIN msg_queue' = 1..Len(msg_queue) + 1
         /\ \A k \in 1..Len(msg_queue) : msg_queue'[k] = msg_queue[k]
         /\ DOMAIN msg_queue'[Len(msg_queue) + 1] = 1..Len(b)
         /\ \A i \in 1..Len(b) :
              msg_queue'[Len(msg_queue) + 1][i].id = posted + i
<1> DEFINE new == [i \in 1..Len(b) |-> [to |-> b[i], id |-> posted + i]]
<1>1. b \in Seq(Dests) /\ posted \in Nat /\ Len(b) \in Nat
  BY LenProperties DEF TypeOK
<1>2. new \in Seq(Item)
  BY <1>1 DEF Item
<1>3. msg_queue \in Seq(Seq(Item)) /\ msg_queue' = Append(msg_queue, new)
  BY DEF TypeOK, Post
<1>4. /\ \A k \in 1..Len(msg_queue) : msg_queue'[k] = msg_queue[k]
      /\ msg_queue'[Len(msg_queue) + 1] = new
      /\ DOMAIN msg_queue' = 1..Len(msg_queue) + 1
  <2> HIDE DEF new
  <2> QED BY <1>2, <1>3, AppendProperties, LenProperties
<1> QED BY <1>1, <1>4 DEF Post

LEMMA RunGetView ==
  ASSUME TypeOK, RunGet
  PROVE  /\ Len(msg_queue) \in Nat \ {0}
         /\ batch = <<>> /\ batch' = msg_queue[1]
         /\ DOMAIN msg_queue' = 1..Len(msg_queue) - 1
         /\ \A k \in DOMAIN msg_queue' : msg_queue'[k] = msg_queue[k + 1]
<1>1. msg_queue \in Seq(Seq(Item)) /\ msg_queue # <<>>
  BY DEF TypeOK, RunGet
<1>2. batch = <<>> /\ batch' = Head(msg_queue) /\ msg_queue' = Tail(msg_queue)
  BY DEF RunGet
<1>3. /\ Tail(msg_queue) \in Seq(Seq(Item))
      /\ Len(Tail(msg_queue)) = Len(msg_queue) - 1
      /\ \A k \in 1..Len(msg_queue) - 1 : Tail(msg_queue)[k] = msg_queue[k + 1]
      /\ Len(msg_queue) \in Nat \ {0}
  BY <1>1, HeadTailProperties, EmptySeq
<1>4. DOMAIN msg_queue' = 1..Len(msg_queue) - 1
  BY <1>2, <1>3, LenProperties
<1>5. Head(msg_queue) = msg_queue[1]
  BY <1>1
<1> QED BY <1>2, <1>3, <1>4, <1>5

LEMMA SendOneDataView ==
  ASSUME TypeOK, SendOneData
  PROVE  /\ 1 \in DOMAIN batch /\ Head(batch) = batch[1]
         /\ \A i \in DOMAIN batch' :
              /\ i \in Nat \ {0} /\ i + 1 \in DOMAIN batch
              /\ batch'[i] = batch[i + 1]
<1>1. batch \in Seq(Item) /\ batch # <<>>
  BY DEF TypeOK, SendOneData
<1>2. /\ Tail(batch) \in Seq(Item)
      /\ Len(Tail(batch)) = Len(batch) - 1
      /\ \A i \in 1..Len(batch) - 1 : Tail(batch)[i] = batch[i + 1]
      /\ Len(batch) \in Nat \ {0} /\ DOMAIN batch = 1..Len(batch)
  BY <1>1, HeadTailProperties, EmptySeq, LenProperties
<1>3. DOMAIN Tail(batch) = 1..Len(batch) - 1
  BY <1>2, LenProperties
<1>4. batch' = <<>> \/ batch' = Tail(batch)
  BY DEF SendOneData
<1>5. Head(batch) = batch[1]
  BY <1>1
<1>6. DOMAIN <<>> = {}
  OBVIOUS
<1> QED BY <1>2, <1>3, <1>4, <1>5, <1>6

LEMMA UpstreamPreserved ==
  TypeOK /\ UpstreamInOrder /\ [Next]_vars => UpstreamInOrder'
<1> SUFFICES ASSUME TypeOK, UpstreamInOrder, [Next]_vars PROVE UpstreamInOrder'
  OBVIOUS
<1>1. ASSUME NEW b \in Batches, Post(b) PROVE UpstreamInOrder'
  <2> DEFINE n == Len(msg_queue) + 1
  <2>1. batch' = batch
    BY <1>1 DEF Post
  <2>2. \A i \in DOMAIN batch' :
          /\ batch'[i].id \in 1..posted'
          /\ \A j \in DOMAIN batch' : i < j => batch'[i].id < batch'[j].id
          /\ \A k \in DOMAIN msg_queue' : \A j \in DOMAIN msg_queue'[k] :
               batch'[i].id < msg_queue'[k][j].id
    <3> TAKE i \in DOMAIN batch'
    <3>1. batch[i].id \in 1..posted
      BY <2>1 DEF UpstreamInOrder
    <3>2. ASSUME NEW k \in DOMAIN msg_queue', NEW j \in DOMAIN msg_queue'[k]
          PROVE  batch[i].id < msg_queue'[k][j].id
      <4>1. CASE k = n
        BY <1>1, <3>1, <3>2, <4>1, PostView
      <4>2. CASE k # n
        <5>1. k \in DOMAIN msg_queue /\ msg_queue'[k] = msg_queue[k]
          BY <1>1, <4>2, PostView, UpstreamTypes
        <5> QED BY <2>1, <3>2, <5>1 DEF UpstreamInOrder
      <4> QED BY <4>1, <4>2
    <3> QED BY <1>1, <2>1, <3>1, <3>2, PostView DEF UpstreamInOrder
  <2>3. \A k \in DOMAIN msg_queue' : \A i \in DOMAIN msg_queue'[k] :
          /\ msg_queue'[k][i].id \in 1..posted'
          /\ \A j \in DOMAIN msg_queue'[k] :
               i < j => msg_queue'[k][i].id < msg_queue'[k][j].id
          /\ \A l \in DOMAIN msg_queue' : \A j \in DOMAIN msg_queue'[l] :
               k < l => msg_queue'[k][i].id < msg_queue'[l][j].id
    <3> TAKE k \in DOMAIN msg_queue'
    <3>1. CASE k = n
      <4>1. /\ Len(b) \in Nat /\ posted \in Nat /\ posted' = posted + Len(b)
            /\ DOMAIN msg_queue'[k] = 1..Len(b)
            /\ \A i \in 1..Len(b) : msg_queue'[k][i].id = posted + i
        BY <1>1, <3>1, PostView
      <4>2. ~ \E l \in DOMAIN msg_queue' : k < l
        BY <1>1, <3>1, PostView
      <4> HIDE DEF n
      <4> QED BY <4>1, <4>2
    <3>2. CASE k # n
      <4>1. k \in DOMAIN msg_queue /\ msg_queue'[k] = msg_queue[k]
        BY <1>1, <3>2, PostView, UpstreamTypes
      <4>2. ASSUME NEW i \in DOMAIN msg_queue[k]
            PROVE  msg_queue[k][i].id \in 1..posted
        BY <4>1 DEF UpstreamInOrder
      <4>3. ASSUME NEW i \in DOMAIN msg_queue[k], NEW l \in DOMAIN msg_queue',
                   NEW j \in DOMAIN msg_queue'[l], k < l
            PROVE  msg_queue[k][i].id < msg_queue'[l][j].id
        <5>1. CASE l = n
          <6>1. msg_queue'[l][j].id = posted + j /\ j \in Nat \ {0}
                /\ posted \in Nat
            BY <1>1, <4>3, <5>1, PostView
          <6>2. msg_queue[k][i].id \in 1..posted
            BY <4>2, <4>3
          <6> HIDE DEF n
          <6> QED BY <6>1, <6>2
        <5>2. CASE l # n
          <6>1. l \in DOMAIN msg_queue /\ msg_queue'[l] = msg_queue[l]
            BY <1>1, <5>2, PostView, UpstreamTypes
          <6> QED BY <4>1, <4>3, <6>1 DEF UpstreamInOrder
        <5> QED BY <5>1, <5>2
      <4>4. ASSUME NEW i \in DOMAIN msg_queue[k]
            PROVE  msg_queue[k][i].id \in 1..posted'
        BY <1>1, <4>2, PostView
      <4>5. \A i, j \in DOMAIN msg_queue[k] :
              i < j => msg_queue[k][i].id < msg_queue[k][j].id
        BY <4>1 DEF UpstreamInOrder
      <4> HIDE DEF n
      <4> QED BY <4>1, <4>3, <4>4, <4>5
    <3> QED BY <3>1, <3>2
  <2> HIDE DEF n
  <2> QED BY <2>2, <2>3 DEF UpstreamInOrder
<1>2. CASE RunGet
  <2>1. posted' = posted
    BY <1>2 DEF RunGet
  <2>2. 1 \in DOMAIN msg_queue /\ batch' = msg_queue[1]
    BY <1>2, RunGetView, UpstreamTypes
  <2>3. ASSUME NEW k \in DOMAIN msg_queue'
        PROVE  /\ k \in Nat \ {0} /\ k + 1 \in DOMAIN msg_queue
               /\ msg_queue'[k] = msg_queue[k + 1]
    BY <1>2, <2>3, RunGetView, UpstreamTypes
  <2>4. ASSUME NEW k \in DOMAIN msg_queue', NEW j \in DOMAIN msg_queue'[k],
               NEW i \in DOMAIN batch'
        PROVE  batch'[i].id < msg_queue'[k][j].id
    <3>1. 1 < k + 1 /\ msg_queue'[k] = msg_queue[k + 1]
          /\ k + 1 \in DOMAIN msg_queue
      BY <2>3
    <3> QED BY <2>2, <2>4, <3>1 DEF UpstreamInOrder
  <2>5. ASSUME NEW k \in DOMAIN msg_queue', NEW i \in DOMAIN msg_queue'[k]
        PROVE  /\ msg_queue'[k][i].id \in 1..posted
               /\ \A j \in DOMAIN msg_queue'[k] :
                    i < j => msg_queue'[k][i].id < msg_queue'[k][j].id
    BY <2>3, <2>5 DEF UpstreamInOrder
  <2>6. ASSUME NEW k \in DOMAIN msg_queue', NEW i \in DOMAIN msg_queue'[k],
               NEW l \in DOMAIN msg_queue', NEW j \in DOMAIN msg_queue'[l], k < l
        PROVE  msg_queue'[k][i].id < msg_queue'[l][j].id
    <3>1. k + 1 < l + 1 /\ k + 1 \in DOMAIN msg_queue /\ l + 1 \in DOMAIN msg_queue
      BY <2>3, <2>6
    <3> QED BY <2>3, <2>6, <3>1 DEF UpstreamInOrder
  <2>7. \A i, j \in DOMAIN batch' :
          batch'[i].id \in 1..posted /\ (i < j => batch'[i].id < batch'[j].id)
    BY <2>2 DEF UpstreamInOrder
  <2> QED BY <2>1, <2>4, <2>5, <2>6, <2>7 DEF UpstreamInOrder
<1>3. CASE SendOneData
  <2>1. posted' = posted /\ msg_queue' = msg_queue
    BY <1>3 DEF SendOneData
  <2> QED BY <1>3, <2>1, SendOneDataView, UpstreamTypes DEF UpstreamInOrder
<1>4. CASE UNCHANGED <<posted, batch, msg_queue>>
  BY <1>4 DEF UpstreamInOrder
<1> QED
  BY <1>1, <1>2, <1>3, <1>4
  DEF Next, Boot, Run, Watch, SendData, BootWatchdog, BootSender, SenderGet,
      SendReturns, SendRaises, WatchAlive, WatchClear, WatchStart, WatchSleep,
      vars

-----------------------------------------------------------------------------
(* The senders' side.                                                       *)

LEMMA OneThreadPreserved ==
  TypeOK /\ OneThreadPerSender /\ [Next]_vars => OneThreadPerSender'
<1> SUFFICES ASSUME TypeOK, OneThreadPerSender, [Next]_vars
             PROVE  OneThreadPerSender'
  OBVIOUS
<1> USE DEF OneThreadPerSender
<1>1. CASE BootWatchdog
  <2>1. module_router' = module_router /\ module_router = Senders
        /\ thread' = thread
    BY <1>1 DEF BootWatchdog
  <2>2. watchdog' \notin Senders /\ boot' # "on"
    BY <1>1 DEF BootWatchdog
  <2>3. todo' \subseteq Senders
    BY <1>1, TypeNext DEF TypeOK
  <2> QED BY <2>1, <2>2, <2>3
<1>2. ASSUME NEW s \in Senders, BootSender(s) PROVE OneThreadPerSender'
  <2>1. watchdog' = watchdog /\ module_router' = module_router \cup {s}
        /\ todo' = todo
    BY <1>2 DEF BootSender
  <2>2. \A r \in Senders : r # s => thread'[r] = thread[r]
    BY <1>2 DEF BootSender, TypeOK
  <2>3. watchdog = "off" /\ watchdog \notin Senders
    BY <1>2 DEF BootSender
  <2> QED BY <2>1, <2>2, <2>3
<1>3. ASSUME NEW s \in Senders, SenderGet(s) \/ SendReturns(s) \/ SendRaises(s)
      PROVE  OneThreadPerSender'
  <2>1. thread[s] # "dead" /\ watchdog' = watchdog /\ module_router' = module_router
        /\ todo' = todo /\ boot' = boot
    BY <1>3 DEF SenderGet, SendReturns, SendRaises
  <2>2. \A r \in Senders : r # s => thread'[r] = thread[r]
    BY <1>3 DEF SenderGet, SendReturns, SendRaises, TypeOK
  <2> QED BY <2>1, <2>2
<1>4. ASSUME NEW s \in Senders, WatchStart(s) PROVE OneThreadPerSender'
  <2>1. watchdog' \notin Senders /\ module_router' = module_router /\ boot' = boot
    BY <1>4 DEF WatchStart
  <2>2. \A r \in Senders : r # s => thread'[r] = thread[r]
    BY <1>4 DEF WatchStart, TypeOK
  <2>3. s \in module_router /\ boot # "on"
    BY <1>4 DEF WatchStart
  <2>4. todo' \subseteq todo
    BY <1>4 DEF WatchStart
  <2> QED BY <2>1, <2>2, <2>3, <2>4
<1>5. ASSUME NEW s \in Senders, WatchAlive(s) PROVE OneThreadPerSender'
  <2>1. todo' \subseteq todo
    BY <1>5 DEF WatchAlive
  <2> QED BY <1>5, <2>1 DEF WatchAlive
<1>6. ASSUME NEW s \in Senders, WatchClear(s) PROVE OneThreadPerSender'
  BY <1>6 DEF WatchClear, alive
<1>7. CASE WatchSleep
  BY <1>7 DEF WatchSleep
<1>8. CASE UNCHANGED <<thread, watchdog, module_router, boot, todo>>
  BY <1>8
<1> QED
  BY <1>1, <1>2, <1>3, <1>4, <1>5, <1>6, <1>7, <1>8
  DEF Next, Boot, Run, Watch, SendData, RunGet, SendOneData, Post, vars

\* The steps that leave the channel of s as it is, seen from outside.
Quiet(s) == /\ Pending(s)' = Pending(s) /\ delivered'[s] = delivered[s]
            /\ alive(s)' = alive(s)

LEMMA ChannelOfOthers ==
  ASSUME TypeOK, NEW s \in Senders, NEW r \in Senders, r # s,
         \/ BootSender(s) \/ SenderGet(s) \/ SendReturns(s) \/ SendRaises(s)
         \/ WatchAlive(s) \/ WatchClear(s) \/ WatchStart(s)
  PROVE  Channel(r)' = Channel(r) /\ delivered'[r] = delivered[r]
<1>1. CASE BootSender(s)
  BY <1>1 DEF BootSender, Channel, TypeOK
<1>2. CASE SenderGet(s)
  BY <1>2 DEF SenderGet, Channel, TypeOK
<1>3. CASE SendReturns(s)
  BY <1>3 DEF SendReturns, Channel, TypeOK
<1>4. CASE SendRaises(s)
  BY <1>4 DEF SendRaises, Channel, TypeOK
<1>5. CASE WatchAlive(s) \/ WatchClear(s)
  BY <1>5 DEF WatchAlive, WatchClear, Channel, TypeOK
<1>6. CASE WatchStart(s)
  BY <1>6 DEF WatchStart, Channel, TypeOK
<1> QED BY <1>1, <1>2, <1>3, <1>4, <1>5, <1>6

LEMMA ChannelOfAll ==
  ASSUME TypeOK, NEW r \in Senders,
         \/ BootWatchdog \/ RunGet \/ WatchSleep \/ (\E b \in Batches : Post(b))
         \/ UNCHANGED vars
         \/ SendOneData /\ r # Head(batch).to
  PROVE  Channel(r)' = Channel(r) /\ delivered' = delivered
<1>1. CASE SendOneData /\ r # Head(batch).to
  <2>1. sender_queue'[r] = sender_queue[r]
    BY <1>1 DEF SendOneData, TypeOK
  <2> QED BY <1>1, <2>1 DEF SendOneData, Channel
<1> QED
  BY <1>1 DEF BootWatchdog, RunGet, WatchSleep, Post, vars, Channel

LEMMA DeliveredView ==
  ASSUME TypeOK, NEW s \in Senders, SendReturns(s)
  PROVE  /\ delivered'[s] = Append(delivered[s], sending[s])
         /\ DOMAIN delivered'[s] = DOMAIN delivered[s] \cup {Len(delivered[s]) + 1}
         /\ DOMAIN delivered[s] = 1..Len(delivered[s]) /\ Len(delivered[s]) \in Nat
         /\ \A i \in DOMAIN delivered[s] : delivered'[s][i] = delivered[s][i]
         /\ delivered'[s][Len(delivered[s]) + 1] = sending[s]
         /\ Chan!Delivered(s)' = Chan!Delivered(s) \cup {sending[s]}
<1> DEFINE q == delivered[s]
           n == Len(q)
<1>1. q \in Seq(Nat) /\ sending[s] \in Nat
  BY DEF TypeOK
<1>2. delivered'[s] = Append(q, sending[s])
  BY DEF SendReturns, TypeOK
<1>3. /\ DOMAIN q = 1..n /\ n \in Nat
      /\ DOMAIN Append(q, sending[s]) = 1..n + 1
      /\ \A i \in 1..n : Append(q, sending[s])[i] = q[i]
      /\ Append(q, sending[s])[n + 1] = sending[s]
  BY <1>1, AppendProperties, LenProperties
<1> HIDE DEF n
<1>4. Chan!Delivered(s)' = {delivered'[s][i] : i \in 1..n + 1}
  BY <1>2, <1>3 DEF Chan!Delivered
<1>5. Chan!Delivered(s) = {q[i] : i \in 1..n}
  BY <1>3 DEF Chan!Delivered
<1>6. {delivered'[s][i] : i \in 1..n + 1} = {q[i] : i \in 1..n} \cup {sending[s]}
  BY <1>2, <1>3
<1> QED BY <1>2, <1>3, <1>4, <1>5, <1>6 DEF n

LEMMA SendOneDataAccepts ==
  ASSUME TypeOK, NEW s \in Senders, SendOneData, Head(batch).to = s
  PROVE  \/ Channel(s)' = Channel(s)
         \/ /\ Head(batch).id \in Nat
            /\ sender_queue'[s] = Append(sender_queue[s], Head(batch).id)
            /\ thread'[s] = thread[s] /\ sending'[s] = sending[s]
            /\ Pending(s)' = Pending(s) \cup {Head(batch).id}
<1>1. Head(batch).id \in Nat
  BY SendOneDataView, UpstreamTypes DEF Item
<1>2. CASE s \in module_router
  <2>1. /\ sender_queue'[s] = Append(sender_queue[s], Head(batch).id)
        /\ thread'[s] = thread[s] /\ sending'[s] = sending[s]
    BY <1>2 DEF SendOneData, TypeOK
  <2> QED BY <1>1, <2>1, PendingAccept
<1>3. CASE s \notin module_router
  BY <1>3 DEF SendOneData, Channel
<1> QED BY <1>2, <1>3

LEMMA AcceptedPreserved ==
  ASSUME IInv, [Next]_vars, NEW s \in Senders,
         NEW d \in (Pending(s) \cup Chan!Delivered(s))'
  PROVE  \/ d \in Pending(s) \cup Chan!Delivered(s)
         \/ SendOneData /\ d = Head(batch).id
<1> DEFINE Same == Pending(s)' = Pending(s) /\ delivered'[s] = delivered[s]
           Goal == \/ d \in Pending(s) \cup Chan!Delivered(s)
                   \/ SendOneData /\ d = Head(batch).id
<1> SUFFICES Goal
  OBVIOUS
<1> USE DEF IInv
<1>1. ASSUME Same PROVE d \in Pending(s) \cup Chan!Delivered(s)
  BY <1>1 DEF Chan!Delivered
<1>2. ASSUME Channel(s)' = Channel(s), delivered'[s] = delivered[s] PROVE Same
  BY <1>2, PendingUnchanged
<1>3. ASSUME \/ BootWatchdog
             \/ RunGet
             \/ WatchSleep
             \/ \E b \in Batches : Post(b)
             \/ UNCHANGED vars
             \/ SendOneData /\ s # Head(batch).to
      PROVE  Goal
  BY <1>1, <1>2, <1>3, ChannelOfAll
<1>4. CASE SendOneData /\ s = Head(batch).to
  <2>1. delivered' = delivered
    BY <1>4 DEF SendOneData
  <2> QED BY <1>1, <1>2, <1>4, <2>1, SendOneDataAccepts DEF Chan!Delivered
<1>5. ASSUME NEW r \in Senders, r # s,
             \/ BootSender(r) \/ SenderGet(r) \/ SendReturns(r) \/ SendRaises(r)
             \/ WatchAlive(r) \/ WatchClear(r) \/ WatchStart(r)
      PROVE  d \in Pending(s) \cup Chan!Delivered(s)
  BY <1>1, <1>2, <1>5, ChannelOfOthers
<1>6. CASE BootSender(s) \/ WatchStart(s)
  <2>1. thread[s] = "dead" /\ thread'[s] # "busy"
    BY <1>6 DEF BootSender, WatchStart, OneThreadPerSender, TypeOK
  <2>2. sender_queue' = sender_queue /\ delivered' = delivered
    BY <1>6 DEF BootSender, WatchStart
  <2>3. Same
    BY <2>1, <2>2 DEF Pending
  <2> QED BY <1>1, <2>3
<1>7. CASE SenderGet(s)
  BY <1>1, <1>7, PendingGet DEF SenderGet
<1>8. CASE SendReturns(s)
  <2>1. Pending(s)' \subseteq Pending(s) /\ sending[s] \in Pending(s)
    BY <1>8, PendingSettle DEF SendReturns, TypeOK
  <2> QED BY <1>8, <2>1, DeliveredView
<1>9. CASE SendRaises(s)
  <2>1. /\ thread[s] = "busy" /\ thread'[s] # "busy"
        /\ sender_queue' = sender_queue /\ delivered' = delivered
    BY <1>9 DEF SendRaises, TypeOK
  <2>2. Pending(s)' \subseteq Pending(s)
    BY <2>1, PendingSettle
  <2> QED BY <2>1, <2>2 DEF Chan!Delivered
<1>10. CASE WatchAlive(s)
  <2>1. Channel(s)' = Channel(s) /\ delivered' = delivered
    BY <1>10 DEF WatchAlive, Channel
  <2> QED BY <1>1, <1>2, <2>1
<1>11. CASE WatchClear(s)
  <2>1. Pending(s)' = {} /\ delivered' = delivered
    BY <1>11, PendingClear DEF WatchClear, alive, TypeOK
  <2> QED BY <2>1 DEF Chan!Delivered
<1>12. ASSUME NEW r \in Senders,
              \/ BootSender(r) \/ SenderGet(r) \/ SendReturns(r) \/ SendRaises(r)
              \/ WatchAlive(r) \/ WatchClear(r) \/ WatchStart(r)
       PROVE  Goal
  <2>1. CASE r # s
    BY <1>5, <1>12, <2>1
  <2>2. CASE r = s
    BY <1>6, <1>7, <1>8, <1>9, <1>10, <1>11, <1>12, <2>2
  <2> QED BY <2>1, <2>2
<1>13. CASE SendOneData
  BY <1>3, <1>4, <1>13
<1> HIDE DEF Goal
<1>14. CASE UNCHANGED vars
  BY <1>3, <1>14
<1>15. ASSUME Next PROVE Goal
  BY <1>3, <1>12, <1>13, <1>15 DEF Next, Boot, Run, Watch, SendData
<1> QED BY <1>14, <1>15

LEMMA OlderPreserved == IInv /\ [Next]_vars => OlderThanUpstream'
<1> SUFFICES ASSUME IInv, [Next]_vars, NEW s \in Senders,
                    NEW d \in (Pending(s) \cup Chan!Delivered(s))'
             PROVE  /\ d \in 1..posted'
                    /\ \A i \in DOMAIN batch' : d < batch'[i].id
                    /\ \A k \in DOMAIN msg_queue' : \A j \in DOMAIN msg_queue'[k] :
                         d < msg_queue'[k][j].id
  BY DEF OlderThanUpstream
<1>0. TypeOK /\ UpstreamInOrder /\ OlderThanUpstream
  BY DEF IInv
<1>1. CASE SendOneData
  <2>1. posted' = posted /\ msg_queue' = msg_queue
    BY <1>1 DEF SendOneData
  <2>2. \/ d \in Pending(s) \cup Chan!Delivered(s)
        \/ d = batch[1].id
    BY <1>0, <1>1, AcceptedPreserved, SendOneDataView
  <2>3. CASE d = batch[1].id
    BY <1>0, <1>1, <2>1, <2>3, SendOneDataView DEF UpstreamInOrder
  <2>4. CASE d \in Pending(s) \cup Chan!Delivered(s)
    BY <1>0, <1>1, <2>1, <2>4, SendOneDataView DEF OlderThanUpstream
  <2> QED BY <2>2, <2>3, <2>4
<1>2. CASE ~SendOneData
  <2>0. d \in Pending(s) \cup Chan!Delivered(s)
    BY <1>2, AcceptedPreserved
  <2>1. /\ d \in 1..posted
        /\ \A i \in DOMAIN batch : d < batch[i].id
        /\ \A k \in DOMAIN msg_queue : \A j \in DOMAIN msg_queue[k] :
             d < msg_queue[k][j].id
    BY <1>0, <2>0 DEF OlderThanUpstream
  <2>2. ASSUME NEW b \in Batches, Post(b)
        PROVE  /\ d \in 1..posted' /\ batch' = batch
               /\ \A k \in DOMAIN msg_queue' : \A j \in DOMAIN msg_queue'[k] :
                    d < msg_queue'[k][j].id
    <3>1. batch' = batch
      BY <2>2 DEF Post
    <3>2. d \in 1..posted'
      BY <1>0, <2>1, <2>2, PostView
    <3>3. ASSUME NEW k \in DOMAIN msg_queue', NEW j \in DOMAIN msg_queue'[k]
          PROVE  d < msg_queue'[k][j].id
      <4>1. CASE k = Len(msg_queue) + 1
        BY <1>0, <2>1, <2>2, <3>3, <4>1, PostView
      <4>2. CASE k # Len(msg_queue) + 1
        <5>1. k \in DOMAIN msg_queue /\ msg_queue'[k] = msg_queue[k]
          BY <1>0, <2>2, <4>2, PostView, UpstreamTypes
        <5> QED BY <2>1, <3>3, <5>1
      <4> QED BY <4>1, <4>2
    <3> QED BY <3>1, <3>2, <3>3
  <2>3. CASE RunGet
    <3>1. posted' = posted
      BY <2>3 DEF RunGet
    <3>2. 1 \in DOMAIN msg_queue /\ batch' = msg_queue[1]
          /\ \A k \in DOMAIN msg_queue' :
               k + 1 \in DOMAIN msg_queue /\ msg_queue'[k] = msg_queue[k + 1]
      BY <1>0, <2>3, RunGetView, UpstreamTypes
    <3> QED BY <2>1, <3>1, <3>2
  <2>4. CASE UNCHANGED <<posted, batch, msg_queue>>
    BY <2>1, <2>4
  <2> QED
    BY <1>2, <2>1, <2>2, <2>3, <2>4
    DEF Next, Boot, Run, Watch, SendData, BootWatchdog, BootSender, SenderGet,
        SendReturns, SendRaises, WatchAlive, WatchClear, WatchStart, WatchSleep,
        vars
<1> QED BY <1>1, <1>2

\* What ChannelInOrder says of one sender.
InOrder(s) ==
  /\ \A d \in Chan!Delivered(s), e \in Pending(s) : d < e
  /\ \A i, j \in DOMAIN sender_queue[s] :
       i < j => sender_queue[s][i] < sender_queue[s][j]
  /\ thread[s] = "busy" =>
       \A i \in DOMAIN sender_queue[s] : sending[s] < sender_queue[s][i]

LEMMA InOrderUnchanged ==
  ASSUME NEW s \in Senders, InOrder(s), sender_queue'[s] = sender_queue[s],
         delivered'[s] = delivered[s], Pending(s)' \subseteq Pending(s),
         thread'[s] = "busy" => thread[s] = "busy" /\ sending'[s] = sending[s]
  PROVE  InOrder(s)'
BY DEF InOrder, Chan!Delivered

LEMMA InOrderAccept ==
  ASSUME IInv, NEW s \in Senders, SendOneData, Head(batch).to = s
  PROVE  InOrder(s)'
<1> DEFINE q == sender_queue[s]
           d == Head(batch).id
<1>0. TypeOK /\ OlderThanUpstream /\ InOrder(s)
  BY DEF IInv, ChannelInOrder, InOrder
<1>1. delivered' = delivered
  BY DEF SendOneData
<1>2. CASE Channel(s)' = Channel(s)
  BY <1>0, <1>1, <1>2, PendingUnchanged, InOrderUnchanged DEF Channel
<1>3. CASE /\ d \in Nat
           /\ sender_queue'[s] = Append(q, d)
           /\ thread'[s] = thread[s] /\ sending'[s] = sending[s]
           /\ Pending(s)' = Pending(s) \cup {d}
  <2>1. \A e \in Pending(s) \cup Chan!Delivered(s) : e < d
    BY <1>0, SendOneDataView DEF OlderThanUpstream
  <2>2. \A i \in DOMAIN q : q[i] < d
    BY <2>1 DEF Pending
  <2>3. thread[s] = "busy" => sending[s] < d
    BY <2>1 DEF Pending
  <2>4. q \in Seq(Nat)
    BY <1>0 DEF TypeOK
  <2>5. /\ DOMAIN q = 1..Len(q) /\ Len(q) \in Nat
        /\ DOMAIN Append(q, d) = 1..Len(q) + 1
        /\ \A i \in 1..Len(q) : Append(q, d)[i] = q[i]
        /\ Append(q, d)[Len(q) + 1] = d
    BY <1>3, <2>4, AppendProperties, LenProperties
  <2>6. Chan!Delivered(s)' = Chan!Delivered(s)
    BY <1>1 DEF Chan!Delivered
  <2>7. \A e \in Chan!Delivered(s)', f \in Pending(s)' : e < f
    BY <1>0, <1>3, <2>1, <2>6 DEF InOrder
  <2> DEFINE r == sender_queue'[s]
  <2>8. DOMAIN r = 1..Len(q) + 1 /\ r[Len(q) + 1] = d
        /\ \A i \in 1..Len(q) : r[i] = q[i]
    BY <1>3, <2>5
  <2>9. \A i, j \in DOMAIN q : i < j => q[i] < q[j]
    BY <1>0 DEF InOrder
  <2>10. thread'[s] = "busy" => \A i \in DOMAIN r : sending'[s] < r[i]
    BY <1>0, <1>3, <2>3, <2>5, <2>8 DEF InOrder
  <2>11. \A i, j \in DOMAIN r : i < j => r[i] < r[j]
    <3> HIDE DEF r
    <3> QED BY <2>2, <2>5, <2>8, <2>9
  <2> QED BY <2>7, <2>10, <2>11 DEF InOrder
<1> QED BY <1>0, <1>2, <1>3, SendOneDataAccepts

LEMMA InOrderGet ==
  ASSUME IInv, NEW s \in Senders, SenderGet(s)
  PROVE  InOrder(s)'
<1> DEFINE q == sender_queue[s]
<1>0. TypeOK /\ InOrder(s)
  BY DEF IInv, ChannelInOrder, InOrder
<1>1. Pending(s)' = Pending(s) /\ delivered' = delivered
  BY <1>0, PendingGet DEF SenderGet
<1>2. q \in Seq(Nat) /\ q # <<>> /\ sender_queue'[s] = Tail(q) /\ sending'[s] = Head(q)
  BY <1>0 DEF SenderGet, TypeOK
<1>3. /\ Len(q) \in Nat \ {0} /\ DOMAIN q = 1..Len(q) /\ Head(q) = q[1]
      /\ DOMAIN Tail(q) = 1..Len(q) - 1
      /\ \A i \in 1..Len(q) - 1 : Tail(q)[i] = q[i + 1]
  <2>1. Tail(q) \in Seq(Nat) /\ Len(Tail(q)) = Len(q) - 1
    BY <1>2, HeadTailProperties
  <2> QED BY <1>2, <2>1, HeadTailProperties, EmptySeq, LenProperties
<1>4. \A i, j \in DOMAIN q : i < j => q[i] < q[j]
  BY <1>0 DEF InOrder
<1> DEFINE r == sender_queue'[s]
           n == Len(q)
<1>5. n \in Nat \ {0} /\ DOMAIN r = 1..n - 1
      /\ \A i \in DOMAIN r : r[i] = q[i + 1]
  BY <1>2, <1>3
<1>6. sending'[s] = q[1] /\ DOMAIN q = 1..n
  BY <1>2, <1>3
<1> HIDE DEF r, n, q
<1>7. \A i, j \in DOMAIN r : i < j => r[i] < r[j]
  BY <1>4, <1>5, <1>6
<1>8. \A i \in DOMAIN r : sending'[s] < r[i]
  BY <1>4, <1>5, <1>6
<1>9. Chan!Delivered(s)' = Chan!Delivered(s)
  BY <1>1 DEF Chan!Delivered
<1>10. \A d \in Chan!Delivered(s)', e \in Pending(s)' : d < e
  BY <1>0, <1>1, <1>9 DEF InOrder
<1> QED BY <1>7, <1>8, <1>10 DEF InOrder, r

LEMMA InOrderReturns ==
  ASSUME IInv, NEW s \in Senders, SendReturns(s)
  PROVE  InOrder(s)'
<1>0. TypeOK /\ ChannelInOrder /\ InOrder(s)
  BY DEF IInv, ChannelInOrder, InOrder
<1>1. thread[s] = "busy" /\ thread'[s] = "idle" /\ sender_queue' = sender_queue
  BY <1>0 DEF SendReturns, TypeOK
<1>2. /\ Pending(s)' = Pending(s) \ {sending[s]}
      /\ \A e \in Pending(s) : sending[s] <= e
      /\ sending[s] \in Pending(s)
  BY <1>0, <1>1, PendingSettle
<1>3. Chan!Delivered(s)' = Chan!Delivered(s) \cup {sending[s]}
  BY <1>0, DeliveredView
<1>4. \A e \in Pending(s) : e \in Nat
  BY DEF IInv, OlderThanUpstream
<1>5. \A d \in Chan!Delivered(s)', e \in Pending(s)' : d < e
  BY <1>0, <1>2, <1>3, <1>4 DEF InOrder
<1> QED BY <1>0, <1>1, <1>5 DEF InOrder

LEMMA ChannelPreserved ==
  ASSUME IInv, [Next]_vars, NEW s \in Senders
  PROVE  InOrder(s)'
<1>0. TypeOK /\ ChannelInOrder /\ OneThreadPerSender /\ InOrder(s)
  BY DEF IInv, ChannelInOrder, InOrder
<1>1. ASSUME Channel(s)' = Channel(s), delivered'[s] = delivered[s]
      PROVE  InOrder(s)'
  BY <1>0, <1>1, PendingUnchanged, InOrderUnchanged DEF Channel
<1>2. ASSUME \/ BootWatchdog
             \/ RunGet
             \/ WatchSleep
             \/ \E b \in Batches : Post(b)
             \/ UNCHANGED vars
             \/ SendOneData /\ s # Head(batch).to
      PROVE  InOrder(s)'
  BY <1>0, <1>1, <1>2, ChannelOfAll
<1>3. CASE SendOneData
  BY <1>2, <1>3, InOrderAccept
<1>4. CASE BootSender(s) \/ WatchStart(s)
  <2>1. thread[s] = "dead" /\ thread'[s] # "busy"
    BY <1>0, <1>4 DEF BootSender, WatchStart, OneThreadPerSender, TypeOK
  <2>2. sender_queue' = sender_queue /\ delivered' = delivered
    BY <1>4 DEF BootSender, WatchStart
  <2>3. Pending(s)' = Pending(s)
    BY <2>1, <2>2 DEF Pending
  <2> QED BY <1>0, <2>1, <2>2, <2>3, InOrderUnchanged
<1>5. CASE SendRaises(s)
  <2>1. /\ thread[s] = "busy" /\ thread'[s] # "busy"
        /\ sender_queue' = sender_queue /\ delivered' = delivered
    BY <1>0, <1>5 DEF SendRaises, TypeOK
  <2>2. Pending(s)' \subseteq Pending(s)
    BY <1>0, <2>1, PendingSettle
  <2> QED BY <1>0, <2>1, <2>2, InOrderUnchanged
<1>6. CASE WatchAlive(s)
  <2>1. Channel(s)' = Channel(s) /\ delivered' = delivered
    BY <1>6 DEF WatchAlive, Channel
  <2> QED BY <1>1, <2>1
<1>7. CASE WatchClear(s)
  <2>1. /\ thread[s] = "dead" /\ thread'[s] = thread[s]
        /\ sender_queue'[s] = <<>> /\ delivered' = delivered
    BY <1>0, <1>7 DEF WatchClear, alive, TypeOK
  <2>2. Pending(s)' = {}
    BY <2>1, PendingClear
  <2> QED BY <2>1, <2>2 DEF InOrder
<1>8. ASSUME NEW r \in Senders,
             \/ BootSender(r) \/ SenderGet(r) \/ SendReturns(r) \/ SendRaises(r)
             \/ WatchAlive(r) \/ WatchClear(r) \/ WatchStart(r)
      PROVE  InOrder(s)'
  <2>1. CASE r # s
    BY <1>0, <1>1, <1>8, <2>1, ChannelOfOthers
  <2>2. CASE r = s
    BY <1>4, <1>5, <1>6, <1>7, <1>8, <2>2, InOrderGet, InOrderReturns
  <2> QED BY <2>1, <2>2
<1>9. CASE UNCHANGED vars
  BY <1>2, <1>9
<1>10. CASE Next
  BY <1>2, <1>3, <1>8, <1>10 DEF Next, Boot, Run, Watch, SendData
<1> QED BY <1>9, <1>10

LEMMA OrderPreserved == IInv /\ [Next]_vars => OrderedDelivery'
<1> SUFFICES ASSUME IInv, [Next]_vars, NEW s \in Senders,
                    NEW i \in DOMAIN delivered'[s], NEW j \in DOMAIN delivered'[s],
                    i < j
             PROVE  delivered'[s][i] < delivered'[s][j]
  BY DEF OrderedDelivery
<1>0. TypeOK /\ ChannelInOrder /\ OrderedDelivery
  BY DEF IInv
<1>1. CASE delivered'[s] = delivered[s]
  BY <1>0, <1>1 DEF OrderedDelivery
<1>2. CASE SendReturns(s)
  <2> DEFINE n == Len(delivered[s])
  <2>1. sending[s] \in Pending(s)
    BY <1>2 DEF SendReturns, Pending
  <2>2. \A k \in DOMAIN delivered[s] : delivered[s][k] < sending[s]
    BY <1>0, <2>1 DEF ChannelInOrder, Chan!Delivered
  <2>3. /\ DOMAIN delivered[s] = 1..n /\ n \in Nat
        /\ DOMAIN delivered'[s] = 1..n \cup {n + 1}
        /\ \A k \in 1..n : delivered'[s][k] = delivered[s][k]
        /\ delivered'[s][n + 1] = sending[s]
    BY <1>0, <1>2, DeliveredView
  <2>4. i \in 1..n /\ delivered'[s][i] = delivered[s][i]
    <3> HIDE DEF n
    <3> QED BY <2>3
  <2>5. CASE j = n + 1
    BY <2>2, <2>3, <2>4, <2>5
  <2>6. CASE j \in 1..n
    BY <1>0, <2>3, <2>4, <2>6 DEF OrderedDelivery
  <2> QED BY <2>3, <2>5, <2>6
<1>3. ASSUME NEW r \in Senders, r # s, SendReturns(r)
      PROVE  delivered'[s] = delivered[s]
  BY <1>0, <1>3, ChannelOfOthers
<1>4. CASE UNCHANGED delivered
  BY <1>1, <1>4
<1> QED
  BY <1>1, <1>2, <1>3, <1>4
  DEF Next, Boot, Run, Watch, SendData, BootWatchdog, BootSender, Post, RunGet,
      SendOneData, SenderGet, SendRaises, WatchAlive, WatchClear, WatchStart,
      WatchSleep, vars

LEMMA InvariantInit == Init => IInv
<1> SUFFICES ASSUME Init PROVE IInv
  OBVIOUS
<1>1. DOMAIN <<>> = {}
  OBVIOUS
<1>2. \A s \in Senders : Pending(s) = {} /\ Chan!Delivered(s) = {}
  BY <1>1 DEF Init, Pending, Chan!Delivered
<1>3. OrderedDelivery /\ ChannelInOrder
  BY <1>1, <1>2 DEF Init, OrderedDelivery, ChannelInOrder
<1>4. UpstreamInOrder /\ OlderThanUpstream
  BY <1>1, <1>2 DEF Init, UpstreamInOrder, OlderThanUpstream
<1>5. OneThreadPerSender
  BY DEF Init, OneThreadPerSender
<1> QED BY <1>3, <1>4, <1>5, TypeInit DEF IInv

LEMMA InvariantNext == IInv /\ [Next]_vars => IInv'
<1> SUFFICES ASSUME IInv, [Next]_vars PROVE IInv'
  OBVIOUS
<1>1. ChannelInOrder'
  BY ChannelPreserved DEF ChannelInOrder, InOrder
<1> QED
  BY <1>1, TypeNext, UpstreamPreserved, OlderPreserved, OneThreadPreserved,
     OrderPreserved
  DEF IInv

\* The inductive invariant: ids grow along the whole way of a datum.
THEOREM Invariance == Spec => []IInv
BY InvariantInit, InvariantNext, PTL DEF Spec

\* Data reach every sender in the order of posting, none twice.
THEOREM InOrderDelivery == Spec => []OrderedDelivery
<1>1. IInv => OrderedDelivery
  BY DEF IInv
<1> QED BY <1>1, Invariance, PTL

-----------------------------------------------------------------------------
(* The Dispatcher implements the channels.                                  *)

pendings == [s \in Senders |-> Pending(s)]
ups == [s \in Senders |-> alive(s)]

\* A step that concerns the channel of s only.
LEMMA OneChannel ==
  ASSUME NEW s \in Senders, \A r \in Senders : r # s => Channel(r)' = Channel(r)
  PROVE  /\ pendings' = [pendings EXCEPT ![s] = Pending(s)']
         /\ ups' = [ups EXCEPT ![s] = alive(s)']
<1>1. \A r \in Senders : r # s =>
        Pending(r)' = Pending(r) /\ (alive(r)' <=> alive(r))
  BY PendingUnchanged DEF Channel, alive
<1> QED BY <1>1 DEF pendings, ups, alive

LEMMA NoChannel ==
  ASSUME \A r \in Senders : Channel(r)' = Channel(r)
  PROVE  pendings' = pendings /\ ups' = ups
<1>1. \A r \in Senders : Pending(r)' = Pending(r) /\ (alive(r)' <=> alive(r))
  BY PendingUnchanged DEF Channel, alive
<1> QED BY <1>1 DEF pendings, ups, alive

LEMMA StepAccept ==
  ASSUME IInv, NEW s \in Senders, SendOneData, Head(batch).to = s
  PROVE  [Chan!CNext]_(Chan!cvars)
<1> DEFINE d == Head(batch).id
<1>0. TypeOK /\ UpstreamInOrder /\ OlderThanUpstream
  BY DEF IInv
<1>1. delivered' = delivered /\ thread' = thread
  BY DEF SendOneData
<1>2. \A r \in Senders : r # s => Channel(r)' = Channel(r)
  BY <1>0, ChannelOfAll
<1>3. CASE Channel(s)' = Channel(s)
  <2>1. pendings' = pendings /\ ups' = ups
    BY <1>2, <1>3, NoChannel
  <2> QED BY <1>1, <2>1 DEF pendings, ups, Chan!cvars
<1>4. CASE Pending(s)' = Pending(s) \cup {d}
  <2>1. d \in 1..MaxData
    BY <1>0, SendOneDataView DEF UpstreamInOrder, TypeOK
  <2>2. \A e \in Pending(s) \cup Chan!Delivered(s) : e < d
    BY <1>0, SendOneDataView DEF OlderThanUpstream
  <2>3. pendings' = [pendings EXCEPT ![s] = @ \cup {d}]
    BY <1>2, <1>4, OneChannel DEF pendings
  <2>4. ups' = ups
    BY <1>1 DEF ups, alive
  <2>5. Chan!Accept(s, d)
    BY <1>1, <2>2, <2>3, <2>4 DEF Chan!Accept, pendings, ups
  <2> QED BY <2>1, <2>5 DEF Chan!CNext
<1> QED BY <1>0, <1>3, <1>4, SendOneDataAccepts

LEMMA StepSettle ==
  ASSUME IInv, NEW s \in Senders, SendReturns(s) \/ SendRaises(s)
  PROVE  Chan!CNext
<1> DEFINE d == sending[s]
<1>0. TypeOK /\ ChannelInOrder
  BY DEF IInv
<1>1. /\ thread[s] = "busy" /\ thread'[s] \in {"idle", "dead"}
      /\ sender_queue' = sender_queue
  BY <1>0 DEF SendReturns, SendRaises, TypeOK
<1>2. /\ Pending(s)' = Pending(s) \ {d} /\ d \in Pending(s)
      /\ \A e \in Pending(s) : d <= e
  BY <1>0, <1>1, PendingSettle
<1>3. d \in 1..MaxData
  BY <1>2 DEF IInv, OlderThanUpstream, TypeOK
<1>4. \A r \in Senders : r # s => Channel(r)' = Channel(r)
  BY <1>0, ChannelOfOthers
<1>5. /\ pendings' = [pendings EXCEPT ![s] = @ \ {d}]
      /\ ups' = [ups EXCEPT ![s] = alive(s)']
  BY <1>2, <1>4, OneChannel DEF pendings
<1>6. \/ delivered' = [delivered EXCEPT ![s] = Append(@, d)] /\ ups' = ups
      \/ delivered' = delivered /\ ups' = ups
      \/ delivered' = delivered /\ ups' = [ups EXCEPT ![s] = FALSE]
  <2>1. CASE thread'[s] = "idle"
    <3>1. ups' = ups
      BY <1>1, <1>5, <2>1 DEF ups, alive
    <3> QED BY <2>1, <3>1 DEF SendReturns, SendRaises
  <2>2. CASE thread'[s] = "dead"
    <3>1. ups' = [ups EXCEPT ![s] = FALSE]
      BY <1>5, <2>2 DEF alive
    <3>2. delivered' = delivered
      BY <1>0, <2>2 DEF SendReturns, SendRaises, TypeOK
    <3> QED BY <3>1, <3>2
  <2> QED BY <1>1, <2>1, <2>2
<1>7. ups[s] /\ pendings[s] = Pending(s)
  BY <1>1 DEF ups, pendings, alive
<1>8. Chan!Settle(s, d)
  BY <1>2, <1>5, <1>6, <1>7 DEF Chan!Settle, pendings, ups
<1> QED BY <1>3, <1>8 DEF Chan!CNext, Chan!Serve

LEMMA StepRestart ==
  ASSUME IInv, NEW s \in Senders, BootSender(s) \/ WatchStart(s)
  PROVE  [Chan!CNext]_(Chan!cvars)
<1>0. TypeOK /\ OneThreadPerSender
  BY DEF IInv
<1>1. /\ thread[s] = "dead" /\ thread'[s] \in {"idle", "dead"}
      /\ sender_queue' = sender_queue /\ delivered' = delivered
  BY <1>0 DEF BootSender, WatchStart, OneThreadPerSender, TypeOK
<1>2. Pending(s)' = Pending(s)
  BY <1>1 DEF Pending
<1>3. \A r \in Senders : r # s => Channel(r)' = Channel(r)
  BY <1>0, ChannelOfOthers
<1>4. pendings' = pendings /\ ups' = [ups EXCEPT ![s] = alive(s)']
  BY <1>2, <1>3, OneChannel DEF pendings
<1>5. CASE thread'[s] = "idle"
  <2>1. ups' = [ups EXCEPT ![s] = TRUE] /\ ~ups[s]
    BY <1>1, <1>4, <1>5 DEF ups, alive
  <2>2. Chan!Restart(s)
    BY <1>1, <1>4, <2>1 DEF Chan!Restart, pendings, ups
  <2> QED BY <2>2 DEF Chan!CNext
<1>6. CASE thread'[s] = "dead"
  <2>1. ups' = ups
    BY <1>1, <1>4, <1>6 DEF ups, alive
  <2> QED BY <1>1, <1>4, <2>1 DEF Chan!cvars, pendings, ups
<1> QED BY <1>1, <1>5, <1>6

LEMMA StepPurge ==
  ASSUME IInv, NEW s \in Senders, WatchClear(s)
  PROVE  Chan!CNext
<1>0. TypeOK
  BY DEF IInv
<1>1. /\ thread[s] = "dead" /\ thread' = thread
      /\ sender_queue'[s] = <<>> /\ delivered' = delivered
  BY <1>0 DEF WatchClear, alive, TypeOK
<1>2. Pending(s)' = {}
  BY <1>1, PendingClear
<1>3. \A r \in Senders : r # s => Channel(r)' = Channel(r)
  BY <1>0, ChannelOfOthers
<1>4. pendings' = [pendings EXCEPT ![s] = {}]
  BY <1>2, <1>3, OneChannel
<1>5. ups' = ups /\ ~ups[s]
  BY <1>1 DEF ups, alive
<1>6. Chan!Purge(s)
  BY <1>1, <1>4, <1>5 DEF Chan!Purge, pendings, ups
<1> QED BY <1>6 DEF Chan!CNext

LEMMA StepStutter ==
  ASSUME IInv,
         \/ BootWatchdog
         \/ RunGet
         \/ WatchSleep
         \/ \E b \in Batches : Post(b)
         \/ UNCHANGED vars
         \/ SendOneData /\ Head(batch).to \notin Senders
         \/ \E s \in Senders : WatchAlive(s) \/ SenderGet(s)
  PROVE  UNCHANGED Chan!cvars
<1>0. TypeOK
  BY DEF IInv
<1>1. ASSUME NEW s \in Senders, WatchAlive(s)
      PROVE  pendings' = pendings /\ ups' = ups /\ delivered' = delivered
  <2>1. \A r \in Senders : Channel(r)' = Channel(r)
    BY <1>1 DEF WatchAlive, Channel
  <2> QED BY <1>1, <2>1, NoChannel DEF WatchAlive
<1>2. ASSUME NEW s \in Senders, SenderGet(s)
      PROVE  pendings' = pendings /\ ups' = ups /\ delivered' = delivered
  <2>1. Pending(s)' = Pending(s) /\ delivered' = delivered
    BY <1>0, <1>2, PendingGet DEF SenderGet
  <2>2. alive(s)' /\ alive(s)
    BY <1>0, <1>2 DEF SenderGet, alive, TypeOK
  <2>3. \A r \in Senders : r # s => Channel(r)' = Channel(r)
    BY <1>0, <1>2, ChannelOfOthers
  <2>4. pendings' = pendings /\ ups' = [ups EXCEPT ![s] = alive(s)']
    BY <2>1, <2>3, OneChannel DEF pendings
  <2> QED BY <2>1, <2>2, <2>4 DEF ups
<1>3. CASE \/ BootWatchdog
           \/ RunGet
           \/ WatchSleep
           \/ \E b \in Batches : Post(b)
           \/ UNCHANGED vars
           \/ SendOneData /\ Head(batch).to \notin Senders
  <2>1. delivered' = delivered
    BY <1>3
    DEF BootWatchdog, RunGet, WatchSleep, Post, SendOneData, vars
  <2>2. \A r \in Senders : Channel(r)' = Channel(r)
    BY <1>0, <1>3, ChannelOfAll
  <2> QED BY <2>1, <2>2, NoChannel DEF Chan!cvars, pendings, ups
<1> QED BY <1>1, <1>2, <1>3 DEF Chan!cvars, pendings, ups

LEMMA StepChannel == IInv /\ [Next]_vars => [Chan!CNext]_(Chan!cvars)
<1> SUFFICES ASSUME IInv, [Next]_vars PROVE [Chan!CNext]_(Chan!cvars)
  OBVIOUS
<1>1. CASE SendOneData
  BY <1>1, StepAccept, StepStutter
<1>2. CASE UNCHANGED vars
  BY <1>2, StepStutter
<1>3. CASE Next
  BY <1>1, <1>3, StepSettle, StepRestart, StepPurge, StepStutter
  DEF Next, Boot, Run, Watch, SendData
<1> QED BY <1>2, <1>3

LEMMA InitChannel == Init => Chan!CInit
<1> SUFFICES ASSUME Init PROVE Chan!CInit
  OBVIOUS
<1>1. DOMAIN <<>> = {}
  OBVIOUS
<1>2. \A s \in Senders : Pending(s) = {}
  BY <1>1 DEF Init, Pending
<1>3. \A s \in Senders : alive(s) = FALSE
  BY DEF Init, alive
<1>4. pendings = [s \in Senders |-> {}]
  BY <1>2 DEF pendings
<1>5. ups = [s \in Senders |-> FALSE]
  BY <1>3 DEF ups
<1> QED BY <1>4, <1>5 DEF Init, Chan!CInit, pendings, ups

\* The Dispatcher implements a lossy FIFO channel per sender.
THEOREM Implementation == Spec => ImplementsChannels
BY InitChannel, StepChannel, Invariance, PTL
DEF Spec, ImplementsChannels, Chan!CSpec

-----------------------------------------------------------------------------
(* VirtOperator: the constructors.                                         *)

Opening == {"open", "assign"}
Before == {"new", "lock", "open"}

VirtTypeOK ==
  /\ doing \in [Operators -> Before \union {"assign", "ready", "reopen", "reassign"}]
  /\ opened \in Nat /\ first \in Nat

\* The lock is held by the object that is opening, and by no other.
HolderOpens == \A i \in Operators : (doing[i] \in Opening) <=> (virlock = i)

\* While there is no connection nobody has got past the constructor; an object
\* that is about to open has the lock and so still finds none.
NoneYet == virt_conn = NoConn => first = 0 /\ \A i \in Operators : doing[i] \in Before
OpensFirst == \A i \in Operators : doing[i] = "open" => virt_conn = NoConn

VirtInv == VirtTypeOK /\ HolderOpens /\ NoneYet /\ OpensFirst /\ OneConnection

LEMMA VirtInit_Inv == VirtInit => VirtInv
  BY VirtAssumption DEF VirtInit, VirtInv, VirtTypeOK, HolderOpens, NoneYet, OpensFirst, OneConnection,
     Opening, Before, NoConn, Nobody

\* An object that moves between two places outside the lock, with no connection made.
LEMMA Moves ==
  ASSUME VirtInv, NEW i \in Operators, NEW a, NEW b, Go(i, a, b),
         UNCHANGED <<virt_conn, virlock, opened, first>>,
         a \notin Opening, b \in {"lock", "ready", "reopen"},
         b = "lock" \/ virt_conn # NoConn
  PROVE  VirtInv'
<1>1. VirtTypeOK'
  BY DEF VirtInv, VirtTypeOK, Go, Before
<1>2. HolderOpens'
  BY DEF VirtInv, VirtTypeOK, HolderOpens, Go, Opening
<1>3. NoneYet' /\ OpensFirst'
  BY DEF VirtInv, VirtTypeOK, NoneYet, OpensFirst, Go, Before
<1> QED
  BY <1>1, <1>2, <1>3 DEF VirtInv, OneConnection

LEMMA VirtNext_Inv == VirtInv /\ [VirtNext]_virtVars => VirtInv'
<1> SUFFICES ASSUME VirtInv, [VirtNext]_virtVars PROVE VirtInv'
  OBVIOUS
<1>1. CASE Stop \/ Restart \/ UNCHANGED virtVars
  <2>1. UNCHANGED <<virt_conn, doing, virlock, opened, first>>
    BY <1>1 DEF Stop, Restart, virtVars
  <2> QED
    BY <2>1 DEF VirtInv, VirtTypeOK, HolderOpens, NoneYet, OpensFirst, OneConnection
<1>2. ASSUME NEW i \in Operators, Operator(i) PROVE VirtInv'
  <2> USE DEF Opening, Before
  <2>1. CASE Construct(i)
    BY <2>1, Moves DEF Construct, Libvirtd
  <2>2. CASE Acquire(i)
    <3>1. CASE virt_conn = NoConn
      <4>1. Go(i, "lock", "open") /\ virlock = Nobody /\ virlock' = i
            /\ UNCHANGED <<virt_conn, opened, first>>
        BY <2>2, <3>1 DEF Acquire, Libvirtd
      <4>2. VirtTypeOK'
        BY <4>1 DEF VirtInv, VirtTypeOK, Go
      <4>3. HolderOpens'
        BY <4>1, VirtAssumption DEF VirtInv, VirtTypeOK, HolderOpens, Go, Nobody
      <4>4. NoneYet' /\ OpensFirst'
        BY <4>1, <3>1 DEF VirtInv, VirtTypeOK, NoneYet, OpensFirst, Go
      <4> QED
        BY <4>1, <4>2, <4>3, <4>4 DEF VirtInv, OneConnection
    <3>2. CASE virt_conn # NoConn
      BY <2>2, <3>2, Moves DEF Acquire, Libvirtd
    <3> QED
      BY <3>1, <3>2
  <2>3. CASE Open(i)
    <3>1. Go(i, "open", "assign") /\ opened' = opened + 1 /\ virt_conn' = opened + 1
          /\ first' = first + 1 /\ UNCHANGED virlock
      BY <2>3 DEF Open, OpenNew
    <3>2. virt_conn = NoConn /\ first = 0
      BY <3>1 DEF VirtInv, OpensFirst, NoneYet, Go
    <3>3. virt_conn' # NoConn
      BY <3>1 DEF VirtInv, VirtTypeOK, NoConn
    <3>4. VirtTypeOK' /\ OneConnection'
      BY <3>1, <3>2 DEF VirtInv, VirtTypeOK, OneConnection, Go
    <3>5. HolderOpens'
      BY <3>1 DEF VirtInv, VirtTypeOK, HolderOpens, Go
    <3>6. OpensFirst'
      BY <3>1, <3>5 DEF VirtInv, VirtTypeOK, HolderOpens, OpensFirst, Go
    <3> QED
      BY <3>3, <3>4, <3>5, <3>6 DEF VirtInv, NoneYet
  <2>4. CASE OpenRaises(i)
    <3>1. Go(i, "open", "new") /\ virlock' = Nobody /\ UNCHANGED <<virt_conn, opened, first>>
      BY <2>4 DEF OpenRaises, Libvirtd
    <3>2. VirtTypeOK' /\ OneConnection'
      BY <3>1 DEF VirtInv, VirtTypeOK, OneConnection, Go
    <3>3. HolderOpens'
      BY <3>1, VirtAssumption DEF VirtInv, VirtTypeOK, HolderOpens, Go, Nobody
    <3>4. NoneYet' /\ OpensFirst'
      BY <3>1 DEF VirtInv, VirtTypeOK, NoneYet, OpensFirst, Go
    <3> QED
      BY <3>2, <3>3, <3>4 DEF VirtInv
  <2>5. CASE Assign(i)
    <3>1. UNCHANGED <<virt_conn, opened, first>>
      BY <2>5 DEF Assign, Libvirtd
    <3>2. virt_conn # NoConn
      BY <2>5 DEF Assign, Go, VirtInv, NoneYet
    <3>3. CASE Go(i, "assign", "ready") /\ virlock' = Nobody
      <4>1. VirtTypeOK' /\ OneConnection'
        BY <3>1, <3>3 DEF VirtInv, VirtTypeOK, OneConnection, Go
      <4>2. HolderOpens'
        BY <3>3, VirtAssumption DEF VirtInv, VirtTypeOK, HolderOpens, Go, Nobody
      <4>3. NoneYet' /\ OpensFirst'
        BY <3>1, <3>2, <3>3 DEF VirtInv, VirtTypeOK, NoneYet, OpensFirst, Go
      <4> QED
        BY <4>1, <4>2, <4>3 DEF VirtInv
    <3>4. CASE Go(i, "reassign", "ready") /\ UNCHANGED virlock
      BY <3>1, <3>2, <3>4, Moves
    <3> QED
      BY <2>5, <3>3, <3>4 DEF Assign
  <2>6. CASE CallAnswers(i) \/ CallRaises(i) \/ ReopenRaises(i)
    <3>1. UNCHANGED <<virt_conn, virlock, opened, first>>
      BY <2>6 DEF CallAnswers, CallRaises, ReopenRaises, Libvirtd
    <3>2. Go(i, "ready", "ready") \/ Go(i, "ready", "reopen") \/ Go(i, "reopen", "ready")
      BY <2>6 DEF CallAnswers, CallRaises, ReopenRaises
    <3>3. virt_conn # NoConn
      BY <3>2 DEF Go, VirtInv, NoneYet
    <3> QED
      BY <3>1, <3>2, <3>3, Moves
  <2>7. CASE Reopen(i)
    <3>1. Go(i, "reopen", "reassign") /\ opened' = opened + 1 /\ virt_conn' = opened + 1
          /\ UNCHANGED <<virlock, first>>
      BY <2>7 DEF Reopen, OpenNew
    <3>2. virt_conn # NoConn
      BY <3>1 DEF Go, VirtInv, NoneYet
    <3>3. virt_conn' # NoConn
      BY <3>1 DEF VirtInv, VirtTypeOK, NoConn
    <3>4. VirtTypeOK' /\ OneConnection'
      BY <3>1 DEF VirtInv, VirtTypeOK, OneConnection, Go
    <3>5. HolderOpens'
      BY <3>1 DEF VirtInv, VirtTypeOK, HolderOpens, Go
    <3>6. OpensFirst'
      BY <3>1, <3>2 DEF VirtInv, VirtTypeOK, OpensFirst, Go
    <3> QED
      BY <3>3, <3>4, <3>5, <3>6 DEF VirtInv, NoneYet
  <2> QED
    BY <1>2, <2>1, <2>2, <2>3, <2>4, <2>5, <2>6, <2>7 DEF Operator
<1> QED
  BY <1>1, <1>2 DEF VirtNext

\* The constructors of all objects together open at most one connection: an object
\* that opens holds the lock and has looked again under it, and the objects that
\* replace the connection without the lock exist only once there is one.
THEOREM ConstructorsShare == VirtSpec => []OneConnection
<1>1. VirtInv => OneConnection
  BY DEF VirtInv
<1> QED
  BY VirtInit_Inv, VirtNext_Inv, <1>1, PTL DEF VirtSpec
=============================================================================
