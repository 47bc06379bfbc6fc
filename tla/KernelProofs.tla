---------------------------- MODULE KernelProofs ----------------------------
(***************************************************************************)
(* Proofs about Srcu and LinkSrcu, for any number of readers, writers and   *)
(* syncers.  srcu.c: no use after free, no torn read, one owner for every   *)
(* object.  link_srcu.c: a walk of the list goes through memory that is not *)
(* given back, and sees one element, none older than an earlier walk saw.   *)
(***************************************************************************)
EXTENDS Srcu, TLAPS, LinkSrcu

USE SrcuAssumption

\* What a step of thread t does to the program counters.
LEMMA GotoView ==
  ASSUME TypeOK, NEW t \in Threads, NEW from, NEW to, Goto(t, from, to)
  PROVE  /\ pc[t] = from /\ pc'[t] = to
         /\ \A u \in Threads : u # t => pc'[u] = pc[u]
BY DEF Goto, TypeOK

Labels == {"top", "deref", "x", "y", "z", "check", "lock", "fill", "swap",
           "publish", "sync", "wait", "free", "done"}

LEMMA GotoType ==
  ASSUME TypeOK, NEW t \in Threads, NEW from, NEW to \in Labels, Goto(t, from, to)
  PROVE  pc' \in [Threads -> Labels]
BY DEF Goto, TypeOK, Labels

LEMMA TypeInit == Init => TypeOK
<1> SUFFICES ASSUME Init PROVE TypeOK
  OBVIOUS
<1>1. 0 \in Value /\ 1 % IntMod \in Value
  BY DEF Value
<1>2. Zeros \in [1..3 -> Value]
  BY <1>1 DEF Zeros
<1> QED BY <1>1, <1>2 DEF Init, TypeOK, Threads, Waiters

LEMMA TypeNext == TypeOK /\ [Next]_vars => TypeOK'
<1> SUFFICES ASSUME TypeOK, [Next]_vars PROVE TypeOK'
  OBVIOUS
<1> USE DEF TypeOK
<1>1. ASSUME NEW r \in Readers, Reader(r) PROVE TypeOK'
  <2>0. r \in Threads
    BY DEF Threads
  <2>1. CASE ReadLock(r)
    <3>1. pc' \in [Threads -> Labels]
      BY <2>0, <2>1, GotoType DEF ReadLock, Enter, Labels
    <3> QED BY <2>1, <3>1 DEF ReadLock, Labels
  <2>2. CASE Dereference(r)
    <3>1. pc' \in [Threads -> Labels]
      BY <2>0, <2>2, GotoType DEF Dereference, Labels
    <3>2. node' \in [Readers \cup Writers -> Nodes]
      BY <2>2 DEF Dereference
    <3> QED BY <2>2, <3>1, <3>2 DEF Dereference, Labels
  <2>3. CASE ReadField(r)
    <3>0. PICK i \in 1..3 :
            /\ Goto(r, <<"x", "y", "z">>[i], <<"y", "z", "check">>[i])
            /\ regs' = [regs EXCEPT ![r][i] = fields[node[r]][i]]
      BY <2>3 DEF ReadField
    <3>1. pc' \in [Threads -> Labels]
      BY <2>0, <3>0, GotoType DEF Labels
    <3> QED BY <2>3, <3>0, <3>1 DEF ReadField, Labels
  <2>4. CASE ReadUnlock(r)
    <3>1. pc' \in [Threads -> Labels]
      BY <2>0, <2>4, GotoType DEF ReadUnlock, Labels
    <3>2. pending' \in [Waiters -> SUBSET Readers]
      BY <2>4 DEF ReadUnlock
    <3> QED BY <2>4, <3>1, <3>2 DEF ReadUnlock, Labels
  <2>5. CASE Leave(r)
    <3>1. pc' \in [Threads -> Labels]
      BY <2>0, <2>5, GotoType DEF Leave, Labels
    <3> QED BY <2>5, <3>1 DEF Leave, Labels
  <2> QED BY <1>1, <2>1, <2>2, <2>3, <2>4, <2>5 DEF Reader
<1>2. ASSUME NEW w \in Writers, Writer(w) PROVE TypeOK'
  <2>0. w \in Threads /\ w \in Waiters
    BY DEF Threads, Waiters
  <2>1. CASE Allocate(w)
    <3>0. PICK n \in Nodes \ allocated :
            /\ allocated' = allocated \cup {n}
            /\ node' = [node EXCEPT ![w] = n]
            /\ fields' = [fields EXCEPT ![n] = Zeros]
      BY <2>1 DEF Allocate
    <3>1. pc' \in [Threads -> Labels]
      BY <2>0, <2>1, GotoType DEF Allocate, Enter, Labels
    <3>2. Zeros \in [1..3 -> Value]
      BY DEF Zeros, Value
    <3>3. fields' \in [Nodes -> [1..3 -> Value]]
      BY <3>0, <3>2
    <3>4. allocated' \subseteq Nodes /\ node' \in [Readers \cup Writers -> Nodes]
      BY <3>0
    <3> QED BY <2>1, <3>1, <3>3, <3>4 DEF Allocate, Labels
  <2>2. CASE SpinLock(w)
    <3>1. pc' \in [Threads -> Labels]
      BY <2>0, <2>2, GotoType DEF SpinLock, Labels
    <3> QED BY <2>2, <3>1 DEF SpinLock, Labels
  <2>3. CASE Fill(w)
    <3>1. pc' \in [Threads -> Labels]
      BY <2>0, <2>3, GotoType DEF Fill, Labels
    <3>2. base' \in Value
      BY <2>3 DEF Fill, Value
    <3>3. fields' \in [Nodes -> [1..3 -> Value]]
      BY <2>3, <3>2 DEF Fill
    <3> QED BY <2>3, <3>1, <3>2, <3>3 DEF Fill, Labels
  <2>8. CASE TakeOld(w)
    <3>1. pc' \in [Threads -> Labels]
      BY <2>0, <2>8, GotoType DEF TakeOld, Labels
    <3>2. oldp' \in [Writers -> Nodes]
      BY <2>8 DEF TakeOld
    <3> QED BY <2>8, <3>1, <3>2 DEF TakeOld, Labels
  <2>4. CASE Publish(w)
    <3>1. pc' \in [Threads -> Labels]
      BY <2>0, <2>4, GotoType DEF Publish, Labels
    <3>2. node' \in [Readers \cup Writers -> Nodes] /\ p_scomm' \in Nodes
      BY <2>4 DEF Publish
    <3>3. comms_lock' \subseteq Writers
      BY <2>4 DEF Publish
    <3> QED BY <2>4, <3>1, <3>2, <3>3 DEF Publish, Labels
  <2>5. CASE Free(w)
    <3>1. pc' \in [Threads -> Labels]
      BY <2>0, <2>5, GotoType DEF Free, Labels
    <3>2. allocated' \subseteq Nodes
      BY <2>5 DEF Free
    <3> QED BY <2>5, <3>1, <3>2 DEF Free, Labels
  <2>6. CASE Leave(w)
    <3>1. pc' \in [Threads -> Labels]
      BY <2>0, <2>6, GotoType DEF Leave, Labels
    <3> QED BY <2>6, <3>1 DEF Leave, Labels
  <2>7. CASE SyncStart(w) \/ SyncEnd(w)
    <3>1. pc' \in [Threads -> Labels]
      BY <2>0, <2>7, GotoType DEF SyncStart, SyncEnd, Enter, Labels
    <3>2. pending' \in [Waiters -> SUBSET Readers]
      BY <2>7 DEF SyncStart, SyncEnd
    <3> QED BY <2>7, <3>1, <3>2 DEF SyncStart, SyncEnd, Labels
  <2> QED BY <1>2, <2>1, <2>2, <2>3, <2>4, <2>5, <2>6, <2>7, <2>8 DEF Writer
<1>3. ASSUME NEW s \in Syncers, Syncer(s) PROVE TypeOK'
  <2>0. s \in Threads /\ s \in Waiters /\ s \notin Writers
    BY DEF Threads, Waiters
  <2>1. pc' \in [Threads -> Labels]
    BY <1>3, <2>0, GotoType DEF Syncer, SyncStart, SyncEnd, Leave, Enter, Labels
  <2>2. pending' \in [Waiters -> SUBSET Readers]
    BY <1>3 DEF Syncer, SyncStart, SyncEnd, Leave
  <2> QED BY <1>3, <2>1, <2>2 DEF Syncer, SyncStart, SyncEnd, Leave, Labels
<1>4. CASE Unload \/ Stop
  <2>1. should_stop' \subseteq Threads /\ unload' \in {"no", "running", "done"}
    BY <1>4 DEF Unload, Stop, KthreadStop, Unloaded
  <2> QED BY <1>4, <2>1 DEF Unload, Stop, KthreadStop, Unloaded
<1>5. CASE UNCHANGED vars
  BY <1>5 DEF vars
<1> QED BY <1>1, <1>2, <1>3, <1>4, <1>5 DEF Next

\* Every variable keeps its type.
THEOREM TypeCorrect == Spec => []TypeOK
BY TypeInit, TypeNext, PTL DEF Spec

-----------------------------------------------------------------------------
(* A step of a reader leaves the writers as they are.                       *)

LEMMA ReaderFrame ==
  ASSUME TypeOK, NEW r \in Readers, Reader(r)
  PROVE  /\ \A t \in Threads : t # r => pc'[t] = pc[t]
         /\ \A t \in Readers \cup Writers : t # r => node'[t] = node[t]
         /\ \A q \in Readers : q # r => regs'[q] = regs[q]
         /\ \A q \in Readers : q # r => (q \in inside' <=> q \in inside)
         /\ \A q \in Readers, w \in Writers :
              q # r => (q \in pending'[w] <=> q \in pending[w])
         /\ UNCHANGED <<p_scomm, allocated, fields, base, comms_lock, oldp>>
<1>0. r \in Threads /\ Writers \subseteq Waiters
  BY DEF Threads, Waiters
<1>1. CASE ReadLock(r)
  BY <1>0, <1>1, GotoView DEF ReadLock, Enter
<1>2. CASE Dereference(r)
  BY <1>0, <1>2, GotoView DEF Dereference, TypeOK
<1>3. CASE ReadField(r)
  <2>1. \A q \in Readers : q # r => regs'[q] = regs[q]
    BY <1>3 DEF ReadField, TypeOK
  <2> QED BY <1>0, <1>3, <2>1, GotoView DEF ReadField
<1>4. CASE ReadUnlock(r)
  BY <1>0, <1>4, GotoView DEF ReadUnlock, TypeOK
<1>5. CASE Leave(r)
  BY <1>0, <1>5, GotoView DEF Leave
<1> QED BY <1>1, <1>2, <1>3, <1>4, <1>5 DEF Reader

\* What Protected and InsideOK say of one reader.
ProtectedReader(r) ==
  Reading(r) =>
    /\ r \in inside
    /\ \/ node[r] = p_scomm
       \/ \E w \in Writers :
            /\ node[w] = node[r]
            /\ pc[w] = "sync" \/ (pc[w] = "wait" /\ r \in pending[w])

LoadedReader(r) == \A i \in 1..3 : Loaded(r, i) => regs[r][i] = fields[node[r]][i]

InsideReader(r) == r \in inside <=> pc[r] = "deref" \/ Reading(r)

LEMMA ReaderPreserves ==
  ASSUME IInv, NEW r \in Readers, Reader(r)
  PROVE  IInv'
<1> USE DEF IInv
<1>0. Writers \subseteq Threads /\ Readers \subseteq Threads
      /\ \A w \in Writers : w # r
  BY DEF Threads, Waiters
<1>1. TypeOK'
  BY TypeNext DEF Next
<1>2. SoleOwner' /\ Locked'
  BY <1>0, ReaderFrame DEF SoleOwner, Locked, Holding, Preparing, Retiring
<1>3. ASSUME NEW q \in Readers, q # r
      PROVE  ProtectedReader(q)' /\ LoadedReader(q)' /\ InsideReader(q)'
  <2>1. pc'[q] = pc[q] /\ node'[q] = node[q] /\ regs'[q] = regs[q]
        /\ (q \in inside' <=> q \in inside)
    BY <1>0, <1>3, ReaderFrame
  <2>2. p_scomm' = p_scomm /\ fields' = fields
        /\ \A w \in Writers :
             /\ pc'[w] = pc[w] /\ node'[w] = node[w]
             /\ q \in pending'[w] <=> q \in pending[w]
    BY <1>0, <1>3, ReaderFrame
  <2>3. ProtectedReader(q) /\ LoadedReader(q) /\ InsideReader(q)
    BY DEF Protected, ProtectedReader, WholeObjects, LoadedReader, InsideOK,
           InsideReader
  <2>4. ProtectedReader(q)'
    BY <2>1, <2>2, <2>3 DEF ProtectedReader, Reading
  <2>5. LoadedReader(q)'
    BY <2>1, <2>2, <2>3 DEF LoadedReader, Loaded
  <2>6. InsideReader(q)'
    BY <2>1, <2>3 DEF InsideReader, Reading
  <2> QED BY <2>4, <2>5, <2>6
<1>4. ProtectedReader(r) /\ LoadedReader(r) /\ InsideReader(r)
  BY DEF Protected, ProtectedReader, WholeObjects, LoadedReader, InsideOK,
         InsideReader
<1>5. p_scomm' = p_scomm /\ fields' = fields
      /\ \A w \in Writers : pc'[w] = pc[w] /\ node'[w] = node[w]
  BY <1>0, ReaderFrame
<1>6. ProtectedReader(r)' /\ LoadedReader(r)' /\ InsideReader(r)'
  <2>1. CASE ReadLock(r)
    <3>1. pc'[r] = "deref" /\ r \in inside'
      BY <1>0, <2>1, GotoView DEF ReadLock, Enter
    <3> QED BY <3>1 DEF ProtectedReader, LoadedReader, InsideReader, Reading, Loaded
  <2>2. CASE Dereference(r)
    <3>1. pc[r] = "deref" /\ pc'[r] = "x" /\ inside' = inside
      BY <1>0, <2>2, GotoView DEF Dereference
    <3>2. node'[r] = p_scomm
      BY <2>2 DEF Dereference, TypeOK
    <3> QED BY <1>4, <1>5, <3>1, <3>2
            DEF ProtectedReader, LoadedReader, InsideReader, Reading, Loaded
  <2>3. CASE ReadField(r)
    <3>1. PICK i \in 1..3 :
            /\ Goto(r, <<"x", "y", "z">>[i], <<"y", "z", "check">>[i])
            /\ regs' = [regs EXCEPT ![r][i] = fields[node[r]][i]]
      BY <2>3 DEF ReadField
    <3>2. pc[r] = <<"x", "y", "z">>[i] /\ pc'[r] = <<"y", "z", "check">>[i]
      BY <1>0, <3>1, GotoView
    <3>3. inside' = inside /\ node' = node /\ pending' = pending
      BY <2>3 DEF ReadField
    <3>4. regs'[r][i] = fields[node[r]][i]
          /\ \A j \in 1..3 : j # i => regs'[r][j] = regs[r][j]
      BY <3>1 DEF TypeOK
    <3>5. i = 1 \/ i = 2 \/ i = 3
      OBVIOUS
    <3>6. LoadedReader(r)'
      BY <1>4, <1>5, <3>2, <3>3, <3>4, <3>5 DEF LoadedReader, Loaded
    <3>7. Reading(r) /\ Reading(r)'
      BY <3>2, <3>5 DEF Reading
    <3>8. ProtectedReader(r)' /\ InsideReader(r)'
      BY <1>4, <1>5, <3>3, <3>7 DEF ProtectedReader, InsideReader
    <3> QED BY <3>6, <3>8
  <2>4. CASE ReadUnlock(r)
    <3>1. pc'[r] = "top" /\ r \notin inside'
      BY <1>0, <2>4, GotoView DEF ReadUnlock
    <3> QED BY <3>1 DEF ProtectedReader, LoadedReader, InsideReader, Reading, Loaded
  <2>5. CASE Leave(r)
    <3>1. pc[r] = "top" /\ pc'[r] = "done" /\ inside' = inside
      BY <1>0, <2>5, GotoView DEF Leave
    <3> QED BY <1>4, <3>1
            DEF ProtectedReader, LoadedReader, InsideReader, Reading, Loaded
  <2> QED BY <2>1, <2>2, <2>3, <2>4, <2>5 DEF Reader
<1>7. \A q \in Readers : ProtectedReader(q)' /\ LoadedReader(q)' /\ InsideReader(q)'
  BY <1>3, <1>6
<1>8. Protected' /\ InsideOK'
  BY <1>7 DEF Protected, ProtectedReader, InsideOK, InsideReader
<1>9. WholeObjects'
  BY <1>5, <1>7 DEF WholeObjects, LoadedReader, Uniform, Retiring
<1> QED BY <1>1, <1>2, <1>8, <1>9

-----------------------------------------------------------------------------
(* A step of a writer leaves the readers where they are.                    *)

LEMMA WriterFrame ==
  ASSUME TypeOK, NEW w \in Writers, Writer(w)
  PROVE  /\ \A t \in Threads : t # w => pc'[t] = pc[t]
         /\ \A t \in Readers \cup Writers : t # w => node'[t] = node[t]
         /\ \A v \in Writers : v # w => pending'[v] = pending[v]
         /\ regs' = regs /\ inside' = inside
         /\ \A v \in Writers : v # w => oldp'[v] = oldp[v]
<1>0. w \in Threads
  BY DEF Threads, Waiters
<1>1. CASE Allocate(w)
  BY <1>0, <1>1, GotoView DEF Allocate, Enter, TypeOK
<1>2. CASE SpinLock(w) \/ Fill(w) \/ Free(w) \/ Leave(w)
  BY <1>0, <1>2, GotoView DEF SpinLock, Fill, Free, Leave
<1>6. CASE TakeOld(w)
  BY <1>0, <1>6, GotoView DEF TakeOld, TypeOK
<1>3. CASE Publish(w)
  BY <1>0, <1>3, GotoView DEF Publish, TypeOK
<1>4. CASE SyncStart(w)
  BY <1>0, <1>4, GotoView DEF SyncStart, Enter, TypeOK
<1>5. CASE SyncEnd(w)
  BY <1>0, <1>5, GotoView DEF SyncEnd
<1> QED BY <1>1, <1>2, <1>3, <1>4, <1>5, <1>6 DEF Writer

LEMMA WriterPreserves ==
  ASSUME IInv, NEW w \in Writers, Writer(w)
  PROVE  IInv'
<1> USE DEF IInv
<1>0. w \in Threads /\ Writers \subseteq Threads /\ Readers \subseteq Threads
      /\ w \notin Readers /\ w \in Readers \cup Writers /\ w \notin Syncers
      /\ w \in Waiters /\ Writers \subseteq Waiters
  BY DEF Threads, Waiters
<1>1. TypeOK'
  BY TypeNext DEF Next
<1>2. /\ \A r \in Readers : pc'[r] = pc[r] /\ node'[r] = node[r]
      /\ \A v \in Writers : v # w => pc'[v] = pc[v] /\ node'[v] = node[v]
                                     /\ pending'[v] = pending[v]
                                     /\ oldp'[v] = oldp[v]
      /\ regs' = regs /\ inside' = inside
  BY <1>0, WriterFrame
<1>3. InsideOK'
  BY <1>2 DEF InsideOK, Reading
<1> DEFINE Good == SoleOwner' /\ Locked' /\ Protected' /\ WholeObjects'
<1>4. ASSUME Allocate(w) PROVE Good
  <2>0. PICK n \in Nodes \ allocated :
          /\ allocated' = allocated \cup {n}
          /\ node' = [node EXCEPT ![w] = n]
          /\ fields' = [fields EXCEPT ![n] = Zeros]
    BY <1>4 DEF Allocate
  <2>1. pc[w] = "top" /\ pc'[w] = "lock" /\ node'[w] = n
    BY <1>0, <1>4, <2>0, GotoView DEF Allocate, Enter, TypeOK
  <2>2. p_scomm' = p_scomm /\ comms_lock' = comms_lock /\ pending' = pending
        /\ oldp' = oldp
    BY <1>4 DEF Allocate
  <2>3. SoleOwner'
    BY <1>2, <2>0, <2>1, <2>2 DEF SoleOwner, Holding, Preparing, Retiring
  <2>4. Locked'
    BY <1>2, <2>1, <2>2 DEF Locked
  <2>5. Protected'
    BY <1>2, <2>1, <2>2 DEF Protected, Reading
  <2>6. \A m \in Nodes : m # n => fields'[m] = fields[m]
    BY <2>0 DEF TypeOK
  <2>7. ASSUME NEW r \in Readers, NEW i \in 1..3, Loaded(r, i)
        PROVE  node[r] \in Nodes /\ node[r] # n
    <3>1. node[r] \in allocated
      BY <2>7 DEF Protected, SoleOwner, Reading, Loaded, Holding, Retiring
    <3> QED BY <2>0, <3>1 DEF TypeOK
  <2>8. p_scomm # n /\ \A v \in Writers : Holding(v) => node[v] \in Nodes /\ node[v] # n
    BY <2>0 DEF SoleOwner, TypeOK
  <2>9. WholeObjects'
    <3>1. Uniform(p_scomm)'
      BY <2>2, <2>6, <2>8 DEF WholeObjects, Uniform, TypeOK
    <3>2. ASSUME NEW v \in Writers, (Retiring(v) \/ pc[v] \in {"swap", "publish"})'
          PROVE  Uniform(node[v])'
      <4>1. v # w /\ Holding(v) /\ (Retiring(v) \/ pc[v] \in {"swap", "publish"})
        BY <1>2, <2>1, <3>2 DEF Holding, Retiring, Preparing
      <4>2. node'[v] = node[v] /\ fields'[node[v]] = fields[node[v]]
        BY <1>2, <2>6, <2>8, <4>1
      <4> QED BY <4>1, <4>2 DEF WholeObjects, Uniform
    <3>3. \A r \in Readers, i \in 1..3 :
            Loaded(r, i)' => regs'[r][i] = fields'[node'[r]][i]
      BY <1>2, <2>6, <2>7 DEF WholeObjects, Loaded
    <3> QED BY <3>1, <3>2, <3>3 DEF WholeObjects
  <2> QED BY <2>3, <2>4, <2>5, <2>9
<1>5. ASSUME SpinLock(w) PROVE Good
  <2>1. pc[w] = "lock" /\ pc'[w] = "fill" /\ comms_lock = {} /\ comms_lock' = {w}
    BY <1>0, <1>5, GotoView DEF SpinLock
  <2>2. UNCHANGED <<p_scomm, allocated, fields, node, oldp, pending>>
    BY <1>5 DEF SpinLock
  <2>3. SoleOwner'
    BY <1>2, <2>1, <2>2 DEF SoleOwner, Holding, Preparing, Retiring
  <2>4. Locked'
    BY <1>2, <2>1 DEF Locked
  <2>5. Protected'
    BY <1>2, <2>1, <2>2 DEF Protected, Reading
  <2>6. WholeObjects'
    BY <1>2, <2>1, <2>2 DEF WholeObjects, Uniform, Retiring, Loaded
  <2> QED BY <2>3, <2>4, <2>5, <2>6
<1>6. ASSUME Fill(w) PROVE Good
  <2>1. pc[w] = "fill" /\ pc'[w] = "swap"
    BY <1>0, <1>6, GotoView DEF Fill
  <2>2. UNCHANGED <<p_scomm, allocated, comms_lock, node, oldp, pending>>
        /\ fields' = [fields EXCEPT ![node[w]] = [i \in 1..3 |-> base']]
    BY <1>6 DEF Fill
  <2>3. SoleOwner'
    BY <1>2, <2>1, <2>2 DEF SoleOwner, Holding, Preparing, Retiring
  <2>4. Locked'
    BY <1>2, <2>1, <2>2 DEF Locked
  <2>5. Protected'
    BY <1>2, <2>1, <2>2 DEF Protected, Reading
  <2>6. \A m \in Nodes : m # node[w] => fields'[m] = fields[m]
    BY <2>2 DEF TypeOK
  <2>7. Uniform(node[w])'
    BY <1>0, <2>2 DEF Uniform, TypeOK
  <2>8. Holding(w) /\ p_scomm # node[w]
    BY <2>1 DEF SoleOwner, Holding, Preparing
  <2>9. WholeObjects'
    <3>1. Uniform(p_scomm)'
      BY <2>2, <2>6, <2>8 DEF WholeObjects, Uniform, TypeOK
    <3>2. ASSUME NEW v \in Writers, v # w, Retiring(v) \/ pc[v] \in {"swap", "publish"}
          PROVE  Uniform(node[v])'
      <4>1. Holding(v) /\ node[v] # node[w]
        BY <2>8, <3>2 DEF SoleOwner, Holding, Preparing
      <4>2. fields'[node[v]] = fields[node[v]]
        BY <2>6, <4>1 DEF TypeOK
      <4> QED BY <2>2, <3>2, <4>2 DEF WholeObjects, Uniform
    <3>3. ASSUME NEW r \in Readers, NEW i \in 1..3, Loaded(r, i)
          PROVE  node[r] # node[w]
      <4>1. Reading(r)
        BY <3>3 DEF Reading, Loaded
      <4>2. CASE node[r] = p_scomm
        BY <2>8, <4>2
      <4>3. ASSUME NEW v \in Writers, node[v] = node[r], pc[v] = "sync" \/ pc[v] = "wait"
            PROVE  node[r] # node[w]
        BY <2>1, <2>8, <4>3 DEF SoleOwner, Holding, Retiring
      <4> QED BY <4>1, <4>2, <4>3 DEF Protected
    <3>4. \A r \in Readers, i \in 1..3 :
            Loaded(r, i)' => regs'[r][i] = fields'[node'[r]][i]
      <4>0. SUFFICES ASSUME NEW r \in Readers, NEW i \in 1..3, Loaded(r, i)'
                     PROVE  regs'[r][i] = fields'[node'[r]][i]
        OBVIOUS
      <4>1. r # w /\ pc'[r] = pc[r] /\ Loaded(r, i)
        BY <1>0, <1>2, <4>0 DEF Loaded
      <4>2. node[r] \in Nodes /\ node[r] # node[w]
        BY <3>3, <4>1 DEF TypeOK
      <4>3. fields'[node[r]] = fields[node[r]]
        BY <2>6, <4>2 DEF TypeOK
      <4>4. regs' = regs /\ node' = node
        BY <1>2, <2>2
      <4>5. regs[r][i] = fields[node[r]][i]
        BY <4>1 DEF WholeObjects
      <4> QED BY <4>3, <4>4, <4>5
    <3>5. \A v \in Writers : (Retiring(v) \/ pc[v] \in {"swap", "publish"})' => Uniform(node[v])'
      BY <1>2, <2>7, <3>2 DEF Retiring
    <3> QED BY <3>1, <3>4, <3>5 DEF WholeObjects
  <2> QED BY <2>3, <2>4, <2>5, <2>9
<1>13. ASSUME TakeOld(w) PROVE Good
  <2>1. pc[w] = "swap" /\ pc'[w] = "publish"
    BY <1>0, <1>13, GotoView DEF TakeOld
  <2>2. UNCHANGED <<p_scomm, allocated, fields, comms_lock, node, pending>>
        /\ oldp'[w] = p_scomm
    BY <1>13 DEF TakeOld, TypeOK
  <2>3. SoleOwner' /\ Locked'
    BY <1>2, <2>1, <2>2 DEF SoleOwner, Locked, Holding, Preparing, Retiring
  <2>4. Protected'
    BY <1>2, <2>1, <2>2 DEF Protected, Reading
  <2>5. WholeObjects'
    BY <1>2, <2>1, <2>2 DEF WholeObjects, Uniform, Retiring, Loaded
  <2> QED BY <2>3, <2>4, <2>5
<1>7. ASSUME Publish(w) PROVE Good
  <2>1. pc[w] = "publish" /\ pc'[w] = "sync" /\ oldp[w] = p_scomm
    BY <1>0, <1>7, GotoView DEF Publish, Locked
  <2>2. UNCHANGED <<allocated, fields, pending>>
        /\ p_scomm' = node[w] /\ node'[w] = p_scomm /\ oldp' = oldp
        /\ comms_lock' = comms_lock \ {w}
    BY <1>0, <1>7, <2>1 DEF Publish, TypeOK
  <2>3. SoleOwner'
    <3>1. p_scomm' \in allocated' /\ node'[w] \in allocated' /\ node'[w] # p_scomm'
      BY <2>1, <2>2 DEF SoleOwner, Holding, Preparing
    <3>2. ASSUME NEW v \in Writers, v # w, Holding(v)'
          PROVE  /\ node'[v] \in allocated' /\ node'[v] # p_scomm'
                 /\ \A u \in Writers \ {v} : Holding(u)' => node'[u] # node'[v]
      <4>1. Holding(v) /\ Holding(w) /\ node'[v] = node[v]
        BY <1>2, <2>1, <3>2 DEF Holding, Preparing, Retiring
      <4>2. node[v] # node[w] /\ node[v] # p_scomm /\ node[v] \in allocated
        BY <3>2, <4>1 DEF SoleOwner
      <4>3. ASSUME NEW u \in Writers \ {v}, Holding(u)' PROVE node'[u] # node'[v]
        <5>1. CASE u = w
          BY <2>2, <4>1, <4>2, <5>1
        <5>2. CASE u # w
          <6>1. Holding(u) /\ node'[u] = node[u]
            BY <1>2, <4>3, <5>2 DEF Holding, Preparing, Retiring
          <6> QED BY <4>1, <4>3, <6>1 DEF SoleOwner
        <5> QED BY <5>1, <5>2
      <4> QED BY <2>2, <4>1, <4>2, <4>3
    <3>3. \A u \in Writers \ {w} : Holding(u)' => node'[u] # node'[w]
      <4> SUFFICES ASSUME NEW u \in Writers \ {w}, Holding(u)' PROVE node'[u] # node'[w]
        OBVIOUS
      <4>1. Holding(u) /\ node'[u] = node[u]
        BY <1>2 DEF Holding, Preparing, Retiring
      <4> QED BY <2>2, <4>1 DEF SoleOwner
    <3>4. ASSUME NEW n \in allocated', n # p_scomm'
          PROVE  \E v \in Writers : Holding(v)' /\ node'[v] = n
      <4>1. CASE n = p_scomm
        BY <2>1, <2>2, <4>1 DEF Holding, Retiring
      <4>2. CASE n # p_scomm
        <5>1. PICK v \in Writers : Holding(v) /\ node[v] = n
          BY <2>2, <3>4, <4>2 DEF SoleOwner
        <5>2. v # w
          BY <2>2, <3>4, <5>1
        <5>3. Holding(v)' /\ node'[v] = n
          BY <1>2, <5>1, <5>2 DEF Holding, Preparing, Retiring
        <5> QED BY <5>3
      <4> QED BY <4>1, <4>2
    <3> QED BY <3>1, <3>2, <3>3, <3>4 DEF SoleOwner
  <2>4. Locked'
    BY <1>2, <2>1, <2>2 DEF Locked
  <2>5. Protected'
    <3> SUFFICES ASSUME NEW r \in Readers, Reading(r)'
                 PROVE  /\ r \in inside
                        /\ \/ node[r] = p_scomm'
                           \/ \E v \in Writers :
                                /\ node'[v] = node[r]
                                /\ \/ pc'[v] = "sync"
                                   \/ pc'[v] = "wait" /\ r \in pending[v]
      BY <1>2, <2>2 DEF Protected
    <3>1. Reading(r)
      BY <1>2 DEF Reading
    <3>2. CASE node[r] = p_scomm
      BY <2>1, <2>2, <3>1, <3>2 DEF Protected
    <3>3. ASSUME NEW v \in Writers, node[v] = node[r],
                 pc[v] = "sync" \/ (pc[v] = "wait" /\ r \in pending[v])
          PROVE  /\ node'[v] = node[r]
                 /\ pc'[v] = "sync" \/ (pc'[v] = "wait" /\ r \in pending[v])
      BY <1>2, <2>1, <3>3
    <3> QED BY <3>1, <3>2, <3>3 DEF Protected
  <2>6. WholeObjects'
    <3>1. Uniform(p_scomm)'
      BY <2>1, <2>2 DEF WholeObjects, Uniform
    <3>2. \A v \in Writers : (Retiring(v) \/ pc[v] \in {"swap", "publish"})' => Uniform(node[v])'
      BY <1>2, <2>2 DEF WholeObjects, Uniform, Retiring
    <3>3. \A r \in Readers, i \in 1..3 :
            Loaded(r, i)' => regs'[r][i] = fields'[node'[r]][i]
      BY <1>2, <2>2 DEF WholeObjects, Loaded
    <3> QED BY <3>1, <3>2, <3>3 DEF WholeObjects
  <2> QED BY <2>3, <2>4, <2>5, <2>6
<1>8. ASSUME SyncStart(w) PROVE Good
  <2>1. pc[w] = "sync" /\ pc'[w] = "wait"
    BY <1>0, <1>8, GotoView DEF SyncStart
  <2>2. UNCHANGED <<p_scomm, allocated, fields, comms_lock, node, oldp>>
        /\ pending'[w] = inside
    BY <1>0, <1>8 DEF SyncStart, TypeOK
  <2>3. SoleOwner' /\ Locked'
    BY <1>2, <2>1, <2>2 DEF SoleOwner, Locked, Holding, Preparing, Retiring
  <2>4. Protected'
    <3> SUFFICES ASSUME NEW r \in Readers, Reading(r)'
                 PROVE  /\ r \in inside
                        /\ \/ node[r] = p_scomm
                           \/ \E v \in Writers :
                                /\ node[v] = node[r]
                                /\ \/ pc'[v] = "sync"
                                   \/ pc'[v] = "wait" /\ r \in pending'[v]
      BY <1>2, <2>2 DEF Protected
    <3>1. Reading(r) /\ r \in inside
      BY <1>2 DEF Reading, Protected
    <3>2. ASSUME NEW v \in Writers, node[v] = node[r],
                 pc[v] = "sync" \/ (pc[v] = "wait" /\ r \in pending[v])
          PROVE  pc'[v] = "sync" \/ (pc'[v] = "wait" /\ r \in pending'[v])
      BY <1>2, <2>1, <2>2, <3>1, <3>2
    <3> QED BY <3>1, <3>2 DEF Protected
  <2>5. WholeObjects'
    BY <1>2, <2>1, <2>2 DEF WholeObjects, Uniform, Retiring, Loaded
  <2> QED BY <2>3, <2>4, <2>5
<1>9. ASSUME SyncEnd(w) PROVE Good
  <2>1. pc[w] = "wait" /\ pc'[w] = "free" /\ pending[w] = {}
    BY <1>0, <1>9, GotoView DEF SyncEnd
  <2>2. UNCHANGED <<p_scomm, allocated, fields, comms_lock, node, oldp, pending>>
    BY <1>9 DEF SyncEnd
  <2>3. SoleOwner' /\ Locked'
    BY <1>2, <2>1, <2>2 DEF SoleOwner, Locked, Holding, Preparing, Retiring
  <2>4. Protected'
    BY <1>2, <2>1, <2>2 DEF Protected, Reading
  <2>5. WholeObjects'
    BY <1>2, <2>1, <2>2 DEF WholeObjects, Uniform, Retiring, Loaded
  <2> QED BY <2>3, <2>4, <2>5
<1>10. ASSUME Free(w) PROVE Good
  <2>1. pc[w] = "free" /\ pc'[w] = "top"
    BY <1>0, <1>10, GotoView DEF Free
  <2>2. UNCHANGED <<p_scomm, fields, comms_lock, node, oldp, pending>>
        /\ allocated' = allocated \ {node[w]}
    BY <1>10 DEF Free
  <2>3. SoleOwner'
    BY <1>2, <2>1, <2>2 DEF SoleOwner, Holding, Preparing, Retiring
  <2>4. Locked'
    BY <1>2, <2>1, <2>2 DEF Locked
  <2>5. Protected'
    BY <1>2, <2>1, <2>2 DEF Protected, Reading
  <2>6. WholeObjects'
    BY <1>2, <2>1, <2>2 DEF WholeObjects, Uniform, Retiring, Loaded
  <2> QED BY <2>3, <2>4, <2>5, <2>6
<1>11. ASSUME Leave(w) PROVE Good
  <2>1. pc[w] = "top" /\ pc'[w] = "done"
    BY <1>0, <1>11, GotoView DEF Leave
  <2>2. UNCHANGED <<p_scomm, allocated, fields, comms_lock, node, oldp, pending>>
    BY <1>11 DEF Leave
  <2>3. SoleOwner' /\ Locked'
    BY <1>2, <2>1, <2>2 DEF SoleOwner, Locked, Holding, Preparing, Retiring
  <2>4. Protected'
    BY <1>2, <2>1, <2>2 DEF Protected, Reading
  <2>5. WholeObjects'
    BY <1>2, <2>1, <2>2 DEF WholeObjects, Uniform, Retiring, Loaded
  <2> QED BY <2>3, <2>4, <2>5
<1>12. Good
  BY <1>4, <1>5, <1>6, <1>7, <1>8, <1>9, <1>10, <1>11, <1>13
  DEF Writer
<1> QED BY <1>1, <1>3, <1>12

-----------------------------------------------------------------------------
(* Syncers and the unloading process touch nothing the invariant is about.  *)

LEMMA OthersPreserve ==
  ASSUME IInv,
         \/ \E s \in Syncers : Syncer(s)
         \/ Unload \/ Stop
         \/ UNCHANGED vars
  PROVE  IInv'
<1> USE DEF IInv
<1>1. TypeOK'
  BY TypeNext DEF Next
<1>2. /\ UNCHANGED <<p_scomm, allocated, fields, comms_lock, node, oldp, regs,
                   inside>>
      /\ \A t \in Readers \cup Writers : pc'[t] = pc[t]
      /\ \A w \in Writers : pending'[w] = pending[w]
  <2>1. ASSUME NEW s \in Syncers, Syncer(s)
        PROVE  /\ \A t \in Readers \cup Writers : pc'[t] = pc[t]
               /\ \A w \in Writers : pending'[w] = pending[w]
    <3>1. s \in Threads /\ s \notin Readers \cup Writers
          /\ Readers \cup Writers \subseteq Threads
          /\ s \in Waiters /\ Writers \subseteq Waiters
      BY DEF Threads, Waiters
    <3>2. \A t \in Threads : t # s => pc'[t] = pc[t]
      BY <2>1, <3>1, GotoView DEF Syncer, SyncStart, SyncEnd, Leave, Enter
    <3>3. \A w \in Waiters : w # s => pending'[w] = pending[w]
      BY <2>1, <3>1 DEF Syncer, SyncStart, SyncEnd, Leave, TypeOK
    <3> QED BY <3>1, <3>2, <3>3
  <2>2. UNCHANGED <<p_scomm, allocated, fields, comms_lock, node, oldp, regs,
                   inside>>
    BY DEF Syncer, SyncStart, SyncEnd, Leave, Unload, Stop, KthreadStop, Unloaded,
           vars
  <2>3. CASE Unload \/ Stop \/ UNCHANGED vars
    BY <2>3 DEF Unload, Stop, KthreadStop, Unloaded, vars
  <2> QED BY <2>1, <2>2, <2>3
<1>3. SoleOwner' /\ Locked'
  BY <1>2 DEF SoleOwner, Locked, Holding, Preparing, Retiring
<1>4. Protected' /\ InsideOK'
  BY <1>2 DEF Protected, InsideOK, Reading
<1>5. WholeObjects'
  BY <1>2 DEF WholeObjects, Uniform, Retiring, Loaded
<1> QED BY <1>1, <1>3, <1>4, <1>5

LEMMA InvariantInit == Init => IInv
<1> SUFFICES ASSUME Init PROVE IInv
  OBVIOUS
<1>1. \A t \in Threads : pc[t] = "top"
  BY DEF Init
<1>2. Readers \subseteq Threads /\ Writers \subseteq Threads
  BY DEF Threads, Waiters
<1>3. SoleOwner /\ Locked
  BY <1>1, <1>2 DEF Init, SoleOwner, Locked, Holding, Preparing, Retiring
<1>4. Protected /\ InsideOK
  BY <1>1, <1>2 DEF Init, Protected, InsideOK, Reading
<1>5. Uniform(p_scomm)
  BY DEF Init, Uniform, Zeros
<1>6. WholeObjects
  BY <1>1, <1>2, <1>5 DEF WholeObjects, Retiring, Loaded
<1> QED BY <1>3, <1>4, <1>6, TypeInit DEF IInv

LEMMA InvariantNext == IInv /\ [Next]_vars => IInv'
BY ReaderPreserves, WriterPreserves, OthersPreserve DEF Next

\* The inductive invariant.
THEOREM Invariance == Spec => []IInv
BY InvariantInit, InvariantNext, PTL DEF Spec

\* No reader holds a pointer to freed memory.
THEOREM MemorySafety == Spec => []NoUseAfterFree
<1>1. IInv => NoUseAfterFree
  <2> SUFFICES ASSUME IInv, NEW r \in Readers, Reading(r) PROVE node[r] \in allocated
    BY DEF NoUseAfterFree
  <2> QED BY DEF IInv, Protected, SoleOwner, Holding, Retiring
<1> QED BY <1>1, Invariance, PTL

\* The error branch of rcu_reader is dead code.
THEOREM ReadConsistency == Spec => []NoTornRead
<1>1. IInv => NoTornRead
  <2> SUFFICES ASSUME IInv, NEW r \in Readers, pc[r] = "check"
               PROVE  regs[r][1] = regs[r][2] /\ regs[r][2] = regs[r][3]
    BY DEF NoTornRead
  <2>1. \A i \in 1..3 : regs[r][i] = fields[node[r]][i]
    BY DEF IInv, WholeObjects, Loaded
  <2>2. Uniform(node[r])
    BY DEF IInv, Protected, WholeObjects, Reading, Retiring
  <2> QED BY <2>1, <2>2 DEF Uniform
<1> QED BY <1>1, Invariance, PTL

\* Every object has one owner: no leak, no double free.
THEOREM Ownership == Spec => []SoleOwner
<1>1. IInv => SoleOwner
  BY DEF IInv
<1> QED BY <1>1, Invariance, PTL

-----------------------------------------------------------------------------
(* LinkSrcu: the list.                                                      *)

Cells == Elements \union {srcu_lk}
First == next[srcu_lk]

ListTypeOK ==
  /\ where \in [ListThreads -> {"top", "follow", "visit", "last", "lock", "fill", "replace",
                                "sync", "wait", "free", "done"}]
  /\ next \in [Cells -> Cells \union {Null}] /\ prev \in [Cells -> Cells \union {Null, Poison}]
  /\ a \in [Elements -> Nat] /\ used \subseteq Elements /\ counter \in Nat
  /\ lock \subseteq Replacers /\ elem \in [Walkers \union Replacers -> Cells]
  /\ sections \subseteq Walkers /\ awaited \in [Closers -> SUBSET Walkers]
  /\ walked \in [Walkers -> Seq(Nat)] /\ newest \in Nat /\ floor \in [Walkers -> Nat]

\* The list has one element, and whoever saw something saw nothing newer.
ListOK ==
  /\ First \in used /\ next[First] = srcu_lk
  /\ prev[First] = srcu_lk /\ prev[srcu_lk] = First
  /\ \A n \in Elements : a[n] <= counter
  /\ newest <= a[First]

HasOld(w) == where[w] \in {"sync", "wait", "free"}
HasElement(w) == where[w] \in {"lock", "fill", "replace"} \/ HasOld(w)

\* A writer has an element of its own, new or old; an old one still leads to the head.
ReplacerOK(w) ==
  /\ HasElement(w) => /\ elem[w] \in used /\ elem[w] # First
                   /\ \A v \in Replacers : v # w /\ HasElement(v) => elem[v] # elem[w]
  /\ HasOld(w) => next[elem[w]] = srcu_lk
  /\ where[w] = "replace" => a[elem[w]] = counter
  /\ w \in lock <=> where[w] \in {"fill", "replace"}
  /\ \A v \in lock : w \in lock => v = w

\* What a reader stands on is in the list, or its writer has still to wait for it.
Kept(r) ==
  \/ elem[r] = First
  \/ \E w \in Replacers : /\ elem[w] = elem[r]
                          /\ where[w] = "sync" \/ (where[w] = "wait" /\ r \in awaited[w])
Standing(r) ==
  /\ elem[r] \in Elements /\ Kept(r)
  /\ floor[r] <= a[elem[r]] /\ a[elem[r]] <= a[First]

WalkerOK(r) ==
  /\ r \in sections <=> where[r] \in {"follow", "visit", "last"}
  /\ where[r] = "follow" => \/ elem[r] = srcu_lk /\ walked[r] = <<>>
                            \/ Standing(r) /\ walked[r] = <<a[elem[r]]>>
  /\ where[r] = "visit" => Standing(r) /\ walked[r] = <<>>
  /\ where[r] = "last" => /\ Len(walked[r]) = 1
                          /\ floor[r] <= walked[r][1] /\ walked[r][1] <= a[First]
  /\ floor[r] <= newest

ListInv ==
  /\ ListTypeOK /\ ListOK
  /\ \A w \in Replacers : ReplacerOK(w)
  /\ \A r \in Walkers : WalkerOK(r)

-----------------------------------------------------------------------------
LEMMA Moved ==
  ASSUME ListTypeOK, NEW t \in ListThreads, NEW from, NEW to, Moves(t, from, to)
  PROVE  /\ where[t] = from /\ where'[t] = to
         /\ \A u \in ListThreads : u # t => where'[u] = where[u]
BY DEF Moves, ListTypeOK

LEMMA ThreadSets ==
  /\ Walkers \subseteq ListThreads /\ Replacers \subseteq Closers
  /\ GraceWaiters \subseteq Closers /\ Closers \subseteq ListThreads
  /\ \A r \in Walkers : r \notin Closers
  /\ \A w \in Replacers : w \notin GraceWaiters
BY LinkAssumption DEF ListThreads, Closers

LEMMA CellSets ==
  /\ srcu_lk \in Cells /\ srcu_lk \notin Elements /\ Elements \subseteq Cells
BY LinkAssumption DEF Cells

\* What a reader stands on is given out, and leads to the head.
LEMMA KeptCells ==
  ASSUME ListInv, NEW q \in Walkers, Kept(q)
  PROVE  elem[q] \in used /\ next[elem[q]] = srcu_lk
BY DEF ListInv, ListOK, ReplacerOK, Kept, HasElement, HasOld

\* A step that changes nothing of a reader and keeps what it stands on.
LEMMA WalkerKeeps ==
  ASSUME ListInv, ListTypeOK', NEW q \in Walkers, First \in Elements, First' \in Elements,
         where'[q] = where[q], elem'[q] = elem[q], q \in sections' <=> q \in sections,
         walked'[q] = walked[q], floor'[q] = floor[q], newest <= newest',
         a[First] <= a'[First'],
         q \in sections /\ Standing(q) => Kept(q)' /\ a'[elem[q]] = a[elem[q]]
  PROVE  WalkerOK(q)'
<1>1. WalkerOK(q) /\ ListTypeOK
  BY DEF ListInv
<1>2. floor[q] \in Nat /\ newest \in Nat /\ newest' \in Nat /\ a[First] \in Nat
      /\ a'[First'] \in Nat /\ walked[q] \in Seq(Nat)
  BY <1>1 DEF ListTypeOK
<1>3. q \in sections /\ Standing(q) => Standing(q)'
  <2> SUFFICES ASSUME q \in sections, Standing(q) PROVE Standing(q)'
    OBVIOUS
  <2>1. a[elem[q]] \in Nat
    BY <1>1 DEF Standing, ListTypeOK
  <2> QED BY <1>2, <2>1 DEF Standing
<1>4. Len(walked[q]) = 1 => walked[q][1] \in Nat
  BY <1>2
<1>5. q \in sections /\ Standing(q) => a'[elem'[q]] = a[elem[q]]
  OBVIOUS
<1>6. where[q] = "last" => /\ Len(walked'[q]) = 1 /\ floor'[q] <= walked'[q][1]
                           /\ walked'[q][1] <= a'[First']
  BY <1>1, <1>2, <1>4 DEF WalkerOK
<1>7. floor'[q] <= newest'
  BY <1>1, <1>2 DEF WalkerOK
<1> QED BY <1>1, <1>3, <1>5, <1>6, <1>7 DEF WalkerOK

-----------------------------------------------------------------------------
(* The types.                                                               *)

LEMMA ListTypeInit == LinkInit => ListTypeOK
<1> SUFFICES ASSUME LinkInit PROVE ListTypeOK
  OBVIOUS
<1>1. PICK n \in Elements : used = {n}
  BY DEF LinkInit
<1>2. (CHOOSE e \in Elements : e \in used) = n
  BY <1>1
<1>3. next = [m \in Cells |-> IF m = n THEN srcu_lk ELSE IF m = srcu_lk THEN n ELSE Null]
  BY <1>1, <1>2 DEF LinkInit, Cells
<1>4. next \in [Cells -> Cells \union {Null}]
  BY <1>3, CellSets
<1> QED BY <1>1, <1>4, CellSets DEF LinkInit, ListTypeOK

LEMMA ListTypeNext ==
  ASSUME ListInv, [LinkNext]_listVars
  PROVE  ListTypeOK'
<1> USE DEF ListTypeOK, Moves, GoesOn
<1>0. ListTypeOK /\ First \in Elements
  BY DEF ListInv, ListOK
<1>1. ASSUME NEW r \in Walkers, WalkBegins(r) PROVE ListTypeOK'
  BY <1>0, <1>1, ThreadSets, CellSets DEF WalkBegins, list
<1>2. ASSUME NEW r \in Walkers, Follow(r) PROVE ListTypeOK'
  <2>1. next[elem[r]] \in Cells
    <3>1. CASE elem[r] = srcu_lk
      BY <1>0, <3>1, CellSets DEF First
    <3>2. CASE Standing(r)
      BY <3>2, KeptCells, CellSets DEF Standing
    <3>3. WalkerOK(r) /\ where[r] = "follow"
      BY <1>2, ThreadSets DEF ListInv, Follow
    <3> QED BY <3>1, <3>2, <3>3 DEF WalkerOK
  <2> QED BY <1>0, <1>2, <2>1, ThreadSets DEF Follow, list, walks
<1>3. ASSUME NEW r \in Walkers, Visit(r) PROVE ListTypeOK'
  <2>1. a[elem[r]] \in Nat
    <3>1. WalkerOK(r) /\ where[r] = "visit"
      BY <1>3, ThreadSets DEF ListInv, Visit
    <3> QED BY <1>0, <3>1 DEF WalkerOK, Standing
  <2>2. Append(walked[r], a[elem[r]]) \in Seq(Nat)
    BY <1>0, <2>1
  <2> QED BY <1>0, <1>3, <2>2, ThreadSets DEF Visit, list
<1>4. ASSUME NEW r \in Walkers, WalkEnds(r) PROVE ListTypeOK'
  <2>1. newest' \in Nat
    <3>1. walked[r] # <<>> => walked[r][1] \in Nat
      BY <1>0
    <3> QED BY <1>0, <1>4, <3>1 DEF WalkEnds
  <2> QED BY <1>0, <1>4, <2>1, ThreadSets DEF WalkEnds, list
<1>5. ASSUME NEW w \in Replacers, AllocateElement(w) PROVE ListTypeOK'
  BY <1>0, <1>5, ThreadSets, CellSets DEF AllocateElement, walks
<1>6. ASSUME NEW w \in Replacers, TakeLock(w) \/ FreeOld(w) PROVE ListTypeOK'
  BY <1>0, <1>6, ThreadSets DEF TakeLock, FreeOld, walks
<1>7. ASSUME NEW w \in Replacers, CopyAndFill(w) PROVE ListTypeOK'
  <2>1. elem[w] \in Cells /\ next[First] \in Cells \union {Null}
        /\ prev[First] \in Cells \union {Null, Poison} /\ counter + 1 \in Nat
    BY <1>0, CellSets
  <2>2. next' \in [Cells -> Cells \union {Null}] /\ prev' \in [Cells -> Cells \union {Null, Poison}]
    BY <1>0, <1>7, <2>1, CellSets DEF CopyAndFill, First
  <2>3. a' \in [Elements -> Nat] /\ counter' \in Nat
    BY <1>0, <1>7, <2>1 DEF CopyAndFill
  <2> QED BY <1>0, <1>7, <2>2, <2>3, ThreadSets DEF CopyAndFill, walks
<1>8. ASSUME NEW w \in Replacers, Replace(w) PROVE ListTypeOK'
  <2>1. elem[w] \in Cells /\ next[First] \in Cells \union {Null}
        /\ prev[First] \in Cells \union {Null, Poison}
    BY <1>0, CellSets
  <2>2. elem' \in [Walkers \union Replacers -> Cells] /\ lock' \subseteq Replacers
    BY <1>0, <1>8, CellSets DEF Replace, Replaced, First
  <2>3. next' \in [Cells -> Cells \union {Null}] /\ prev' \in [Cells -> Cells \union {Null, Poison}]
    BY <1>0, <1>8, <2>1, CellSets DEF Replace, Replaced, First
  <2> QED BY <1>0, <1>8, <2>2, <2>3, ThreadSets DEF Replace, Replaced, walks
<1>9. ASSUME NEW t \in Closers, GraceBegins(t) \/ GraceEnds(t) PROVE ListTypeOK'
  BY <1>0, <1>9, ThreadSets DEF GraceBegins, GraceEnds, list, walks
<1>10. ASSUME NEW t \in ListThreads, Ends(t) \/ StopThread(t) PROVE ListTypeOK'
  BY <1>0, <1>10 DEF Ends, StopThread, list, walks
<1>11. CASE UNCHANGED listVars
  BY <1>0, <1>11 DEF listVars
<1> QED BY <1>1, <1>2, <1>3, <1>4, <1>5, <1>6, <1>7, <1>8, <1>9, <1>10, <1>11 DEF LinkNext

-----------------------------------------------------------------------------
(* The readers.                                                             *)

LEMMA ReplacersStay ==
  ASSUME ListInv, ListTypeOK', NEW w \in Replacers,
         next' = next, a' = a, used' = used, counter' = counter, lock' = lock,
         \A v \in Replacers : where'[v] = where[v] /\ elem'[v] = elem[v]
  PROVE  ReplacerOK(w)'
BY DEF ListInv, ReplacerOK, HasElement, HasOld, First

LEMMA WalkerPreserves ==
  ASSUME ListInv, ListTypeOK', NEW r \in Walkers,
         WalkBegins(r) \/ Follow(r) \/ Visit(r) \/ WalkEnds(r)
  PROVE  ListInv'
<1>1. ListTypeOK /\ ListOK /\ WalkerOK(r) /\ r \in ListThreads
      /\ First \in Elements
  BY ThreadSets DEF ListInv, ListOK, ListTypeOK
<1>2. /\ next' = next /\ prev' = prev /\ a' = a /\ used' = used /\ counter' = counter
      /\ lock' = lock
  BY DEF WalkBegins, Follow, Visit, WalkEnds, list
<1>3. /\ \A u \in ListThreads : u # r => where'[u] = where[u]
      /\ \A q \in Walkers \union Replacers : q # r => elem'[q] = elem[q]
      /\ \A q \in Walkers : q # r =>
           /\ walked'[q] = walked[q] /\ floor'[q] = floor[q]
           /\ q \in sections' <=> q \in sections
           /\ \A w \in Closers : q \in awaited'[w] <=> q \in awaited[w]
  <2>1. CASE WalkBegins(r)
    BY <1>1, <2>1, Moved DEF WalkBegins, GoesOn, ListTypeOK
  <2>2. CASE Follow(r)
    BY <1>1, <2>2, Moved DEF Follow, ListTypeOK, walks
  <2>3. CASE Visit(r)
    BY <1>1, <2>3, Moved DEF Visit, ListTypeOK
  <2>4. CASE WalkEnds(r)
    BY <1>1, <2>4, Moved DEF WalkEnds, ListTypeOK
  <2> QED BY <2>1, <2>2, <2>3, <2>4
<1>4. newest <= newest' /\ newest' <= a[First]
  <2>1. newest \in Nat /\ newest <= a[First] /\ a[First] \in Nat
    BY <1>1 DEF ListTypeOK, ListOK
  <2>2. CASE WalkEnds(r)
    <3>1. Len(walked[r]) = 1 /\ walked[r][1] <= a[First] /\ walked[r] \in Seq(Nat)
      BY <1>1, <2>2, Moved DEF WalkEnds, WalkerOK, ListTypeOK
    <3>2. walked[r] # <<>> /\ walked[r][1] \in Nat
      BY <3>1
    <3> QED BY <2>1, <2>2, <3>1, <3>2 DEF WalkEnds
  <2>3. CASE newest' = newest
    BY <2>1, <2>3
  <2> QED BY <2>2, <2>3 DEF WalkBegins, Follow, Visit, walks
<1>5. ListOK'
  BY <1>1, <1>2, <1>4 DEF ListOK, First
<1>6. \A w \in Replacers : ReplacerOK(w)'
  <2> SUFFICES ASSUME NEW w \in Replacers PROVE ReplacerOK(w)'
    OBVIOUS
  <2>1. \A v \in Replacers : where'[v] = where[v] /\ elem'[v] = elem[v]
    BY <1>3, ThreadSets
  <2> QED BY <1>2, <2>1, ReplacersStay
<1>7. \A q \in Walkers : q # r => WalkerOK(q)'
  <2> SUFFICES ASSUME NEW q \in Walkers, q # r PROVE WalkerOK(q)'
    OBVIOUS
  <2>1. First' = First /\ a[First] <= a'[First']
    BY <1>1, <1>2 DEF First, ListTypeOK
  <2>2. \A w \in Replacers : where'[w] = where[w] /\ elem'[w] = elem[w]
    BY <1>3, ThreadSets
  <2>3. where'[q] = where[q] /\ elem'[q] = elem[q]
    BY <1>3, ThreadSets
  <2>4. Standing(q) => Kept(q)'
    BY <1>3, <2>1, <2>2, <2>3, ThreadSets DEF Standing, Kept
  <2> QED BY <1>1, <1>2, <1>3, <1>4, <2>1, <2>3, <2>4, WalkerKeeps
<1>8. WalkerOK(r)'
  <2>0. floor[r] \in Nat /\ newest \in Nat /\ a[First] \in Nat /\ newest <= a[First]
    BY <1>1 DEF ListTypeOK, ListOK
  <2>1. CASE WalkBegins(r)
    <3>1. where'[r] = "follow" /\ elem'[r] = srcu_lk /\ walked'[r] = <<>>
          /\ r \in sections' /\ floor'[r] = newest /\ newest' = newest
      BY <1>1, <2>1, Moved DEF WalkBegins, GoesOn, ListTypeOK
    <3> QED BY <2>0, <3>1 DEF WalkerOK
  <2>2. CASE Follow(r)
    <3>1. where[r] = "follow" /\ elem'[r] = next[elem[r]] /\ UNCHANGED <<sections, walks>>
          /\ where'[r] = IF next[elem[r]] = srcu_lk THEN "last" ELSE "visit"
      BY <1>1, <2>2, Moved DEF Follow, ListTypeOK
    <3>2. CASE elem[r] = srcu_lk /\ walked[r] = <<>>
      <4>1. elem'[r] = First /\ where'[r] = "visit"
        BY <1>1, <3>1, <3>2, CellSets DEF First
      <4>2. First' = First
        BY <1>2 DEF First
      <4>3. Standing(r)'
        BY <1>1, <1>2, <2>0, <3>1, <4>1, <4>2 DEF Standing, Kept, walks, WalkerOK
      <4> QED BY <1>1, <3>1, <3>2, <4>1, <4>3 DEF WalkerOK, walks
    <3>3. CASE Standing(r) /\ walked[r] = <<a[elem[r]]>>
      <4>1. where'[r] = "last"
        BY <3>1, <3>3, KeptCells DEF Standing
      <4>2. Len(walked'[r]) = 1 /\ walked'[r][1] = a[elem[r]]
        BY <3>1, <3>3 DEF walks
      <4>3. First' = First
        BY <1>2 DEF First
      <4> QED BY <1>1, <1>2, <3>1, <3>3, <4>1, <4>2, <4>3 DEF WalkerOK, walks, Standing
    <3> QED BY <1>1, <3>1, <3>2, <3>3 DEF WalkerOK
  <2>3. CASE Visit(r)
    <3>1. where[r] = "visit" /\ where'[r] = "follow" /\ elem' = elem /\ sections' = sections
          /\ walked'[r] = Append(walked[r], a[elem[r]]) /\ newest' = newest /\ floor' = floor
          /\ awaited' = awaited
      BY <1>1, <2>3, Moved DEF Visit, ListTypeOK
    <3>2. Standing(r) /\ walked[r] = <<>>
      BY <1>1, <3>1 DEF WalkerOK
    <3>3. walked'[r] = <<a[elem[r]]>>
      BY <1>1, <3>1, <3>2 DEF ListTypeOK, Standing
    <3>4. First' = First
      BY <1>2 DEF First
    <3>5. \A w \in Replacers : where'[w] = where[w]
      BY <1>3, ThreadSets
    <3>6. Standing(r)'
      BY <1>2, <3>1, <3>2, <3>4, <3>5 DEF Standing, Kept
    <3> QED BY <1>1, <1>2, <3>1, <3>3, <3>6 DEF WalkerOK
  <2>4. CASE WalkEnds(r)
    <3>1. where'[r] = "top" /\ r \notin sections' /\ floor' = floor
      BY <1>1, <2>4, Moved DEF WalkEnds, ListTypeOK
    <3>2. floor[r] <= newest' /\ newest' \in Nat
      BY <1>1, <1>4, <2>0 DEF WalkerOK, ListTypeOK
    <3> QED BY <3>1, <3>2 DEF WalkerOK
  <2> QED BY <2>1, <2>2, <2>3, <2>4
<1> QED BY <1>5, <1>6, <1>7, <1>8 DEF ListInv

-----------------------------------------------------------------------------
(* The writers.                                                             *)

\* What a step of writer w leaves alone.
Alone(w) ==
  /\ \A u \in ListThreads : u # w => where'[u] = where[u]
  /\ \A q \in Walkers \union Replacers : q # w => elem'[q] = elem[q]
  /\ sections' = sections /\ walked' = walked /\ newest' = newest /\ floor' = floor

\* A reader stays where it stands when the list's element is the same and the step is
\* not of a writer that it is kept by.
LEMMA WalkersStay ==
  ASSUME ListInv, ListTypeOK', ListOK', NEW w \in Replacers, Alone(w), First' = First,
         awaited' = awaited, where[w] \notin {"sync", "wait"},
         \A n \in used : n # elem[w] \/ ~HasElement(w) => a'[n] = a[n]
  PROVE  \A q \in Walkers : WalkerOK(q)'
<1> SUFFICES ASSUME NEW q \in Walkers PROVE WalkerOK(q)'
  OBVIOUS
<1>1. ListTypeOK /\ ListOK /\ First \in Elements /\ First' \in Elements /\ w # q
      /\ ReplacerOK(w)
  BY ThreadSets DEF ListInv, ListOK, ListTypeOK
<1>2. where'[q] = where[q] /\ elem'[q] = elem[q]
      /\ \A v \in Replacers : v # w => where'[v] = where[v] /\ elem'[v] = elem[v]
  BY <1>1, ThreadSets DEF Alone
<1>3. Standing(q) => Kept(q)'
  BY <1>2 DEF Standing, Kept
<1>4. Standing(q) => a'[elem[q]] = a[elem[q]]
  <2> SUFFICES ASSUME Standing(q) PROVE a'[elem[q]] = a[elem[q]]
    OBVIOUS
  <2>1. elem[q] \in used
    BY KeptCells DEF Standing
  <2>2. HasElement(w) => elem[q] # elem[w]
    BY <1>1 DEF Standing, Kept, ReplacerOK, HasElement, HasOld
  <2> QED BY <2>1, <2>2
<1>5. a'[First] = a[First] /\ a[First] \in Nat
  BY <1>1 DEF ListOK, ReplacerOK, ListTypeOK
<1> QED BY <1>1, <1>2, <1>3, <1>4, <1>5, WalkerKeeps DEF Alone, ListTypeOK

LEMMA AllocatePreserves ==
  ASSUME ListInv, ListTypeOK', NEW w \in Replacers, AllocateElement(w)
  PROVE  ListInv'
<1>1. ListTypeOK /\ ListOK /\ w \in ListThreads /\ First \in Elements
      /\ \A v \in Replacers : ReplacerOK(v)
  BY ThreadSets DEF ListInv, ListOK, ListTypeOK
<1>2. PICK n \in Elements \ used :
        /\ used' = used \union {n} /\ elem' = [elem EXCEPT ![w] = n]
        /\ a' = [a EXCEPT ![n] = 0]
        /\ next' = [next EXCEPT ![n] = Null] /\ prev' = [prev EXCEPT ![n] = Null]
  BY DEF AllocateElement
<1>3. where[w] = "top" /\ where'[w] = "lock" /\ \A u \in ListThreads : u # w => where'[u] = where[u]
  BY <1>1, Moved DEF AllocateElement, GoesOn
<1>4. UNCHANGED <<counter, lock, sections, awaited, stopping, walks>>
  BY DEF AllocateElement
<1>5. Alone(w) /\ elem'[w] = n
  BY <1>1, <1>2, <1>3, <1>4 DEF Alone, walks, ListTypeOK
<1>6. First' = First /\ \A m \in Cells : m # n => next'[m] = next[m] /\ prev'[m] = prev[m]
  BY <1>1, <1>2, CellSets DEF First, ListTypeOK
<1>7. \A m \in Elements : a'[m] = IF m = n THEN 0 ELSE a[m]
  BY <1>1, <1>2 DEF ListTypeOK
<1>8. ListOK'
  <2>1. First # n /\ srcu_lk # n
    BY <1>1, <1>2, CellSets DEF ListOK
  <2>2. \A m \in Elements : a'[m] <= counter'
    <3> SUFFICES ASSUME NEW m \in Elements PROVE a'[m] <= counter'
      OBVIOUS
    <3>1. a[m] <= counter /\ counter \in Nat /\ counter' = counter
      BY <1>1, <1>4 DEF ListOK, ListTypeOK
    <3>2. 0 <= counter
      BY <3>1
    <3> QED BY <1>7, <3>1, <3>2
  <2>3. a'[First'] = a[First] /\ newest' = newest
    BY <1>1, <1>4, <1>6, <1>7, <2>1 DEF walks
  <2>4. next'[First] = next[First] /\ prev'[First] = prev[First] /\ prev'[srcu_lk] = prev[srcu_lk]
    BY <1>1, <1>6, <2>1, CellSets
  <2> QED BY <1>1, <1>2, <1>6, <2>2, <2>3, <2>4 DEF ListOK
<1>9. \A v \in Replacers : ReplacerOK(v)'
  <2> SUFFICES ASSUME NEW v \in Replacers PROVE ReplacerOK(v)'
    OBVIOUS
  <2>1. \A u \in Replacers : u # w => where'[u] = where[u] /\ elem'[u] = elem[u]
    BY <1>5, ThreadSets DEF Alone
  <2>2. \A u \in Replacers : HasElement(u) => elem[u] # n /\ elem[u] \in Elements /\ elem[u] \in Cells
    BY <1>1, <1>2, CellSets DEF ReplacerOK, ListTypeOK
  <2>3. CASE v = w
    <3>1. elem'[w] = n /\ n \in used' /\ n # First'
      BY <1>1, <1>2, <1>5, <1>6 DEF ListOK
    <3>2. \A u \in Replacers : u # w /\ HasElement(u)' => elem'[u] # n
      BY <2>1, <2>2 DEF HasElement, HasOld
    <3>3. w \notin lock /\ lock' = lock
      BY <1>1, <1>3, <1>4 DEF ReplacerOK
    <3> QED BY <1>1, <1>3, <2>3, <3>1, <3>2, <3>3 DEF ReplacerOK, HasOld
  <2>4. CASE v # w
    <3>1. HasElement(v)' => HasElement(v) /\ elem'[v] = elem[v] /\ elem[v] # n
      BY <2>1, <2>2, <2>4 DEF HasElement, HasOld
    <3>2. HasOld(v)' => next'[elem'[v]] = srcu_lk
      BY <1>1, <1>6, <2>1, <2>2, <2>4 DEF ReplacerOK, HasElement, HasOld
    <3>3. where'[v] = "replace" => a'[elem'[v]] = counter'
      BY <1>1, <1>4, <1>7, <2>1, <2>2, <2>4 DEF ReplacerOK, HasElement
    <3>4. \A u \in Replacers : u # v /\ HasElement(u)' /\ HasElement(v)' => elem'[u] # elem'[v]
      BY <1>1, <1>5, <2>1, <2>2, <2>4 DEF ReplacerOK, HasElement, HasOld
    <3>5. v \in lock' <=> where'[v] \in {"fill", "replace"}
      BY <1>1, <1>4, <2>1, <2>4 DEF ReplacerOK
    <3> QED BY <1>1, <1>2, <1>4, <1>6, <3>1, <3>2, <3>3, <3>4, <3>5 DEF ReplacerOK
  <2> QED BY <2>3, <2>4
<1>10. \A q \in Walkers : WalkerOK(q)'
  <2>1. \A m \in used : a'[m] = a[m]
    BY <1>1, <1>2, <1>7 DEF ListTypeOK
  <2> QED BY <1>3, <1>4, <1>5, <1>6, <1>8, <2>1, WalkersStay
<1> QED BY <1>8, <1>9, <1>10 DEF ListInv

LEMMA LockPreserves ==
  ASSUME ListInv, ListTypeOK', NEW w \in Replacers, TakeLock(w)
  PROVE  ListInv'
<1>1. ListTypeOK /\ ListOK /\ w \in ListThreads /\ \A v \in Replacers : ReplacerOK(v)
  BY ThreadSets DEF ListInv
<1>2. where[w] = "lock" /\ where'[w] = "fill" /\ \A u \in ListThreads : u # w => where'[u] = where[u]
  BY <1>1, Moved DEF TakeLock
<1>3. lock = {} /\ lock' = {w}
      /\ UNCHANGED <<next, prev, a, used, counter, elem, sections, awaited, stopping, walks>>
  BY DEF TakeLock
<1>4. Alone(w) /\ First' = First
  BY <1>2, <1>3 DEF Alone, walks, First
<1>5. ListOK'
  BY <1>1, <1>3, <1>4 DEF ListOK, walks
<1>6. \A v \in Replacers : ReplacerOK(v)'
  <2>1. \A u \in Replacers : u # w => where'[u] = where[u]
    BY <1>2, ThreadSets
  <2>2. \A u \in Replacers : HasElement(u)' <=> HasElement(u)
    BY <1>2, <2>1 DEF HasElement, HasOld
  <2>3. \A u \in Replacers : where[u] \notin {"fill", "replace"}
    BY <1>1, <1>3 DEF ReplacerOK
  <2> QED BY <1>1, <1>2, <1>3, <1>4, <2>1, <2>2, <2>3 DEF ReplacerOK, HasOld
<1>7. \A q \in Walkers : WalkerOK(q)'
  BY <1>2, <1>3, <1>4, <1>5, WalkersStay
<1> QED BY <1>5, <1>6, <1>7 DEF ListInv

LEMMA CopyPreserves ==
  ASSUME ListInv, ListTypeOK', NEW w \in Replacers, CopyAndFill(w)
  PROVE  ListInv'
<1>1. ListTypeOK /\ ListOK /\ w \in ListThreads /\ First \in Elements
      /\ \A v \in Replacers : ReplacerOK(v)
  BY ThreadSets DEF ListInv, ListOK, ListTypeOK
<1>2. where[w] = "fill" /\ where'[w] = "replace"
      /\ \A u \in ListThreads : u # w => where'[u] = where[u]
  BY <1>1, Moved DEF CopyAndFill
<1>3. UNCHANGED <<used, lock, elem, sections, awaited, stopping, walks>> /\ counter' = counter + 1
  BY DEF CopyAndFill
<1>4. elem[w] \in used /\ elem[w] \in Elements /\ elem[w] # First /\ elem[w] # srcu_lk
  BY <1>1, <1>2, CellSets DEF ReplacerOK, HasElement, ListTypeOK
<1>5. /\ \A m \in Cells : m # elem[w] => next'[m] = next[m] /\ prev'[m] = prev[m]
      /\ \A m \in Elements : a'[m] = IF m = elem[w] THEN counter + 1 ELSE a[m]
  BY <1>1 DEF CopyAndFill, ListTypeOK
<1>6. Alone(w) /\ First' = First
  BY <1>2, <1>3, <1>4, <1>5, CellSets DEF Alone, walks, First
<1>7. ListOK'
  <2>1. \A m \in Elements : a'[m] <= counter'
    <3> SUFFICES ASSUME NEW m \in Elements PROVE a'[m] <= counter'
      OBVIOUS
    <3>1. a[m] \in Nat /\ a[m] <= counter /\ counter \in Nat
      BY <1>1 DEF ListOK, ListTypeOK
    <3> QED BY <1>3, <1>5, <3>1
  <2>2. a'[First'] = a[First] /\ newest' = newest
    BY <1>1, <1>3, <1>4, <1>5, <1>6 DEF walks
  <2>3. next'[First] = next[First] /\ prev'[First] = prev[First] /\ prev'[srcu_lk] = prev[srcu_lk]
    BY <1>1, <1>4, <1>5, CellSets
  <2> QED BY <1>1, <1>3, <1>6, <2>1, <2>2, <2>3 DEF ListOK
<1>8. \A v \in Replacers : ReplacerOK(v)'
  <2> SUFFICES ASSUME NEW v \in Replacers PROVE ReplacerOK(v)'
    OBVIOUS
  <2>1. \A u \in Replacers : u # w => where'[u] = where[u]
    BY <1>2, ThreadSets
  <2>2. \A u \in Replacers : HasElement(u)' <=> HasElement(u)
    BY <1>2, <2>1 DEF HasElement, HasOld
  <2>3. HasOld(v)' => HasOld(v) /\ next'[elem[v]] = srcu_lk
    <3> SUFFICES ASSUME HasOld(v)' PROVE HasOld(v) /\ next'[elem[v]] = srcu_lk
      OBVIOUS
    <3>1. v # w /\ HasOld(v)
      BY <1>2, <2>1 DEF HasOld
    <3>2. elem[v] # elem[w] /\ elem[v] \in Elements
      BY <1>1, <1>2, <3>1 DEF ReplacerOK, HasElement, ListTypeOK
    <3> QED BY <1>1, <1>5, <3>1, <3>2, CellSets DEF ReplacerOK
  <2>4. where'[v] = "replace" => v = w
    BY <1>1, <1>2, <2>1 DEF ReplacerOK
  <2>5. v \in lock' <=> where'[v] \in {"fill", "replace"}
    BY <1>1, <1>2, <1>3, <2>1 DEF ReplacerOK
  <2> QED BY <1>1, <1>3, <1>4, <1>5, <1>6, <2>2, <2>3, <2>4, <2>5 DEF ReplacerOK
<1>9. \A q \in Walkers : WalkerOK(q)'
  <2>1. \A m \in used : m # elem[w] => a'[m] = a[m]
    BY <1>1, <1>5 DEF ListTypeOK
  <2>2. HasElement(w)
    BY <1>2 DEF HasElement
  <2> QED BY <1>2, <1>3, <1>6, <1>7, <2>1, <2>2, WalkersStay
<1> QED BY <1>7, <1>8, <1>9 DEF ListInv

LEMMA ReplacePreserves ==
  ASSUME ListInv, ListTypeOK', NEW w \in Replacers, Replace(w)
  PROVE  ListInv'
<1> DEFINE old == First
           new == elem[w]
<1>1. ListTypeOK /\ ListOK /\ w \in ListThreads /\ old \in Elements
      /\ \A v \in Replacers : ReplacerOK(v)
  BY ThreadSets DEF ListInv, ListOK, ListTypeOK
<1>2. where[w] = "replace" /\ where'[w] = "sync"
      /\ \A u \in ListThreads : u # w => where'[u] = where[u]
  BY <1>1, Moved DEF Replace, Replaced
<1>3. UNCHANGED <<a, used, counter, sections, awaited, stopping, walks>> /\ lock' = lock \ {w}
  BY DEF Replace, Replaced
<1>4. new \in used /\ new \in Elements /\ new # old /\ new # srcu_lk /\ old # srcu_lk
      /\ a[new] = counter
  BY <1>1, <1>2, CellSets DEF ReplacerOK, HasElement, ListTypeOK
<1>5. /\ \A m \in Cells : next'[m] = IF m = srcu_lk THEN new ELSE IF m = new THEN srcu_lk ELSE next[m]
      /\ prev'[new] = srcu_lk /\ prev'[srcu_lk] = new
  <2>1. next[old] = srcu_lk /\ prev[old] = srcu_lk
    BY <1>1 DEF ListOK
  <2>2. /\ next' = [next EXCEPT ![new] = next[old], ![prev[old]] = new]
        /\ prev' = [prev EXCEPT ![new] = prev[old], ![next[old]] = new, ![old] = Poison]
    BY DEF Replace, Replaced, First
  <2> QED BY <1>1, <1>4, <2>1, <2>2, CellSets DEF ListTypeOK
<1>6. First' = new
  BY <1>5, CellSets DEF First
<1>7. elem'[w] = old /\ \A q \in Walkers \union Replacers : q # w => elem'[q] = elem[q]
  BY <1>1 DEF Replace, Replaced, First, ListTypeOK
<1>8. ListOK'
  <2>1. newest <= a[new]
    BY <1>1, <1>4 DEF ListOK, ListTypeOK
  <2> QED BY <1>1, <1>3, <1>4, <1>5, <1>6, <2>1, CellSets DEF ListOK, walks
<1>9. \A v \in Replacers : ReplacerOK(v)'
  <2> SUFFICES ASSUME NEW v \in Replacers PROVE ReplacerOK(v)'
    OBVIOUS
  <2>1. \A u \in Replacers : u # w => where'[u] = where[u] /\ elem'[u] = elem[u]
    BY <1>2, <1>7, ThreadSets
  <2>2. \A u \in Replacers : u # w /\ HasElement(u)' =>
          HasElement(u) /\ elem'[u] = elem[u] /\ elem[u] # new /\ elem[u] # old
          /\ elem[u] \in used /\ elem[u] \in Elements
    BY <1>1, <1>2, <2>1 DEF ReplacerOK, HasElement, HasOld, ListTypeOK
  <2>3. CASE v = w
    <3>1. elem'[w] \in used' /\ elem'[w] # First' /\ next'[elem'[w]] = srcu_lk
      BY <1>1, <1>3, <1>4, <1>5, <1>6, <1>7, CellSets DEF ListOK
    <3>2. w \notin lock' /\ where'[w] \notin {"fill", "replace"}
      BY <1>2, <1>3
    <3> QED BY <1>7, <2>2, <2>3, <3>1, <3>2 DEF ReplacerOK
  <2>4. CASE v # w
    <3>1. v \notin lock
      BY <1>1, <1>2, <2>4 DEF ReplacerOK
    <3>2. where'[v] \notin {"fill", "replace"}
      BY <1>1, <2>1, <2>4, <3>1 DEF ReplacerOK
    <3>3. HasOld(v)' => next'[elem'[v]] = srcu_lk
      <4> SUFFICES ASSUME HasOld(v)' PROVE next'[elem'[v]] = srcu_lk
        OBVIOUS
      <4>1. HasOld(v) /\ next[elem[v]] = srcu_lk
        BY <1>1, <2>1, <2>4 DEF ReplacerOK, HasOld
      <4>2. elem'[v] = elem[v] /\ elem[v] # new /\ elem[v] \in Elements
        BY <2>2, <2>4 DEF HasElement
      <4> QED BY <1>5, <4>1, <4>2, CellSets
    <3>4. HasElement(v)' => /\ elem'[v] \in used' /\ elem'[v] # First'
                         /\ \A u \in Replacers : u # v /\ HasElement(u)' => elem'[u] # elem'[v]
      <4> SUFFICES ASSUME HasElement(v)' PROVE /\ elem'[v] \in used' /\ elem'[v] # First'
                         /\ \A u \in Replacers : u # v /\ HasElement(u)' => elem'[u] # elem'[v]
        OBVIOUS
      <4>1. HasElement(v) /\ elem'[v] = elem[v] /\ elem[v] # new /\ elem[v] # old /\ elem[v] \in used
        BY <2>2, <2>4
      <4>2. ASSUME NEW u \in Replacers, u # v, HasElement(u)' PROVE elem'[u] # elem'[v]
        BY <1>1, <1>7, <2>2, <4>1, <4>2 DEF ReplacerOK
      <4> QED BY <1>3, <1>6, <4>1, <4>2
    <3> QED BY <1>3, <3>1, <3>2, <3>3, <3>4 DEF ReplacerOK
  <2> QED BY <2>3, <2>4
<1>10. \A q \in Walkers : WalkerOK(q)'
  <2> SUFFICES ASSUME NEW q \in Walkers PROVE WalkerOK(q)'
    OBVIOUS
  <2>1. q # w /\ q \in ListThreads
    BY ThreadSets
  <2>2. where'[q] = where[q] /\ elem'[q] = elem[q]
    BY <1>2, <1>7, <2>1
  <2>3. a[First] <= a'[First']
    BY <1>1, <1>3, <1>4, <1>6 DEF ListOK
  <2>4. Standing(q) => Kept(q)'
    <3>1. CASE elem[q] = old
      BY <1>2, <1>7, <2>2, <3>1 DEF Kept
    <3>2. CASE elem[q] # old
      BY <1>2, <1>3, <1>7, <2>2, <3>2, ThreadSets DEF Standing, Kept
    <3> QED BY <3>1, <3>2
  <2>5. newest <= newest' /\ First' \in Elements
    BY <1>1, <1>3, <1>4, <1>6 DEF walks, ListTypeOK
  <2> QED BY <1>1, <1>3, <2>2, <2>3, <2>4, <2>5, WalkerKeeps DEF walks
<1> QED BY <1>8, <1>9, <1>10 DEF ListInv

LEMMA FreePreserves ==
  ASSUME ListInv, ListTypeOK', NEW w \in Replacers, FreeOld(w)
  PROVE  ListInv'
<1>1. ListTypeOK /\ ListOK /\ w \in ListThreads /\ \A v \in Replacers : ReplacerOK(v)
  BY ThreadSets DEF ListInv
<1>2. where[w] = "free" /\ where'[w] = "top" /\ \A u \in ListThreads : u # w => where'[u] = where[u]
  BY <1>1, Moved DEF FreeOld
<1>3. used' = used \ {elem[w]}
      /\ UNCHANGED <<next, prev, a, counter, lock, elem, sections, awaited, stopping, walks>>
  BY DEF FreeOld
<1>4. Alone(w) /\ First' = First
  BY <1>2, <1>3 DEF Alone, walks, First
<1>5. HasElement(w) /\ elem[w] # First
  BY <1>1, <1>2 DEF HasElement, HasOld, ReplacerOK
<1>6. ListOK'
  BY <1>1, <1>3, <1>4, <1>5 DEF ListOK, walks
<1>7. \A v \in Replacers : ReplacerOK(v)'
  <2> SUFFICES ASSUME NEW v \in Replacers PROVE ReplacerOK(v)'
    OBVIOUS
  <2>1. \A u \in Replacers : u # w => where'[u] = where[u]
    BY <1>2, ThreadSets
  <2>2. \A u \in Replacers : HasElement(u)' => u # w /\ HasElement(u)
    BY <1>2, <2>1 DEF HasElement, HasOld
  <2>3. HasElement(v)' => elem[v] \in used'
    BY <1>1, <1>3, <1>5, <2>2 DEF ReplacerOK
  <2>4. (v \in lock' <=> where'[v] \in {"fill", "replace"})
        /\ (where'[v] = "replace" => where[v] = "replace") /\ (HasOld(v)' => HasOld(v))
    BY <1>1, <1>2, <1>3, <2>1 DEF ReplacerOK, HasOld
  <2> QED BY <1>1, <1>3, <1>4, <2>2, <2>3, <2>4 DEF ReplacerOK
<1>8. \A q \in Walkers : WalkerOK(q)'
  BY <1>2, <1>3, <1>4, <1>6, WalkersStay
<1> QED BY <1>6, <1>7, <1>8 DEF ListInv

-----------------------------------------------------------------------------
(* Grace periods, the stop, and the theorems.                               *)

\* A reader in a section is kept by a writer before its grace period begins, during
\* it, and at its end no longer: then no reader that is awaited is left.
LEMMA GracePreserves ==
  ASSUME ListInv, ListTypeOK', NEW t \in Closers, GraceBegins(t) \/ GraceEnds(t)
  PROVE  ListInv'
<1>1. ListTypeOK /\ ListOK /\ t \in ListThreads /\ First \in Elements
      /\ \A v \in Replacers : ReplacerOK(v)
  BY ThreadSets DEF ListInv, ListOK, ListTypeOK
<1>2. UNCHANGED <<list, elem, sections, stopping, walks>>
  BY DEF GraceBegins, GraceEnds
<1>3. /\ \A u \in ListThreads : u # t => where'[u] = where[u]
      /\ \A u \in Closers : u # t => awaited'[u] = awaited[u]
  BY <1>1, Moved DEF GraceBegins, GraceEnds, GoesOn, ListTypeOK
<1>4. t \in Replacers => \/ /\ where[t] = "sync" /\ where'[t] = "wait"
                            /\ awaited'[t] = sections
                         \/ where[t] = "wait" /\ where'[t] = "free" /\ awaited[t] = {}
  BY <1>1, Moved, ThreadSets DEF GraceBegins, GraceEnds, ListTypeOK
<1>5. First' = First /\ next' = next /\ prev' = prev /\ a' = a /\ used' = used
      /\ counter' = counter /\ lock' = lock
  BY <1>2 DEF list, First
<1>6. ListOK'
  BY <1>1, <1>2, <1>5 DEF ListOK, walks
<1>7. \A v \in Replacers : ReplacerOK(v)'
  <2> SUFFICES ASSUME NEW v \in Replacers PROVE ReplacerOK(v)'
    OBVIOUS
  <2>1. \A u \in Replacers :
          /\ (HasElement(u)' <=> HasElement(u)) /\ (HasOld(u)' <=> HasOld(u))
          /\ where'[u] \in {"fill", "replace"} <=> where[u] \in {"fill", "replace"}
          /\ where'[u] = "replace" <=> where[u] = "replace"
    BY <1>3, <1>4, ThreadSets DEF HasElement, HasOld
  <2> QED BY <1>1, <1>2, <1>5, <2>1 DEF ReplacerOK
<1>8. \A q \in Walkers : WalkerOK(q)'
  <2> SUFFICES ASSUME NEW q \in Walkers PROVE WalkerOK(q)'
    OBVIOUS
  <2>1. where'[q] = where[q] /\ elem' = elem
    BY <1>2, <1>3, ThreadSets
  <2>2. ASSUME q \in sections, Kept(q) PROVE Kept(q)'
    <3>1. CASE elem[q] = First
      BY <1>5, <2>1, <3>1 DEF Kept
    <3>2. CASE elem[q] # First
      <4>1. PICK w \in Replacers : /\ elem[w] = elem[q]
                                   /\ where[w] = "sync" \/ (where[w] = "wait" /\ q \in awaited[w])
        BY <2>2, <3>2 DEF Kept
      <4>2. where'[w] = "sync" \/ (where'[w] = "wait" /\ q \in awaited'[w])
        BY <1>3, <1>4, <2>2, <4>1, ThreadSets
      <4> QED BY <2>1, <4>1, <4>2 DEF Kept
    <3> QED BY <3>1, <3>2
  <2>3. a[First] <= a'[First'] /\ newest <= newest'
    BY <1>1, <1>2, <1>5 DEF ListTypeOK, walks
  <2> QED BY <1>1, <1>2, <1>5, <2>1, <2>2, <2>3, WalkerKeeps DEF Standing, walks
<1> QED BY <1>6, <1>7, <1>8 DEF ListInv

LEMMA EndPreserves ==
  ASSUME ListInv, ListTypeOK', NEW t \in ListThreads, Ends(t) \/ StopThread(t)
  PROVE  ListInv'
<1>1. ListTypeOK /\ ListOK /\ \A v \in Replacers : ReplacerOK(v)
  BY DEF ListInv
<1>2. UNCHANGED <<list, elem, sections, awaited, walks>>
  BY DEF Ends, StopThread
<1>3. /\ \A u \in ListThreads : u # t => where'[u] = where[u]
      /\ where'[t] = where[t] \/ (where[t] = "top" /\ where'[t] = "done")
  BY <1>1, Moved DEF Ends, StopThread
<1>4. First' = First
  BY <1>2 DEF list, First
<1>5. ListOK'
  BY <1>1, <1>2, <1>4 DEF ListOK, list, walks
<1>6. \A v \in Replacers : ReplacerOK(v)'
  BY <1>1, <1>2, <1>3, <1>4, ThreadSets DEF ReplacerOK, HasElement, HasOld, list
<1>7. \A q \in Walkers : WalkerOK(q)'
  <2> SUFFICES ASSUME NEW q \in Walkers PROVE WalkerOK(q)'
    OBVIOUS
  <2>1. where'[q] = where[q] \/ (where[q] = "top" /\ where'[q] = "done")
    BY <1>3, ThreadSets
  <2>2. Kept(q) => Kept(q)'
    BY <1>2, <1>3, <1>4, ThreadSets DEF Kept
  <2>3. Standing(q) => Standing(q)'
    BY <1>2, <1>4, <2>2 DEF Standing, list, walks
  <2> QED BY <1>2, <1>4, <2>1, <2>3 DEF ListInv, WalkerOK, list, walks
<1> QED BY <1>5, <1>6, <1>7 DEF ListInv

LEMMA ListInvInit == LinkInit => ListInv
<1> SUFFICES ASSUME LinkInit PROVE ListInv
  OBVIOUS
<1>1. PICK n \in Elements : used = {n}
  BY DEF LinkInit
<1>2. (CHOOSE e \in Elements : e \in used) = n
  BY <1>1
<1>3. next = [m \in Cells |-> IF m = n THEN srcu_lk ELSE IF m = srcu_lk THEN n ELSE Null]
      /\ prev = next
  BY <1>1, <1>2 DEF LinkInit, Cells
<1>4. First = n /\ ListOK
  BY <1>1, <1>3, CellSets DEF LinkInit, ListOK, First
<1>5. \A w \in Replacers : ReplacerOK(w)
  BY ThreadSets DEF LinkInit, ReplacerOK, HasElement, HasOld
<1>6. ASSUME NEW r \in Walkers PROVE WalkerOK(r)
  <2>1. where[r] = "top" /\ r \notin sections /\ floor[r] = 0 /\ newest = 0
    BY ThreadSets DEF LinkInit
  <2> QED BY <2>1 DEF WalkerOK
<1> QED BY <1>4, <1>5, <1>6, ListTypeInit DEF ListInv

LEMMA ListInvNext == ListInv /\ [LinkNext]_listVars => ListInv'
<1> SUFFICES ASSUME ListInv, [LinkNext]_listVars PROVE ListInv'
  OBVIOUS
<1>1. ListTypeOK'
  BY ListTypeNext
<1>2. ASSUME NEW r \in Walkers, WalkBegins(r) \/ Follow(r) \/ Visit(r) \/ WalkEnds(r)
      PROVE  ListInv'
  BY <1>1, <1>2, WalkerPreserves
<1>3. ASSUME NEW w \in Replacers,
             AllocateElement(w) \/ TakeLock(w) \/ CopyAndFill(w) \/ Replace(w) \/ FreeOld(w)
      PROVE  ListInv'
  BY <1>1, <1>3, AllocatePreserves, LockPreserves, CopyPreserves, ReplacePreserves, FreePreserves
<1>4. ASSUME NEW t \in Closers, GraceBegins(t) \/ GraceEnds(t) PROVE ListInv'
  BY <1>1, <1>4, GracePreserves
<1>5. ASSUME NEW t \in ListThreads, Ends(t) \/ StopThread(t) PROVE ListInv'
  BY <1>1, <1>5, EndPreserves
<1>6. CASE UNCHANGED listVars
  <2>1. First' = First
    BY <1>6 DEF listVars, First
  <2>2. ListOK' /\ \A w \in Replacers : ReplacerOK(w)'
    BY <1>6, <2>1 DEF listVars, ListInv, ListOK, ReplacerOK, HasElement, HasOld
  <2>3. \A r \in Walkers : WalkerOK(r)'
    BY <1>6, <2>1 DEF listVars, ListInv, WalkerOK, Standing, Kept
  <2> QED BY <1>1, <2>2, <2>3 DEF ListInv
<1> QED BY <1>2, <1>3, <1>4, <1>5, <1>6 DEF LinkNext

\* rcu_reader, rcu_writer, rcu_sync and rcu_stop keep the inductive invariant: the list
\* always has one element, every writer an element of its own, and what a reader stands
\* on is the list's element or one whose writer has still to wait for that reader.
THEOREM ListInvariance == LinkSpec => []ListInv
BY ListInvInit, ListInvNext, PTL DEF LinkSpec

\* The walk of list_for_each_entry_rcu, with readers asleep at every element and any
\* number of writers: it goes through memory that kfree has not been given, sees one
\* element, and none older than what a walk that had ended before it saw.
THEOREM WalksSafe == LinkSpec => []WalksTrue
<1>1. ListInv => WalksTrue
  <2> SUFFICES ASSUME ListInv, NEW r \in Walkers
               PROVE  /\ where[r] \in {"follow", "visit"} => elem[r] \in used \union {srcu_lk}
                      /\ where[r] = "last" => Len(walked[r]) = 1 /\ walked[r][1] >= floor[r]
    BY DEF WalksTrue
  <2>1. WalkerOK(r) /\ ListTypeOK
    BY DEF ListInv
  <2>2. where[r] \in {"follow", "visit"} => elem[r] \in used \union {srcu_lk}
    BY <2>1, KeptCells DEF WalkerOK, Standing
  <2>3. where[r] = "last" => Len(walked[r]) = 1 /\ walked[r][1] >= floor[r]
    <3> SUFFICES ASSUME where[r] = "last" PROVE Len(walked[r]) = 1 /\ walked[r][1] >= floor[r]
      OBVIOUS
    <3>1. Len(walked[r]) = 1 /\ floor[r] <= walked[r][1]
      BY <2>1 DEF WalkerOK
    <3>2. walked[r] \in Seq(Nat) /\ floor[r] \in Nat
      BY <2>1 DEF ListTypeOK
    <3>3. walked[r][1] \in Nat
      BY <3>1, <3>2
    <3> QED BY <3>1, <3>2, <3>3
  <2> QED BY <2>2, <2>3
<1> QED BY <1>1, ListInvariance, PTL
=============================================================================
