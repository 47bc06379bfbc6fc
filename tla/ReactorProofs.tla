--------------------------- MODULE ReactorProofs ----------------------------
(***************************************************************************)
(* Proofs about the Listener, for any connections, any number of           *)
(* descriptors and any sizes: its tables agree, no handler is deleted      *)
(* twice, and a polite peer is never cut off, whatever others do.          *)
(***************************************************************************)
EXTENDS Reactor, TLAPS, SequenceTheorems

\* The smaller of two numbers.
LEMMA MinOfTwo ==
  ASSUME NEW a \in Nat, NEW b \in Nat
  PROVE  Min({a, b}) = IF a <= b THEN a ELSE b
<1>1. CASE a <= b
  <2>1. \A x \in {a, b} : a <= x
    BY <1>1
  <2>2. \A x \in {a, b} : (\A y \in {a, b} : x <= y) => x = a
    BY <1>1
  <2> QED BY <1>1, <2>1, <2>2 DEF Min
<1>2. CASE ~(a <= b)
  <2>1. \A x \in {a, b} : b <= x
    BY <1>2
  <2>2. \A x \in {a, b} : (\A y \in {a, b} : x <= y) => x = b
    BY <1>2
  <2> QED BY <1>2, <2>1, <2>2 DEF Min
<1> QED BY <1>1, <1>2

\* A header at the beginning of a packet is recognised.
LEMMA PacketStart ==
  ASSUME NEW n \in Nat
  PROVE  (DataLen * n) % DataLen = 0
<1>1. DataLen \in Nat \ {0}
  BY ReactorAssumption
<1> QED BY <1>1

-----------------------------------------------------------------------------
(* What a handler does when it is called for an input event.                *)

\* The connection a handler is called for is open, has this descriptor and is
\* not on the deletion list.
LEMMA InputView ==
  ASSUME FdTables, EventsInRound, NEW f \in Fds, NEW p \in Conns, Input(f, p)
  PROVE  /\ f \in todo /\ f # Listen /\ owner[f] = p /\ fd[p] = f
         /\ conn[p] = "open" /\ p \notin Deleted
         /\ sent[p] > got[p] \/ eof[p]
<1>1. f \in todo \ {Listen} /\ owner[f] = p
  BY DEF Input, FdTables
<1>2. conn[p] = "open" /\ fd[p] = f
  BY <1>1, ReactorAssumption DEF FdTables
<1> QED BY <1>1, <1>2 DEF EventsInRound

\* The deletion list after an append.
LEMMA DeletedAppend ==
  ASSUME NEW p \in Conns, del_list \in Seq(Conns), del_list' = Append(del_list, p)
  PROVE  /\ del_list' \in Seq(Conns) /\ Deleted' = Deleted \cup {p}
         /\ IsInjective(del_list) /\ p \notin Deleted => IsInjective(del_list')
<1> DEFINE n == Len(del_list)
<1>1. n \in Nat /\ DOMAIN del_list = 1..n
  BY LenProperties
<1>2. /\ del_list' \in Seq(Conns) /\ Len(del_list') = n + 1
      /\ \A i \in 1..n : del_list'[i] = del_list[i]
      /\ del_list'[n + 1] = p
  BY AppendProperties
<1>3. DOMAIN del_list' = 1..n + 1
  BY <1>2, LenProperties
<1> HIDE DEF n
<1>4. Deleted' = Deleted \cup {p}
  <2>1. ASSUME NEW q \in Deleted' PROVE q \in Deleted \cup {p}
    <3>1. PICK i \in 1..n + 1 : q = del_list'[i]
      BY <1>3, <2>1 DEF Deleted
    <3>2. i \in 1..n \/ i = n + 1
      BY <1>1, <3>1
    <3> QED BY <1>1, <1>2, <3>1, <3>2 DEF Deleted
  <2>2. ASSUME NEW q \in Deleted PROVE q \in Deleted'
    <3>1. PICK i \in 1..n : q = del_list[i]
      BY <1>1, <2>2 DEF Deleted
    <3>2. i \in 1..n + 1 /\ q = del_list'[i]
      BY <1>1, <1>2, <3>1
    <3> QED BY <1>3, <3>2 DEF Deleted
  <2>3. p \in Deleted'
    <3>1. n + 1 \in 1..n + 1
      BY <1>1
    <3> QED BY <1>2, <1>3, <3>1 DEF Deleted
  <2> QED BY <2>1, <2>2, <2>3
<1>5. ASSUME IsInjective(del_list), p \notin Deleted
      PROVE  IsInjective(del_list')
  <2>1. SUFFICES ASSUME NEW i \in 1..n + 1, NEW j \in 1..n + 1,
                        del_list'[i] = del_list'[j]
                 PROVE  i = j
    BY <1>3 DEF IsInjective
  <2>2. \A k \in 1..n : del_list'[k] = del_list[k] /\ del_list[k] # p
    BY <1>1, <1>2, <1>5 DEF Deleted
  <2>3. CASE i \in 1..n /\ j \in 1..n
    BY <1>1, <1>5, <2>1, <2>2, <2>3 DEF IsInjective
  <2>4. CASE i = n + 1 \/ j = n + 1
    <3>1. (i \in 1..n \/ i = n + 1) /\ (j \in 1..n \/ j = n + 1)
      BY <1>1
    <3> QED BY <1>2, <2>1, <2>2, <2>4, <3>1
  <2> QED BY <1>1, <2>3, <2>4
<1> QED BY <1>2, <1>4, <1>5

\* Between rounds the list is empty.
LEMMA DeletedEmpty ==
  /\ del_list = <<>> => Deleted = {} /\ IsInjective(del_list)
  /\ del_list' = <<>> => Deleted' = {} /\ IsInjective(del_list')
BY DEF Deleted, IsInjective

-----------------------------------------------------------------------------
(* What a call of handle_input does.                                        *)

\* What the decoding of a connection's buffer may change.
Decoded(p) ==
  /\ UNCHANGED fdVars /\ (reactor' = reactor \/ reactor' = "dead")
  /\ \/ del_list' = del_list /\ cause' = cause
     \/ /\ p \notin Polite /\ del_list' = Append(del_list, p)
        /\ \E why \in Causes : cause' = [cause EXCEPT ![p] = why]
  /\ \/ UNCHANGED <<start, handled>> /\ p \notin Polite
     \/ start' = [start EXCEPT ![p] = got'[p]] /\ handled' = handled /\ p \notin Polite
     \/ got'[p] - start[p] >= DataLen /\ TakePacket(p, DataLen)

\* The received part of the stream.
LEMMA Received ==
  ASSUME IInv, NEW f \in Fds, NEW p \in Conns, RecvData(f, p)
  PROVE  /\ got' \in [Conns -> Nat] /\ got[p] < got'[p] /\ got'[p] <= sent[p]
         /\ \A q \in Conns \ {p} : got'[q] = got[q]
         /\ p \in Polite => /\ got'[p] = sent[p] /\ got'[p] - start[p] = DataLen
                            /\ start[p] % DataLen = 0
<1> USE ReactorAssumption
<1>1. sent[p] \in Nat /\ got[p] \in Nat /\ RecvMax \in Nat \ {0} /\ got[p] + RecvMax \in Nat
  BY DEF IInv, TypeOK
<1>2. got[p] < sent[p] /\ got' = [got EXCEPT ![p] = Min({sent[p], got[p] + RecvMax})]
  BY DEF RecvData
<1>3. got' = [got EXCEPT ![p] = IF sent[p] <= got[p] + RecvMax THEN sent[p]
                                                          ELSE got[p] + RecvMax]
  BY <1>1, <1>2, MinOfTwo
<1>4. got'[p] = IF sent[p] <= got[p] + RecvMax THEN sent[p] ELSE got[p] + RecvMax
  BY <1>3 DEF IInv, TypeOK
<1>5. got' \in [Conns -> Nat] /\ got[p] < got'[p] /\ got'[p] <= sent[p]
  BY <1>1, <1>2, <1>3, <1>4 DEF IInv, TypeOK
<1>6. ASSUME p \in Polite
      PROVE  /\ got'[p] = sent[p] /\ got'[p] - start[p] = DataLen
             /\ start[p] % DataLen = 0
  <2>1. /\ got[p] = start[p] /\ sent[p] \in {start[p], start[p] + DataLen}
        /\ DataLen <= RecvMax /\ DataLen \in Nat
    BY <1>6 DEF IInv, OneAtATime
  <2>2. got'[p] = sent[p] /\ got'[p] - start[p] = DataLen
    BY <1>1, <1>2, <1>4, <2>1
  <2>3. start[p] = DataLen * handled[p] /\ handled[p] \in Nat
    BY <1>6 DEF IInv, PoliteKept, TypeOK
  <2> QED BY <2>2, <2>3, PacketStart
<1> QED BY <1>3, <1>5, <1>6 DEF IInv, TypeOK

LEMMA DecodeStep ==
  ASSUME IInv, NEW f \in Fds, NEW p \in Conns, RecvData(f, p)
  PROVE  Decoded(p)
<1> DEFINE length == got'[p] - start[p]
<1>1. /\ HeaderLen \in Nat \ {0} /\ DataLen \in Nat /\ HeaderLen < DataLen
      /\ p \in Polite => length = DataLen /\ start[p] % DataLen = 0
      /\ length \in Int
  BY Received, ReactorAssumption DEF IInv, TypeOK
<1> HIDE DEF length
<1>2. CASE DecodeCloud(p)
  <2>1. CASE length < HeaderLen /\ KeepOpen /\ UNCHANGED <<start, handled, reactor>>
    BY <1>1, <2>1 DEF Decoded, KeepOpen
  <2>2. CASE /\ length >= HeaderLen /\ start[p] % DataLen # 0
             /\ PutDelList(p, "decode") /\ UNCHANGED <<start, handled, reactor>>
    BY <1>1, <2>2 DEF Decoded, PutDelList, Causes
  <2>3. CASE /\ Complete(length) /\ start[p] % DataLen = 0
             /\ TakePacket(p, DataLen) /\ Answer(p)
    <3>1. UNCHANGED fdVars /\ (reactor' = reactor \/ reactor' = "dead")
      BY <2>3 DEF Answer, KeepOpen, PutDelList
    <3>2. \/ del_list' = del_list /\ cause' = cause
          \/ /\ p \notin Polite /\ del_list' = Append(del_list, p)
             /\ \E why \in Causes : cause' = [cause EXCEPT ![p] = why]
      BY <2>3 DEF Answer, KeepOpen, PutDelList, Causes
    <3> QED BY <2>3, <3>1, <3>2 DEF Decoded, Complete, length
  <2>4. CASE /\ length >= HeaderLen /\ p \notin Polite
             /\ PutDelList(p, "decode") /\ UNCHANGED <<start, handled, reactor>>
    BY <2>4 DEF Decoded, PutDelList, Causes
  <2>5. CASE /\ HeaderLen <= length /\ ~Complete(length) /\ start[p] % DataLen = 0
             /\ start' = [start EXCEPT ![p] = got'[p]]
             /\ KeepOpen /\ UNCHANGED <<handled, reactor>>
    BY <1>1, <2>5 DEF Decoded, KeepOpen, Complete
  <2> QED BY <1>2, <2>1, <2>2, <2>3, <2>4, <2>5, Zenon DEF DecodeCloud, length
<1>3. CASE DecodeMonitor(p)
  <2>1. CASE length = DataLen /\ TakePacket(p, DataLen) /\ KeepOpen /\ UNCHANGED reactor
    BY <1>1, <2>1 DEF Decoded, KeepOpen, length
  <2>2. CASE /\ ~(start[p] % DataLen = 0 /\ length = DataLen) \/ p \notin Polite
             /\ PutDelList(p, "decode") /\ UNCHANGED <<start, handled, reactor>>
    BY <1>1, <2>2 DEF Decoded, PutDelList, Causes
  <2> QED BY <1>3, <2>1, <2>2 DEF DecodeMonitor, length
<1> QED BY <1>2, <1>3 DEF RecvData

\* Any call of handle_input: the event is done, the tables stay, the buffer is
\* cut at a packet or the connection is another than a polite one.
LEMMA InputStep ==
  ASSUME IInv, NEW f \in Fds, NEW p \in Conns, RecvNothing(f, p) \/ RecvData(f, p)
  PROVE  /\ reactor = "round" /\ reactor' \in {"round", "dead"} /\ todo' = todo \ {f}
         /\ UNCHANGED <<client_class, fdVars, conn, sent, eof>>
         /\ \/ del_list' = del_list /\ cause' = cause
            \/ /\ p \notin Polite /\ del_list' = Append(del_list, p)
               /\ \E why \in Causes : cause' = [cause EXCEPT ![p] = why]
         /\ got' \in [Conns -> Nat] /\ start' \in [Conns -> Nat]
         /\ handled' \in [Conns -> Nat]
         /\ \A q \in Conns \ {p} :
              got'[q] = got[q] /\ start'[q] = start[q] /\ handled'[q] = handled[q]
         /\ start'[p] <= got'[p] /\ got'[p] <= sent[p]
         /\ p \in Polite => /\ got'[p] = sent[p] /\ start'[p] = got'[p]
                            /\ start'[p] = DataLen * handled'[p]
<1>1. /\ sent[p] \in Nat /\ got[p] \in Nat /\ start[p] \in Nat /\ handled[p] \in Nat
      /\ start[p] <= got[p] /\ got[p] <= sent[p] /\ DataLen \in Nat
  BY ReactorAssumption DEF IInv, TypeOK
<1>2. /\ Input(f, p) /\ reactor = "round" /\ todo' = todo \ {f}
      /\ UNCHANGED <<client_class, conn, sent, eof>>
  BY DEF RecvNothing, RecvData, Input, peerVars
<1>3. CASE RecvNothing(f, p)
  <2>1. p \notin Polite
    BY <1>1, <1>2, <1>3, InputView DEF RecvNothing, IInv, OneAtATime
  <2>2. /\ del_list' = Append(del_list, p) /\ UNCHANGED <<fdVars, bufVars, reactor>>
        /\ \E why \in Causes : cause' = [cause EXCEPT ![p] = why]
    BY <1>3 DEF RecvNothing, PutDelList, Causes
  <2>3. /\ UNCHANGED <<got, start, handled>> /\ reactor' = reactor /\ got \in [Conns -> Nat]
        /\ start \in [Conns -> Nat] /\ handled \in [Conns -> Nat]
    BY <2>2 DEF IInv, TypeOK, bufVars
  <2> QED BY <1>1, <1>2, <2>1, <2>2, <2>3
<1>4. CASE RecvData(f, p)
  <2>0. start \in [Conns -> Nat] /\ handled \in [Conns -> Nat]
    BY DEF IInv, TypeOK
  <2>1. Decoded(p)
    BY <1>4, DecodeStep
  <2>2. /\ got' \in [Conns -> Nat] /\ got[p] < got'[p] /\ got'[p] <= sent[p]
        /\ \A q \in Conns \ {p} : got'[q] = got[q]
        /\ p \in Polite => got'[p] = sent[p] /\ got'[p] - start[p] = DataLen
    BY <1>4, Received
  <2>3. CASE UNCHANGED <<start, handled>> /\ p \notin Polite
    BY <1>1, <1>2, <2>0, <2>1, <2>2, <2>3 DEF Decoded
  <2>4. CASE start' = [start EXCEPT ![p] = got'[p]] /\ handled' = handled /\ p \notin Polite
    BY <1>1, <1>2, <2>0, <2>1, <2>2, <2>4 DEF Decoded
  <2>5. CASE got'[p] - start[p] >= DataLen /\ TakePacket(p, DataLen)
    <3>1. /\ start' \in [Conns -> Nat] /\ handled' \in [Conns -> Nat]
          /\ \A q \in Conns \ {p} : start'[q] = start[q] /\ handled'[q] = handled[q]
          /\ start'[p] = start[p] + DataLen /\ handled'[p] = handled[p] + 1
      BY <1>1, <2>5 DEF TakePacket, IInv, TypeOK
    <3>2. start'[p] <= got'[p]
      BY <1>1, <2>2, <2>5, <3>1
    <3>3. p \in Polite => start'[p] = got'[p] /\ start'[p] = DataLen * handled'[p]
      <4>1. SUFFICES ASSUME p \in Polite
                     PROVE  start'[p] = got'[p] /\ start'[p] = DataLen * handled'[p]
        OBVIOUS
      <4>2. start[p] = DataLen * handled[p]
        BY <4>1 DEF IInv, PoliteKept
      <4>3. DataLen * handled[p] + DataLen = DataLen * (handled[p] + 1)
        BY <1>1
      <4> QED BY <1>1, <2>2, <3>1, <4>1, <4>2, <4>3
    <3> QED BY <1>1, <1>2, <2>1, <2>2, <3>1, <3>2, <3>3 DEF Decoded
  <2> QED BY <2>1, <2>3, <2>4, <2>5 DEF Decoded
<1> QED BY <1>3, <1>4

-----------------------------------------------------------------------------
(* The inductive invariant.                                                 *)

LEMMA InvariantInit == Init => IInv
<1> SUFFICES ASSUME Init PROVE IInv
  OBVIOUS
<1> USE ReactorAssumption
<1>1. del_list = <<>> /\ Deleted = {} /\ IsInjective(del_list)
  BY DeletedEmpty DEF Init
<1>2. TypeOK
  BY <1>1 DEF Init, TypeOK, Causes
<1>3. FdTables /\ DeletedOnce /\ EventsInRound
  BY <1>1 DEF Init, FdTables, DeletedOnce, EventsInRound
<1>4. PoliteKept /\ OneAtATime
  BY <1>1 DEF Init, PoliteKept, OneAtATime
<1> QED BY <1>2, <1>3, <1>4 DEF IInv

\* What the peers and the kernel do.
LEMMA PeersPreserve ==
  ASSUME IInv, NEW p \in Conns, Connect(p) \/ Send(p) \/ Close(p)
  PROVE  IInv'
<1> USE ReactorAssumption
<1>1. UNCHANGED <<client_class, reactor, todo, fdVars, del_list, bufVars, cause>>
  BY DEF Connect, Send, Close
<1>2. Deleted' = Deleted
  BY <1>1 DEF Deleted
<1>3. CASE Connect(p)
  <2>1. conn[p] = "off" /\ conn' = [conn EXCEPT ![p] = "backlog"] /\ UNCHANGED peerVars
    BY <1>3 DEF Connect
  <2>2. TypeOK'
    BY <1>1, <2>1 DEF IInv, TypeOK, peerVars, fdVars, bufVars
  <2>3. FdTables' /\ DeletedOnce'
    BY <1>1, <1>2, <2>1 DEF IInv, TypeOK, FdTables, DeletedOnce, IsInjective, fdVars
  <2>4. EventsInRound' /\ PoliteKept' /\ OneAtATime'
    BY <1>1, <1>2, <2>1 DEF IInv, EventsInRound, PoliteKept, OneAtATime, peerVars,
                            fdVars, bufVars
  <2> QED BY <2>2, <2>3, <2>4 DEF IInv
<1>4. CASE Send(p)
  <2>1. PICK n \in 1..MaxPackets[p] * DataLen - sent[p] :
          /\ p \in Polite => n = DataLen /\ sent[p] = DataLen * handled[p]
          /\ sent' = [sent EXCEPT ![p] = @ + n]
    BY <1>4 DEF Send
  <2>2. /\ sent[p] \in Nat /\ n \in Nat /\ sent[p] + n <= MaxPackets[p] * DataLen
        /\ MaxPackets[p] * DataLen \in Nat
    <3>1. sent[p] \in Nat /\ MaxPackets[p] \in Nat /\ DataLen \in Nat
      BY DEF IInv, TypeOK
    <3>2. MaxPackets[p] * DataLen \in Nat
      BY <3>1
    <3> DEFINE m == MaxPackets[p] * DataLen
    <3>3. m \in Nat /\ n \in 1..m - sent[p]
      BY <2>1, <3>2
    <3> HIDE DEF m
    <3>4. n \in Nat /\ sent[p] + n <= m
      BY <3>1, <3>3
    <3> QED BY <3>1, <3>2, <3>4 DEF m
  <2>3. /\ sent' \in [Conns -> Nat] /\ sent'[p] = sent[p] + n
        /\ \A q \in Conns \ {p} : sent'[q] = sent[q]
        /\ UNCHANGED <<conn, eof>>
    <3>1. sent \in [Conns -> Nat]
      BY DEF IInv, TypeOK
    <3>2. UNCHANGED <<conn, eof>>
      BY <1>4 DEF Send
    <3>3. sent[p] + n \in Nat
      BY <2>2
    <3> QED BY <2>1, <3>1, <3>2, <3>3
  <2>4. \A q \in Conns : got[q] \in Nat /\ sent[q] \in Nat /\ got[q] <= sent'[q]
    <3>1. \A q \in Conns : got[q] \in Nat /\ sent[q] \in Nat /\ got[q] <= sent[q]
      BY DEF IInv, TypeOK
    <3>2. \A q \in Conns : sent'[q] = sent[q] \/ sent'[q] = sent[q] + n
      BY <2>3
    <3> QED BY <2>2, <3>1, <3>2
  <2>5. TypeOK'
    <3>1. \A q \in Conns : /\ start'[q] <= got'[q] /\ got'[q] <= sent'[q]
                           /\ sent'[q] <= MaxPackets[q] * DataLen
      BY <1>1, <2>2, <2>3, <2>4 DEF IInv, TypeOK, bufVars
    <3> QED BY <1>1, <2>3, <3>1 DEF IInv, TypeOK, fdVars, bufVars
  <2>6. FdTables' /\ DeletedOnce'
    BY <1>1, <1>2, <2>3 DEF IInv, FdTables, DeletedOnce, fdVars, IsInjective
  <2>7. EventsInRound'
    <3>1. \A q \in Conns : sent[q] > got[q] => sent'[q] > got'[q]
      BY <1>1, <2>2, <2>3, <2>4 DEF bufVars
    <3>2. \A g \in todo \ {Listen} : owner[g] \in Conns
      BY DEF IInv, TypeOK, EventsInRound
    <3> QED BY <1>1, <1>2, <2>3, <3>1, <3>2 DEF IInv, EventsInRound, fdVars
  <2>8. PoliteKept'
    BY <1>1 DEF IInv, PoliteKept, bufVars
  <2>9. OneAtATime'
    <3>1. ASSUME p \in Polite PROVE sent'[p] = start[p] + DataLen
      BY <2>1, <2>3, <3>1 DEF IInv, PoliteKept
    <3> QED BY <1>1, <1>2, <2>3, <3>1 DEF IInv, OneAtATime, bufVars
  <2> QED BY <2>5, <2>6, <2>7, <2>8, <2>9 DEF IInv
<1>5. CASE Close(p)
  <2>1. p \notin Polite /\ eof' = [eof EXCEPT ![p] = TRUE] /\ UNCHANGED <<conn, sent>>
    BY <1>5 DEF Close
  <2>2. TypeOK'
    BY <1>1, <2>1 DEF IInv, TypeOK, fdVars, bufVars
  <2>3. FdTables' /\ DeletedOnce'
    BY <1>1, <1>2, <2>1 DEF IInv, FdTables, DeletedOnce, fdVars, IsInjective
  <2>4. EventsInRound'
    <3>1. \A q \in Conns : eof[q] => eof'[q]
      BY <2>1 DEF IInv, TypeOK
    <3>2. \A g \in todo \ {Listen} : owner[g] \in Conns
      BY DEF IInv, TypeOK, EventsInRound
    <3> QED BY <1>1, <1>2, <2>1, <3>1, <3>2 DEF IInv, EventsInRound, fdVars, bufVars
  <2>5. PoliteKept' /\ OneAtATime'
    BY <1>1, <1>2, <2>1 DEF IInv, TypeOK, PoliteKept, OneAtATime, bufVars
  <2> QED BY <2>2, <2>3, <2>4, <2>5 DEF IInv
<1> QED BY <1>3, <1>4, <1>5

\* The poll: every event is of a connection with something to receive.
LEMMA PollPreserves == IInv /\ Poll => IInv'
<1> SUFFICES ASSUME IInv, Poll PROVE IInv'
  OBVIOUS
<1>1. /\ reactor = "poll" /\ reactor' = "round" /\ todo' = Ready
      /\ UNCHANGED <<client_class, fdVars, del_list, conn, peerVars, bufVars, cause>>
  BY DEF Poll
<1>2. del_list = <<>> /\ Deleted = {} /\ Deleted' = {}
  BY <1>1, DeletedEmpty DEF IInv, EventsInRound
<1>3. \A f \in Ready :
        f = Listen \/ (f \in registered /\ (sent[owner[f]] > got[owner[f]] \/ eof[owner[f]]))
  <2>1. CASE \E p \in Conns : conn[p] = "backlog"
    BY <2>1 DEF Ready
  <2>2. CASE ~\E p \in Conns : conn[p] = "backlog"
    BY <2>2 DEF Ready
  <2> QED BY <2>1, <2>2
<1>4. TypeOK'
  <2>1. todo' \subseteq Fds \cup {Listen}
    BY <1>1, <1>3 DEF IInv, TypeOK
  <2>2. del_list' \in Seq(Conns)
    BY <1>1 DEF IInv, TypeOK
  <2> QED BY <1>1, <2>1, <2>2 DEF IInv, TypeOK, fdVars, peerVars, bufVars
<1>5. FdTables' /\ DeletedOnce'
  BY <1>1, <1>2 DEF IInv, FdTables, DeletedOnce, fdVars, IsInjective
<1>6. EventsInRound'
  <2>1. ASSUME NEW f \in todo' \ {Listen}
        PROVE  /\ owner'[f] # NoConn
               /\ sent'[owner'[f]] > got'[owner'[f]] \/ eof'[owner'[f]]
    <3>1. f \in registered /\ (sent[owner[f]] > got[owner[f]] \/ eof[owner[f]])
      BY <1>1, <1>3, <2>1
    <3>2. owner[f] # NoConn
      BY <3>1 DEF IInv, FdTables
    <3> QED BY <1>1, <3>1, <3>2 DEF fdVars, peerVars, bufVars
  <2> QED BY <1>1, <1>2, <2>1 DEF EventsInRound
<1>7. PoliteKept' /\ OneAtATime'
  BY <1>1, <1>2 DEF IInv, PoliteKept, OneAtATime, peerVars, bufVars
<1> QED BY <1>4, <1>5, <1>6, <1>7 DEF IInv

\* The end of a round: what is on the list is detached and closed.
LEMMA EndRoundPreserves == IInv /\ EndRound => IInv'
<1> SUFFICES ASSUME IInv, EndRound PROVE IInv'
  OBVIOUS
<1> DEFINE fds == {fd[p] : p \in Deleted}
<1>1. /\ reactor = "round" /\ todo' = {}
      /\ UNCHANGED <<client_class, fd, peerVars, bufVars, cause>>
  BY DEF EndRound
<1>2. Deleted \subseteq Conns
  BY ElementOfSeq DEF IInv, TypeOK, Deleted
<1>3. /\ IsInjective(del_list) /\ fds \subseteq registered
      /\ \A p \in Deleted : conn[p] = "open" /\ fd[p] \in Fds /\ owner[fd[p]] = p
  BY <1>2, ReactorAssumption DEF IInv, DeletedOnce, FdTables
<1>4. /\ registered' = registered \ fds
      /\ handlers' = [f \in Fds |-> IF f \in fds THEN NoConn ELSE handlers[f]]
      /\ owner' = [f \in Fds |-> IF owner[f] \in Deleted THEN NoConn ELSE owner[f]]
      /\ conn' = [p \in Conns |-> IF p \in Deleted THEN "closed" ELSE conn[p]]
      /\ del_list' = <<>> /\ reactor' = "poll"
  BY <1>3 DEF EndRound, Forget, Emptied
<1>5. Deleted' = {} /\ IsInjective(del_list')
  BY <1>4, DeletedEmpty
<1>6. \A f \in Fds : owner[f] \in Deleted <=> f \in fds
  BY <1>2, <1>3, ReactorAssumption DEF IInv, FdTables
<1> HIDE DEF fds
<1>7. TypeOK'
  <2>1. /\ handlers' \in [Fds -> Conns \cup {NoConn}]
        /\ owner' \in [Fds -> Conns \cup {NoConn}]
        /\ conn' \in [Conns -> {"off", "backlog", "open", "closed"}]
        /\ registered' \subseteq Fds /\ del_list' \in Seq(Conns)
    BY <1>4 DEF IInv, TypeOK
  <2> QED BY <1>1, <1>4, <2>1 DEF IInv, TypeOK, peerVars, bufVars
<1>8. FdTables'
  <2>1. handlers' = owner'
    BY <1>4, <1>6 DEF IInv, FdTables
  <2>2. registered' = {f \in Fds : owner'[f] # NoConn}
    BY <1>2, <1>4, <1>6, ReactorAssumption DEF IInv, FdTables
  <2>3. \A f \in Fds : owner'[f] # NoConn => conn'[owner'[f]] = "open" /\ fd'[owner'[f]] = f
    BY <1>1, <1>4 DEF IInv, FdTables, TypeOK
  <2>4. \A p \in Conns : conn'[p] = "open" => fd'[p] \in Fds /\ owner'[fd'[p]] = p
    BY <1>1, <1>4 DEF IInv, FdTables
  <2> QED BY <2>1, <2>2, <2>3, <2>4 DEF FdTables
<1>9. DeletedOnce' /\ EventsInRound'
  BY <1>1, <1>4, <1>5 DEF DeletedOnce, EventsInRound
<1>10. PoliteKept' /\ OneAtATime'
  BY <1>1, <1>5 DEF IInv, PoliteKept, OneAtATime, peerVars, bufVars
<1> QED BY <1>7, <1>8, <1>9, <1>10 DEF IInv

\* A new connection takes a descriptor that is not in use.
LEMMA AcceptPreserves ==
  ASSUME IInv, NEW p \in Conns, Accept(p)
  PROVE  IInv'
<1> USE ReactorAssumption
<1>1. /\ reactor = "round" /\ conn[p] = "backlog" /\ todo' = todo \ {Listen}
      /\ UNCHANGED <<client_class, del_list, peerVars, bufVars, cause>>
  BY DEF Accept
<1>2. Deleted' = Deleted /\ Deleted \subseteq Conns
  BY <1>1, ElementOfSeq DEF IInv, TypeOK, Deleted
<1>3. CASE reactor' = "dead" /\ UNCHANGED <<fdVars, conn>>
  <2>1. TypeOK' /\ FdTables' /\ DeletedOnce'
    <3>1. todo' \subseteq Fds \cup {Listen} /\ del_list' \in Seq(Conns)
      BY <1>1 DEF IInv, TypeOK
    <3>2. TypeOK'
      BY <1>1, <1>3, <3>1 DEF IInv, TypeOK, fdVars, peerVars, bufVars
    <3>3. FdTables'
      BY <1>1, <1>3 DEF IInv, FdTables, fdVars
    <3>4. DeletedOnce'
      BY <1>1, <1>2, <1>3 DEF IInv, DeletedOnce, IsInjective
    <3> QED BY <3>2, <3>3, <3>4
  <2>2. EventsInRound' /\ PoliteKept' /\ OneAtATime'
    BY <1>1, <1>2, <1>3 DEF IInv, EventsInRound, PoliteKept, OneAtATime, fdVars, peerVars, bufVars
  <2> QED BY <2>1, <2>2 DEF IInv
<1>4. ASSUME NEW f \in Fds, owner[f] = NoConn,
             handlers' = [handlers EXCEPT ![f] = p],
             owner' = [owner EXCEPT ![f] = p],
             registered' = registered \cup {f},
             fd' = [fd EXCEPT ![p] = f],
             conn' = [conn EXCEPT ![p] = "open"],
             UNCHANGED reactor
      PROVE  IInv'
  <2>1. ASSUME NEW g \in Fds, owner[g] = p PROVE FALSE
    <3>1. conn[owner[g]] = "open"
      BY <1>1, <2>1 DEF IInv, FdTables
    <3> QED BY <1>1, <2>1, <3>1
  <2>2. TypeOK'
    <3>1. /\ handlers' \in [Fds -> Conns \cup {NoConn}]
          /\ owner' \in [Fds -> Conns \cup {NoConn}]
          /\ fd' \in [Conns -> Fds \cup {0}]
          /\ conn' \in [Conns -> {"off", "backlog", "open", "closed"}]
          /\ registered' \subseteq Fds
      BY <1>4 DEF IInv, TypeOK
    <3> QED BY <1>1, <1>4, <3>1 DEF IInv, TypeOK, peerVars, bufVars
  <2>3. /\ owner'[f] = p /\ \A g \in Fds \ {f} : owner'[g] = owner[g]
        /\ fd'[p] = f /\ \A q \in Conns \ {p} : fd'[q] = fd[q]
        /\ conn'[p] = "open" /\ \A q \in Conns \ {p} : conn'[q] = conn[q]
    BY <1>4 DEF IInv, TypeOK
  <2>4. FdTables'
    <3>1. handlers' = owner'
      BY <1>4 DEF IInv, FdTables
    <3>2. registered' = {g \in Fds : owner'[g] # NoConn}
      BY <1>4, <2>3 DEF IInv, FdTables
    <3>3. \A g \in Fds : owner'[g] # NoConn => conn'[owner'[g]] = "open" /\ fd'[owner'[g]] = g
      <4>1. ASSUME NEW g \in Fds \ {f}, owner'[g] # NoConn
            PROVE  conn'[owner'[g]] = "open" /\ fd'[owner'[g]] = g
        <5>1. owner'[g] = owner[g] /\ owner[g] \in Conns \ {p}
          BY <2>1, <2>3, <4>1 DEF IInv, TypeOK
        <5> QED BY <2>3, <4>1, <5>1 DEF IInv, FdTables
      <4> QED BY <2>3, <4>1
    <3>4. \A q \in Conns : conn'[q] = "open" => fd'[q] \in Fds /\ owner'[fd'[q]] = q
      <4>1. ASSUME NEW q \in Conns \ {p}, conn'[q] = "open"
            PROVE  fd'[q] \in Fds /\ owner'[fd'[q]] = q
        <5>1. fd'[q] = fd[q] /\ fd[q] \in Fds /\ owner[fd[q]] = q
          BY <2>3, <4>1 DEF IInv, FdTables
        <5> QED BY <1>4, <2>3, <5>1
      <4> QED BY <2>3, <4>1
    <3> QED BY <3>1, <3>2, <3>3, <3>4 DEF FdTables
  <2>5. p \notin Deleted
    BY <1>1 DEF IInv, DeletedOnce
  <2>6. DeletedOnce'
    BY <1>1, <1>2, <2>3, <2>5 DEF IInv, DeletedOnce, IsInjective
  <2>7. EventsInRound'
    <3>1. \A q \in Deleted' : fd'[q] \notin todo'
      BY <1>1, <1>2, <2>3, <2>5 DEF IInv, EventsInRound
    <3>2. ASSUME NEW g \in todo' \ {Listen}
          PROVE  /\ owner'[g] # NoConn
                 /\ sent'[owner'[g]] > got'[owner'[g]] \/ eof'[owner'[g]]
      <4>1. /\ owner[g] # NoConn /\ g \in Fds
            /\ sent[owner[g]] > got[owner[g]] \/ eof[owner[g]]
        BY <1>1, <3>2 DEF IInv, EventsInRound, TypeOK
      <4>2. owner'[g] = owner[g]
        BY <1>4, <2>3, <4>1
      <4> QED BY <1>1, <4>1, <4>2 DEF peerVars, bufVars
    <3> QED BY <1>1, <1>4, <3>1, <3>2 DEF EventsInRound
  <2>8. PoliteKept' /\ OneAtATime'
    BY <1>1, <1>2 DEF IInv, PoliteKept, OneAtATime, peerVars, bufVars
  <2> QED BY <2>2, <2>4, <2>6, <2>7, <2>8 DEF IInv
<1> QED BY <1>3, <1>4 DEF Accept

\* A call of handle_input.
LEMMA InputPreserves ==
  ASSUME IInv, NEW f \in Fds, NEW p \in Conns, RecvNothing(f, p) \/ RecvData(f, p)
  PROVE  IInv'
<1> USE ReactorAssumption
<1>1. /\ f \in todo /\ f # Listen /\ owner[f] = p /\ fd[p] = f
      /\ conn[p] = "open" /\ p \notin Deleted
  BY InputView DEF IInv, RecvNothing, RecvData
<1>2. /\ reactor = "round" /\ reactor' \in {"round", "dead"} /\ todo' = todo \ {f}
      /\ UNCHANGED <<client_class, fdVars, conn, sent, eof>>
  BY InputStep
<1>3. \/ del_list' = del_list /\ cause' = cause
      \/ /\ p \notin Polite /\ del_list' = Append(del_list, p)
         /\ \E why \in Causes : cause' = [cause EXCEPT ![p] = why]
  BY InputStep
<1>4. /\ got' \in [Conns -> Nat] /\ start' \in [Conns -> Nat]
      /\ handled' \in [Conns -> Nat]
      /\ \A q \in Conns \ {p} :
           got'[q] = got[q] /\ start'[q] = start[q] /\ handled'[q] = handled[q]
      /\ start'[p] <= got'[p] /\ got'[p] <= sent[p]
      /\ p \in Polite => /\ got'[p] = sent[p] /\ start'[p] = got'[p]
                         /\ start'[p] = DataLen * handled'[p]
  BY InputStep
<1>5. /\ del_list' \in Seq(Conns) /\ IsInjective(del_list')
      /\ Deleted \subseteq Deleted' /\ Deleted' \subseteq Deleted \cup {p}
      /\ p \in Polite => Deleted' = Deleted
  <2>1. del_list \in Seq(Conns) /\ IsInjective(del_list)
    BY DEF IInv, TypeOK, DeletedOnce
  <2>2. CASE del_list' = del_list
    <3>1. Deleted' = Deleted
      BY <2>2 DEF Deleted
    <3>2. IsInjective(del_list')
      BY <2>1, <2>2
    <3> QED BY <2>1, <2>2, <3>1, <3>2
  <2>3. CASE del_list' = Append(del_list, p) /\ p \notin Polite
    BY <1>1, <2>1, <2>3, DeletedAppend
  <2> QED BY <1>3, <2>2, <2>3
<1>6. TypeOK'
  <2>1. cause' \in [Conns -> Causes]
    BY <1>3 DEF IInv, TypeOK
  <2>2. \A q \in Conns : start'[q] <= got'[q] /\ got'[q] <= sent[q]
    <3>1. \A q \in Conns : start[q] <= got[q] /\ got[q] <= sent[q]
      BY DEF IInv, TypeOK
    <3> QED BY <1>4, <3>1
  <2>3. \A q \in Conns : sent'[q] <= MaxPackets[q] * DataLen
    BY <1>2 DEF IInv, TypeOK
  <2> QED BY <1>2, <1>4, <1>5, <2>1, <2>2, <2>3 DEF IInv, TypeOK, fdVars
<1>7. FdTables'
  BY <1>2 DEF IInv, FdTables, fdVars
<1>8. DeletedOnce'
  BY <1>1, <1>2, <1>5 DEF IInv, DeletedOnce
<1>9. EventsInRound'
  <2>1. \A q \in Deleted' : fd'[q] \notin todo'
    BY <1>1, <1>2, <1>5 DEF IInv, EventsInRound, fdVars
  <2>2. ASSUME NEW g \in todo' \ {Listen}
        PROVE  /\ owner'[g] # NoConn
               /\ sent'[owner'[g]] > got'[owner'[g]] \/ eof'[owner'[g]]
    <3>1. /\ owner[g] # NoConn /\ g \in Fds /\ g # f
          /\ sent[owner[g]] > got[owner[g]] \/ eof[owner[g]]
      BY <1>2, <2>2 DEF IInv, EventsInRound, TypeOK
    <3>2. owner[g] \in Conns /\ owner[g] # p
      BY <1>1, <3>1 DEF IInv, FdTables, TypeOK
    <3> QED BY <1>2, <1>4, <3>1, <3>2 DEF fdVars
  <2> QED BY <1>2, <2>1, <2>2 DEF EventsInRound
<1>10. PoliteKept'
  BY <1>3, <1>4 DEF IInv, PoliteKept, TypeOK
<1>11. OneAtATime'
  <2>1. ASSUME NEW q \in Polite
        PROVE  /\ ~eof'[q] /\ q \notin Deleted'
               /\ got'[q] = start'[q] /\ sent'[q] \in {start'[q], start'[q] + DataLen}
    <3>1. CASE q = p
      BY <1>2, <1>4, <1>5, <2>1, <3>1 DEF IInv, OneAtATime
    <3>2. CASE q # p
      BY <1>2, <1>4, <1>5, <2>1, <3>2 DEF IInv, OneAtATime
    <3> QED BY <3>1, <3>2
  <2> QED BY <2>1 DEF OneAtATime
<1> QED BY <1>6, <1>7, <1>8, <1>9, <1>10, <1>11 DEF IInv

LEMMA InvariantNext == IInv /\ [Next]_vars => IInv'
<1> SUFFICES ASSUME IInv, [Next]_vars PROVE IInv'
  OBVIOUS
<1>1. CASE Poll \/ EndRound
  BY <1>1, PollPreserves, EndRoundPreserves
<1>2. CASE Handle
  BY <1>2, AcceptPreserves, InputPreserves DEF Handle
<1>3. CASE \E p \in Conns : Connect(p) \/ Send(p) \/ Close(p)
  BY <1>3, PeersPreserve
<1>4. CASE UNCHANGED vars
  <2>1. Deleted' = Deleted
    BY <1>4 DEF vars, Deleted
  <2>2. TypeOK' /\ FdTables'
    BY <1>4 DEF vars, fdVars, peerVars, bufVars, IInv, TypeOK, FdTables
  <2>3. DeletedOnce' /\ EventsInRound'
    BY <1>4, <2>1 DEF vars, fdVars, peerVars, bufVars, IInv, DeletedOnce, IsInjective,
                      EventsInRound
  <2>4. PoliteKept' /\ OneAtATime'
    BY <1>4, <2>1 DEF vars, peerVars, bufVars, IInv, PoliteKept, OneAtATime
  <2> QED BY <2>2, <2>3, <2>4 DEF IInv
<1> QED BY <1>1, <1>2, <1>3, <1>4 DEF Next, Reactor

\* The invariant of the Listener, for any peers and any descriptors.
THEOREM Invariance == Spec => []IInv
<1>1. Init => IInv
  BY InvariantInit
<1>2. IInv /\ [Next]_vars => IInv'
  BY InvariantNext
<1> QED BY <1>1, <1>2, PTL DEF Spec

\* The Listener's, epoll's and the kernel's tables never disagree.
THEOREM Tables == Spec => []FdTables
<1>1. IInv => FdTables
  BY DEF IInv
<1> QED BY <1>1, Invariance, PTL

\* del_invalid_handler never meets a handler twice, so it never raises.
THEOREM Deletion == Spec => []DeletedOnce
<1>1. IInv => DeletedOnce
  BY DEF IInv
<1> QED BY <1>1, Invariance, PTL

\* No peer's behaviour makes the Listener cut off a polite one.
THEOREM Politeness == Spec => []PoliteKept
<1>1. IInv => PoliteKept
  BY DEF IInv
<1> QED BY <1>1, Invariance, PTL
=============================================================================
