------------------------------ MODULE BccPing ------------------------------
(***************************************************************************)
(* bccping_send.py and bccping_recv.py: kernel probes join the moments at   *)
(* which one ping passes the layers of the host, in maps whose only key is  *)
(* the sequence number of the ICMP header.  The sender's program starts at  *)
(* ip_output and ends at the socket of the ping program, the receiver's     *)
(* starts at napi_gro_receive and ends where the answer is given to virtio. *)
(*                                                                          *)
(* A time is abstracted to the packet that was timed: an entry says which   *)
(* packet's start it is counted `from' and which packet wrote it (`by').    *)
(* Other traffic meets the probes as well, and a packet may get lost.       *)
(***************************************************************************)
EXTENDS Naturals, Sequences, FiniteSets

CONSTANTS
  Packets,   \* pings and other packets
  Seqs,      \* sequence numbers (16 bits in the code)
  Capacity,  \* entries a BPF map holds (10240 in the code)
  MaxOnWay   \* bound: packets between their first and last probe at a time

ASSUME CapacityAssumption == Capacity \in Nat

VARIABLES
  prog,      \* which of the two programs runs: "send" or "recv"
  osend,     \* its option -s: report at virtqueue_add_outbuf, not at the end
  kind,      \* kind[p]: what packet p is, see Route
  seq,       \* seq[p]: its sequence number, or the bytes in that place
  at,        \* at[p]: probes of its route behind it
  maps,      \* maps[m][s]: the entry of BPF map m under key s
  t5,        \* t5[p]: the total time taken by the last probe of p
  report,    \* the event submitted by the last step
  spoilt     \* history: a packet's measurement was disturbed

pingVars == <<prog, osend, kind, seq, at, maps, t5, report, spoilt>>

None == [by |-> "nobody"]
Own(p) == [from |-> p, by |-> p]
Maps == {"ipout", "qxmit", "outbuf", "pkout", "grocv", "pkin", "skbcore", "icv"}
Kinds == {"ping", "elsewhere", "incoming", "other"}
Lost == 9

\* The probes a packet meets.  "ping": to the address the program watches (send)
\* or from it (recv).  "elsewhere": a ping to or from another address, which only
\* the first probe filters out.  "incoming": ICMP that is no ping of the kind
\* watched.  "other": what the first probe takes for a ping because it does not
\* look at the type.  The last probe is three steps: look up, read, delete.
Route(p) ==
  LET out == <<"dev_queue_xmit", "add_outbuf">>
      in  == <<"gro_receive", "skb_core">>
      end == <<"read", "delete">>
  IN IF prog = "send"
     THEN CASE kind[p] = "ping"      -> <<"ip_output", "dev_queue_xmit", "add_outbuf", "gro_receive",
                                          "skb_core", "sock_queue", "read", "delete">>
            [] kind[p] = "elsewhere" -> out \o in \o <<"sock_queue">> \o end
            [] kind[p] = "incoming"  -> in
            [] kind[p] = "other"     -> <<"ip_output">>
     ELSE CASE kind[p] = "ping"      -> <<"gro_receive", "skb_core", "icmp_rcv", "ip_output",
                                          "dev_queue_xmit", "add_outbuf", "read", "delete">>
            [] kind[p] = "elsewhere" -> <<"skb_core", "icmp_rcv", "ip_output">> \o out \o end
            [] kind[p] = "incoming"  -> <<"skb_core">>
            [] kind[p] = "other"     -> in

Measured(p) == at[p] \in 1 .. Len(Route(p)) - 1
Arrives(p, probe) ==
  /\ at[p] < Len(Route(p)) /\ Route(p)[at[p] + 1] = probe
  /\ Measured(p) \/ Cardinality({q \in Packets : Measured(q)}) < MaxOnWay
Done(p) == at[p] = Len(Route(p))

\* The map that holds the moment a ping started.
Base == IF prog = "send" THEN "ipout" ELSE "grocv"
Started(p) == maps[Base][seq[p]] # None

\* update() of a map that is full fails unless the key is there already.
Room(m, s) ==
  maps[m][s] # None \/ Cardinality({k \in Seqs : maps[m][k] # None}) < Capacity

\* The time since the start, or since pkout for pkin, or the moment itself.
Time(m, p) ==
  IF m \in {Base, "pkout"} THEN Own(p)
  ELSE [from |-> maps[IF m = "pkin" THEN "pkout" ELSE Base][seq[p]].from, by |-> p]

\* p passes a probe that writes the maps W and deletes from the maps D.
Pass(p, W, D, to) ==
  /\ maps' = [m \in Maps |->
       IF m \in W /\ Room(m, seq[p]) THEN [maps[m] EXCEPT ![seq[p]] = Time(m, p)]
       ELSE IF m \in D THEN [maps[m] EXCEPT ![seq[p]] = None]
       ELSE maps[m]]
  /\ at' = [at EXCEPT ![p] = to]
  /\ spoilt' = [q \in Packets |->
       \/ spoilt[q]
       \/ q # p /\ seq[q] = seq[p] /\ Measured(q)
       \/ q = p /\ \E m \in W : ~Room(m, seq[p])]
  /\ UNCHANGED <<prog, osend, kind, seq>>

Probe(p, W, D) == Pass(p, W, D, at[p] + 1)
Ends(p) == report' = None /\ t5' = [t5 EXCEPT ![p] = None]
Quiet == report' = None /\ UNCHANGED t5

----------------------------------------------------------------------------
PingInit ==
  /\ prog \in {"send", "recv"}
  /\ osend \in {FALSE, prog = "send"}
  /\ kind \in [Packets -> Kinds]
  /\ seq \in [Packets -> Seqs]
  /\ at = [p \in Packets |-> 0]
  /\ maps = [m \in Maps |-> [s \in Seqs |-> None]]
  /\ t5 = [p \in Packets |-> None]
  /\ report = None
  /\ spoilt = [p \in Packets |-> FALSE]

\* Mutant: an entry that is there already is kept.
KeepsFirst(p) ==
  /\ prog = "send" /\ Arrives(p, "ip_output")
  /\ Probe(p, IF Started(p) THEN {} ELSE {"ipout"}, {}) /\ Quiet

\* The first probe of a program: no look at the ICMP type, no earlier entry needed.
SendIpOutput(p) ==
  /\ prog = "send" /\ Arrives(p, "ip_output")
  /\ Probe(p, {"ipout"}, {}) /\ Quiet

SendDevQueueXmit(p) ==
  /\ prog = "send" /\ Arrives(p, "dev_queue_xmit")
  /\ Probe(p, IF Started(p) THEN {"qxmit"} ELSE {}, {}) /\ Quiet

SendAddOutbuf(p) ==
  /\ prog = "send" /\ Arrives(p, "add_outbuf")
  /\ Probe(p, IF Started(p) THEN {"pkout", "outbuf"} ELSE {}, {})
  /\ report' = IF Started(p) /\ osend
               THEN [pkt |-> p, by |-> p, times |-> [m \in {"outbuf"} |-> Time(m, p)]]
               ELSE None
  /\ UNCHANGED t5

\* Nothing is deleted when the ping was not seen going out.
SendGroReceive(p) ==
  /\ prog = "send" /\ Arrives(p, "gro_receive")
  /\ IF Started(p) /\ maps["pkout"][seq[p]] # None
     THEN Probe(p, {"grocv", "pkin"}, {"pkout"})
     ELSE Probe(p, {}, {})
  /\ Quiet

SendSkbCore(p) ==
  /\ prog = "send" /\ Arrives(p, "skb_core")
  /\ Probe(p, IF Started(p) THEN {"skbcore"} ELSE {}, {}) /\ Quiet

\* The last probe.  A ping without a start is left alone; one faster than
\* HIGHTIME is deleted without a report, which -s leaves out for every ping.
LastProbe(p) ==
  IF Started(p)
  THEN /\ t5' = [t5 EXCEPT ![p] = [from |-> maps[Base][seq[p]].from, by |-> p]]
       /\ \E fast \in {osend, TRUE} : Pass(p, {}, {}, at[p] + IF fast THEN 2 ELSE 1)
       /\ report' = None
  ELSE Pass(p, {}, {}, Len(Route(p))) /\ Quiet

SendSockQueue(p) ==
  /\ prog = "send" /\ Arrives(p, "sock_queue")
  /\ LastProbe(p)

SendTimes == {"qxmit", "outbuf", "grocv", "skbcore", "pkin"}
RecvTimes == {"skbcore", "icv", "ipout", "qxmit"}

ReadTimes(p) ==
  /\ Arrives(p, "read")
  /\ Probe(p, {}, {})
  /\ report' = [pkt |-> p, by |-> p,
                times |-> [m \in (IF prog = "send" THEN SendTimes ELSE RecvTimes) \union {"t5"} |->
                             IF m = "t5" THEN t5[p] ELSE maps[m][seq[p]]]]
  /\ t5' = [t5 EXCEPT ![p] = None]

SendDelete(p) ==
  /\ prog = "send" /\ Arrives(p, "delete")
  /\ Probe(p, {}, SendTimes \union {"ipout", "pkout"}) /\ Ends(p)

RecvGroReceive(p) ==
  /\ prog = "recv" /\ Arrives(p, "gro_receive")
  /\ Probe(p, {"grocv"}, {}) /\ Quiet

RecvSkbCore(p) ==
  /\ prog = "recv" /\ Arrives(p, "skb_core")
  /\ Probe(p, IF Started(p) THEN {"skbcore"} ELSE {}, {}) /\ Quiet

RecvIcmpRcv(p) ==
  /\ prog = "recv" /\ Arrives(p, "icmp_rcv")
  /\ Probe(p, IF Started(p) THEN {"icv"} ELSE {}, {}) /\ Quiet

RecvIpOutput(p) ==
  /\ prog = "recv" /\ Arrives(p, "ip_output")
  /\ Probe(p, IF Started(p) THEN {"ipout"} ELSE {}, {}) /\ Quiet

RecvDevQueueXmit(p) ==
  /\ prog = "recv" /\ Arrives(p, "dev_queue_xmit")
  /\ Probe(p, IF Started(p) THEN {"qxmit"} ELSE {}, {}) /\ Quiet

RecvAddOutbuf(p) ==
  /\ prog = "recv" /\ Arrives(p, "add_outbuf")
  /\ LastProbe(p)

RecvDelete(p) ==
  /\ prog = "recv" /\ Arrives(p, "delete")
  /\ Probe(p, {}, RecvTimes \union {"grocv"}) /\ Ends(p)

\* The network, the host or the ping program drops the packet.
Lose(p) ==
  /\ Measured(p) /\ ~Arrives(p, "read") /\ ~Arrives(p, "delete")
  /\ at' = [at EXCEPT ![p] = Lost]
  /\ spoilt' = [spoilt EXCEPT ![p] = TRUE]
  /\ UNCHANGED <<prog, osend, kind, seq, maps>> /\ Quiet

Send(p) ==
  \/ SendIpOutput(p) \/ SendDevQueueXmit(p) \/ SendAddOutbuf(p)
  \/ SendGroReceive(p) \/ SendSkbCore(p) \/ SendSockQueue(p) \/ SendDelete(p)
Recv(p) ==
  \/ RecvGroReceive(p) \/ RecvSkbCore(p) \/ RecvIcmpRcv(p) \/ RecvIpOutput(p)
  \/ RecvDevQueueXmit(p) \/ RecvAddOutbuf(p) \/ RecvDelete(p)

PingNext == \E p \in Packets : Send(p) \/ Recv(p) \/ ReadTimes(p) \/ Lose(p)

PingSpec == PingInit /\ [][PingNext]_pingVars

----------------------------------------------------------------------------
\* A report of a ping that nothing disturbed (no packet with its sequence number
\* passed a probe meanwhile and no map was full) is complete and made of this
\* ping's own times: nothing in it is left over from an earlier ping that got lost
\* half way or whose entries were not deleted.
OwnTimes ==
  report # None /\ kind[report.pkt] = "ping" /\ ~spoilt[report.pkt]
    => \A m \in DOMAIN report.times : report.times[m] = Own(report.pkt)
=============================================================================
