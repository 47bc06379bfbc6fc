---------------------------- MODULE ToolsProofs -----------------------------
(***************************************************************************)
(* Proofs about the tracers and cpustat, for any number of queues, threads  *)
(* and packets: the distances between ring indexes are right although the   *)
(* indexes wrap around (Vring), an extreme value is right unless two        *)
(* handlers raced (Vring), a plugged device is shown with its own number of *)
(* slots (HotPlug), a thread's line counts from its own last sample         *)
(* (CpuStat), a ping's report has only its own times (BccPing), and psutil's *)
(* percentages are the use of the CPUs between the samples compared         *)
(* (CpuPercent).                                                            *)
(***************************************************************************)
EXTENDS BccPing, Vring, CpuStat, CpuPercent, HotPlug, Sums

-----------------------------------------------------------------------------
(* HotPlug.                                                                 *)

\* The counter is the number of slots scanned, and so is what a scan has read, unless
\* an interrupt fell into that scan.
CountIsSlots ==
  ~hit => /\ drvn # NoCount => drvn = slots
          /\ scan # NotScanning => scan = slots

PlugInv == CountIsSlots /\ ShownIsSlotCount

LEMMA PlugInvNext == PlugInv /\ [PlugNext]_plugVars => PlugInv'
<1> SUFFICES ASSUME PlugInv, [PlugNext]_plugVars PROVE PlugInv'
  OBVIOUS
<1> USE DEF PlugInv, CountIsSlots, ShownIsSlotCount
<1>1. CASE AcpiIrq
  <2>1. hit' <=> scan # NotScanning
    BY <1>1, Zenon DEF AcpiIrq
  <2>2. drvn' = 0 /\ slots' = 0 /\ scan' = scan /\ event'.type # 2
    BY <1>1 DEF AcpiIrq
  <2> QED BY <2>1, <2>2
<1>2. CASE PciScanSlotLookup
  BY <1>2 DEF PciScanSlotLookup, Quietly
<1>3. CASE PciScanSlotUpdate
  BY <1>3 DEF PciScanSlotUpdate, Quietly
<1>4. CASE PciDeviceAdd
  BY <1>4 DEF PciDeviceAdd
<1>5. CASE Traced
  BY <1>5 DEF Traced
<1>6. CASE UNCHANGED plugVars
  BY <1>6 DEF plugVars
<1> QED BY <1>1, <1>2, <1>3, <1>4, <1>5, <1>6 DEF PlugNext

\* bccattach shows a plugged device with the slots scanned since the last interrupt,
\* modulo the width of the field, unless that interrupt fell into a scan's probe.
THEOREM ShownCounts == PlugSpec => []ShownIsSlotCount
<1>1. PlugInit => PlugInv
  BY DEF PlugInit, PlugInv, CountIsSlots, ShownIsSlotCount
<1> QED BY <1>1, PlugInvNext, PTL DEF PlugSpec, PlugInv

-----------------------------------------------------------------------------
(* Vring: the arithmetic of ring indexes.                                   *)

LEMMA QuotientAndRest ==
  ASSUME NEW w \in Nat \ {0}, NEW a \in Nat
  PROVE  \E q \in Nat : a = w * q + (a % w) /\ a % w \in 0 .. w - 1
<1>1. a = w * (a \div w) + (a % w) /\ a % w \in 0 .. w - 1 /\ a \div w \in Nat
  OBVIOUS
<1> QED BY <1>1

\* Two indexes less than w apart: their quotients are the same, or the later index has
\* wrapped around once more.
LEMMA WrapsOnce ==
  ASSUME NEW w \in Nat \ {0}, NEW a \in Nat, NEW b \in Nat, b <= a, a - b < w
  PROVE  \/ (a % w) - (b % w) = a - b
         \/ (a % w) - (b % w) < 0 /\ (a % w) + (w - (b % w)) = a - b
<1> DEFINE x == a % w
           y == b % w
<1>1. PICK p \in Nat : a = w * p + x /\ x \in 0 .. w - 1
  BY QuotientAndRest
<1>2. PICK q \in Nat : b = w * q + y /\ y \in 0 .. w - 1
  BY QuotientAndRest
<1> HIDE DEF x, y
<1>3. w * p \in Nat /\ w * q \in Nat
  OBVIOUS
<1>4. p = q \/ p = q + 1
  <2>1. CASE p < q
    <3>1. PICK d \in Nat : q = p + 1 + d
      BY <2>1, q - p - 1 \in Nat
    <3>2. w * q = w * p + w + w * d /\ w * d \in Nat
      BY <3>1
    <3> QED BY <1>1, <1>2, <1>3, <3>2
  <2>2. CASE p > q + 1
    <3>1. PICK d \in Nat : p = q + 2 + d
      BY <2>2, p - q - 2 \in Nat
    <3>2. w * p = w * q + w + w + w * d /\ w * d \in Nat
      BY <3>1
    <3> QED BY <1>1, <1>2, <1>3, <3>2
  <2> QED BY <2>1, <2>2
<1>5. CASE p = q
  BY <1>1, <1>2, <1>3, <1>5 DEF x, y
<1>6. CASE p = q + 1
  <2>1. w * p = w * q + w
    BY <1>6
  <2> QED BY <1>1, <1>2, <1>3, <2>1 DEF x, y
<1> QED BY <1>4, <1>5, <1>6

\* What the probes compute is the distance, also when an index has wrapped around.
LEMMA DistanceIsDifference ==
  ASSUME NEW a \in Nat, NEW b \in Nat, b <= a, a - b <= Size
  PROVE  Distance(a, b) = a - b /\ Distance(a, b) \in 0 .. Size
<1>1. W \in Nat \ {0} /\ a - b < W
  BY VringAssumption
<1>2. a % W \in Int /\ b % W \in Int
  BY <1>1
<1>3. \/ (a % W) - (b % W) = a - b
      \/ (a % W) - (b % W) < 0 /\ (a % W) + (W - (b % W)) = a - b
  BY <1>1, WrapsOnce
<1> QED BY <1>2, <1>3, VringAssumption DEF Distance

-----------------------------------------------------------------------------
(* Vring: the rings and the handlers.                                       *)

Handlers == [step : {"idle", "lookup", "update"}, stat : Stats \union {"none"},
             val : Nat, got : Nat \union {NoValue}]

VringTypes ==
  /\ dir \in [Queues -> {"send", "recv"}]
  /\ ring \in [Queues -> [avail : Nat, used : Nat, seen : Nat]]
  /\ handler \in [Queues -> Handlers] /\ calls \in Nat
  /\ stat \in [Stats -> Nat \union {NoValue}] /\ truth \in [Stats -> Nat \union {NoValue}]
  /\ raced \subseteq Stats

\* The driver and the device keep to the ring.
RingsOK ==
  \A q \in Queues : /\ ring[q].seen <= ring[q].used /\ ring[q].used <= ring[q].avail
                    /\ ring[q].avail <= ring[q].seen + Size

\* What a handler has looked up is what is there, as long as no other one has looked up
\* the same statistic and has not updated it.
LookedUp ==
  \A q \in Queues :
    /\ handler[q].step # "idle" => handler[q].stat \in Stats
    /\ handler[q].step = "update" /\ handler[q].stat \notin raced =>
         /\ handler[q].got = stat[handler[q].stat]
         /\ \A p \in Queues \ {q} :
              ~(handler[p].step = "update" /\ handler[p].stat = handler[q].stat)

VringInv == VringTypes /\ RingsOK /\ LookedUp /\ DistancesTrue /\ ExactUnlessRaced

LEMMA VringInitInv == VringInit => VringInv
<1> SUFFICES ASSUME VringInit PROVE VringInv
  OBVIOUS
<1>1. W + Size \in Nat /\ W - 1 \in Nat
  BY VringAssumption
<1>2. \A q \in Queues : /\ ring[q] \in [avail : Nat, used : Nat, seen : Nat]
                        /\ ring[q].seen <= ring[q].used /\ ring[q].used <= ring[q].avail
                        /\ ring[q].avail <= ring[q].seen + Size
  <2> TAKE q \in Queues
  <2> DEFINE Rings == {r \in [avail : 0 .. W + Size, used : 0 .. W + Size, seen : 0 .. W - 1] :
                         r.seen <= r.used /\ r.used <= r.avail /\ r.avail <= r.seen + Size}
  <2>1. ring[q] \in Rings
    BY DEF VringInit
  <2> QED BY <1>1, <2>1
<1>3. VringTypes
  BY <1>2 DEF VringInit, VringTypes, Handlers, Idle
<1>4. RingsOK /\ LookedUp
  BY <1>2 DEF VringInit, RingsOK, LookedUp, Idle
<1> QED BY <1>3, <1>4 DEF VringInit, VringInv, DistancesTrue, ExactUnlessRaced

\* The extreme of two values, and what a handler makes of them.
LEMMA MergedIsExtreme ==
  ASSUME NEW s \in Stats, NEW val \in Nat, NEW got \in Nat \union {NoValue}
  PROVE  Merged(s, val, got) = Extreme(s, val, got) /\ Merged(s, val, got) \in Nat
<1>0. NoValue \notin Nat
  BY VringAssumption DEF NoValue
<1>1. CASE got = NoValue
  <2>1. Merged(s, val, got) = val
    BY <1>1 DEF Merged
  <2>2. Extreme(s, val, got) = val
    BY <1>1, Zenon DEF Extreme
  <2> QED BY <2>1, <2>2
<1>2. CASE got # NoValue /\ s = "kickcount"
  <2>1. Merged(s, val, got) = got + 1
    BY <1>2 DEF Merged
  <2>2. Extreme(s, val, got) = got + 1
    BY <1>2 DEF Extreme
  <2> QED BY <1>2, <2>1, <2>2
<1>3. CASE got # NoValue /\ s # "kickcount"
  <2>1. got \in Nat
    BY <1>3
  <2>2. Merged(s, val, got) = IF s \in {"putmax", "distmax"} THEN IF got < val THEN val ELSE got
                              ELSE IF got > val THEN val ELSE got
    BY <1>3 DEF Merged, Stats
  <2>3. Extreme(s, val, got) =
          CHOOSE v \in {val, got} : \A w \in {val, got} :
            IF s \in {"putmax", "distmax"} THEN w <= v ELSE v <= w
    BY <1>3, Zenon DEF Extreme
  <2> DEFINE m == Merged(s, val, got)
             Best(v) == \A w \in {val, got} : IF s \in {"putmax", "distmax"} THEN w <= v ELSE v <= w
  <2>4. m \in {val, got} /\ Best(m) /\ \A v \in {val, got} : Best(v) => v = m
    BY <2>1, <2>2
  <2> QED BY <2>1, <2>3, <2>4
<1> QED BY <1>1, <1>2, <1>3

\* A queue's handler goes on to look up a statistic.
LEMMA TurnsToLookup ==
  ASSUME VringInv, NEW q \in Queues, NEW s \in Stats, NEW val \in Nat,
         Turn(q, "lookup", s, val, NoValue)
  PROVE  /\ handler' \in [Queues -> Handlers]
         /\ handler'[q].step = "lookup" /\ handler'[q].stat = s
         /\ \A p \in Queues \ {q} : handler'[p] = handler[p]
<1> DEFINE h == [step |-> "lookup", stat |-> s, val |-> val, got |-> NoValue]
<1>1. h \in Handlers /\ h.step = "lookup" /\ h.stat = s
  BY DEF Handlers
<1>2. handler' = [handler EXCEPT ![q] = h] /\ handler \in [Queues -> Handlers]
  BY DEF Turn, VringInv, VringTypes
<1> HIDE DEF h
<1> QED BY <1>1, <1>2

\* A handler without a statistic to update leaves everything known about them.
LEMMA KnownKept ==
  ASSUME VringInv, NEW q \in Queues, handler' \in [Queues -> Handlers],
         \A p \in Queues \ {q} : handler'[p] = handler[p],
         handler'[q].step # "update",
         handler'[q].step # "idle" => handler'[q].stat \in Stats,
         raced' = raced, stat' = stat
  PROVE  LookedUp'
BY DEF VringInv, VringTypes, LookedUp, Handlers

LEMMA RingStepInv ==
  ASSUME VringInv, NEW q \in Queues, Use(q) \/ GetBuf(q), UNCHANGED dir
  PROVE  VringInv'
<1> USE DEF VringInv
<1>1. ring[q] \in [avail : Nat, used : Nat, seen : Nat]
  BY DEF VringTypes
<1>2. ring' \in [Queues -> [avail : Nat, used : Nat, seen : Nat]] /\ RingsOK'
  <2>1. CASE Use(q)
    BY <1>1, <2>1 DEF Use, RingsOK, VringTypes
  <2>2. CASE GetBuf(q)
    BY <1>1, <2>2, VringAssumption DEF GetBuf, RingsOK, VringTypes
  <2> QED BY <2>1, <2>2
<1>3. UNCHANGED <<handler, calls, stat, truth, raced>> /\ counted' = NoValue
  BY DEF Use, GetBuf
<1> QED BY <1>2, <1>3 DEF VringTypes, LookedUp, DistancesTrue, ExactUnlessRaced

\* The free descriptors of a queue, and the distances that the probes count.
LEMMA RingNumbers ==
  ASSUME VringInv, NEW q \in Queues
  PROVE  /\ NumFree(q) \in 0 .. Size
         /\ Distance(ring[q].used, ring[q].seen) \in 0 .. Size
         /\ Distance(ring[q].avail, ring[q].used) \in 0 .. Size
<1>1. ring[q].avail \in Nat /\ ring[q].used \in Nat /\ ring[q].seen \in Nat
  BY DEF VringInv, VringTypes
<1>2. /\ ring[q].seen <= ring[q].used /\ ring[q].used <= ring[q].avail
      /\ ring[q].avail <= ring[q].seen + Size
  BY DEF VringInv, RingsOK
<1>3. Size \in Nat
  BY VringAssumption
<1>4. ring[q].used - ring[q].seen <= Size /\ ring[q].avail - ring[q].used <= Size
  BY <1>1, <1>2, <1>3
<1>5. NumFree(q) \in 0 .. Size
  BY <1>1, <1>2, <1>3 DEF NumFree
<1> QED BY <1>1, <1>2, <1>4, <1>5, DistanceIsDifference

LEMMA CallInv ==
  ASSUME VringInv, NEW q \in Queues, AddOutbuf(q) \/ Kick(q) \/ AddInbufCtx(q), UNCHANGED dir
  PROVE  VringInv'
<1> USE DEF VringInv
<1>1. Size \in Nat
  BY VringAssumption
<1>2. counted' \in 0 .. Size \union {NoValue}
  BY RingNumbers DEF AddOutbuf, Kick, AddInbufCtx
<1>3. \E s \in Stats, val \in Nat : Turn(q, "lookup", s, val, NoValue)
  <2>1. CASE AddOutbuf(q)
    BY <1>1, <2>1, RingNumbers DEF AddOutbuf, Stats
  <2>2. CASE Kick(q)
    BY <2>2 DEF Kick, Stats
  <2>3. CASE AddInbufCtx(q)
    BY <1>1, <2>3, RingNumbers DEF AddInbufCtx, Stats
  <2> QED BY <2>1, <2>2, <2>3
<1>4. /\ handler' \in [Queues -> Handlers]
      /\ handler'[q].step = "lookup" /\ handler'[q].stat \in Stats
      /\ \A p \in Queues \ {q} : handler'[p] = handler[p]
  <2>1. PICK s \in Stats, val \in Nat : Turn(q, "lookup", s, val, NoValue)
    BY <1>3
  <2> QED BY <2>1, TurnsToLookup
<1>5. UNCHANGED <<ring, stat, truth, raced>> /\ calls' \in Nat
  BY DEF AddOutbuf, Kick, AddInbufCtx, Begins, VringTypes
<1>6. LookedUp'
  BY <1>4, <1>5, KnownKept
<1> QED BY <1>2, <1>4, <1>5, <1>6 DEF VringTypes, RingsOK, DistancesTrue, ExactUnlessRaced

LEMMA LookupInv ==
  ASSUME VringInv, NEW q \in Queues, Lookup(q), UNCHANGED dir
  PROVE  VringInv'
<1> USE DEF VringInv
<1> DEFINE s == handler[q].stat
<1>1. s \in Stats /\ handler[q] \in Handlers
  BY DEF Lookup, LookedUp, VringTypes
<1>2. /\ handler' \in [Queues -> Handlers]
      /\ handler'[q] = [step |-> "update", stat |-> s, val |-> handler[q].val, got |-> stat[s]]
      /\ \A p \in Queues \ {q} : handler'[p] = handler[p]
  <2>1. Turn(q, "update", s, handler[q].val, stat[s]) /\ stat[s] \in Nat \union {NoValue}
    BY <1>1 DEF Lookup, VringTypes
  <2> QED BY <1>1, <2>1 DEF Turn, VringTypes, Handlers
<1>3. /\ raced \subseteq raced' /\ raced' \subseteq Stats
      /\ \A p \in Queues \ {q} : handler[p].step = "update" /\ handler[p].stat = s => s \in raced'
  BY <1>1 DEF Lookup, VringTypes
<1>4. UNCHANGED <<ring, calls, stat, truth>> /\ counted' = NoValue
  BY DEF Lookup
<1>5. LookedUp'
  <2> SUFFICES ASSUME NEW p \in Queues
               PROVE  /\ handler'[p].step # "idle" => handler'[p].stat \in Stats
                      /\ handler'[p].step = "update" /\ handler'[p].stat \notin raced' =>
                           /\ handler'[p].got = stat[handler'[p].stat]
                           /\ \A r \in Queues \ {p} :
                                ~(handler'[r].step = "update" /\ handler'[r].stat = handler'[p].stat)
    BY <1>4 DEF LookedUp
  <2>1. handler'[q].step = "update" /\ handler'[q].stat = s /\ handler'[q].got = stat[s]
    BY <1>2
  <2>2. CASE p = q
    BY <1>1, <1>2, <1>3, <2>1, <2>2
  <2>3. CASE p # q
    BY <1>2, <1>3, <2>1, <2>3 DEF LookedUp
  <2> QED BY <2>2, <2>3
<1> QED BY <1>2, <1>3, <1>4, <1>5 DEF VringTypes, RingsOK, DistancesTrue, ExactUnlessRaced

\* The update of a statistic: what is right stays right, whatever the handler does next.
LEMMA StoreExact ==
  ASSUME VringInv, NEW q \in Queues, Store(q)
  PROVE  /\ stat' \in [Stats -> Nat \union {NoValue}] /\ truth' \in [Stats -> Nat \union {NoValue}]
         /\ calls' = calls /\ raced' = raced /\ ExactUnlessRaced'
         /\ \A s \in Stats : s # handler[q].stat => stat'[s] = stat[s]
<1> USE DEF VringInv
<1> DEFINE s == handler[q].stat
           new == Merged(s, handler[q].val, handler[q].got)
<1>1. s \in Stats /\ handler[q] \in Handlers /\ handler[q].step = "update"
  BY DEF Store, LookedUp, VringTypes
<1>2. new \in Nat /\ new = Extreme(s, handler[q].val, handler[q].got)
  BY <1>1, MergedIsExtreme DEF Handlers
<1>3. truth[s] \in Nat \union {NoValue} /\ handler[q].val \in Nat
  BY <1>1 DEF VringTypes, Handlers
<1>4. Extreme(s, handler[q].val, truth[s]) \in Nat
  BY <1>1, <1>3, MergedIsExtreme
<1>5. truth' = [truth EXCEPT ![s] = Extreme(s, handler[q].val, truth[s])]
  BY DEF Store
<1>6. /\ stat' = IF new # handler[q].got THEN [stat EXCEPT ![s] = new] ELSE stat
      /\ calls' = calls /\ raced' = raced
  BY DEF Store
<1> HIDE DEF s, new
<1>7. stat' \in [Stats -> Nat \union {NoValue}] /\ truth' \in [Stats -> Nat \union {NoValue}]
  BY <1>2, <1>4, <1>5, <1>6 DEF VringTypes
<1>8. ASSUME s \notin raced PROVE stat'[s] = truth'[s]
  <2>1. handler[q].got = stat[s] /\ stat[s] = truth[s]
    BY <1>1, <1>8 DEF LookedUp, ExactUnlessRaced, s
  <2>2. stat'[s] = new
    BY <1>1, <1>6, <2>1 DEF VringTypes
  <2>3. truth'[s] = Extreme(s, handler[q].val, handler[q].got)
    BY <1>1, <1>5, <2>1 DEF VringTypes
  <2> QED BY <1>2, <2>2, <2>3
<1>9. \A x \in Stats : x # s => stat'[x] = stat[x] /\ truth'[x] = truth[x]
  BY <1>1, <1>5, <1>6 DEF VringTypes
<1> QED BY <1>6, <1>7, <1>8, <1>9 DEF ExactUnlessRaced, s

LEMMA UpdateInv ==
  ASSUME VringInv, NEW q \in Queues, Update(q), UNCHANGED dir
  PROVE  VringInv'
<1> USE DEF VringInv
<1>1. Store(q)
  BY DEF Update, UpdateFirst, UpdateLast, UpdateMinFree, UpdateDistMax
<1>2. handler[q].step = "update" /\ handler[q].stat \in Stats /\ Size \in Nat
  BY <1>1, VringAssumption DEF Store, LookedUp
<1>3. /\ handler' \in [Queues -> Handlers]
      /\ \A p \in Queues \ {q} : handler'[p] = handler[p]
      /\ handler'[q].step \in {"idle", "lookup"}
      /\ handler'[q].step # "idle" => handler'[q].stat \in Stats
  <2>1. CASE UpdateFirst(q) \/ UpdateLast(q)
    <3>1. handler' = [handler EXCEPT ![q] = Idle] /\ Idle \in Handlers /\ Idle.step = "idle"
      BY <2>1 DEF UpdateFirst, UpdateLast, Return, Idle, Handlers
    <3> QED BY <3>1 DEF VringTypes
  <2>2. CASE UpdateMinFree(q)
    <3>1. counted' \in Nat /\ Turn(q, "lookup", "putmax", counted', NoValue) /\ "putmax" \in Stats
      BY <1>2, <2>2, RingNumbers DEF UpdateMinFree, Stats
    <3> QED BY <3>1, TurnsToLookup
  <2>3. CASE UpdateDistMax(q)
    <3>1. NumFree(q) \in Nat /\ Turn(q, "lookup", "minfreerq", NumFree(q), NoValue) /\ "minfreerq" \in Stats
      BY <1>2, <2>3, RingNumbers DEF UpdateDistMax, Stats
    <3> QED BY <3>1, TurnsToLookup
  <2> QED BY <2>1, <2>2, <2>3 DEF Update
<1>4. ring' \in [Queues -> [avail : Nat, used : Nat, seen : Nat]] /\ RingsOK'
  <2>1. CASE ring' = ring
    BY <2>1 DEF RingsOK, VringTypes
  <2>2. CASE ring' = [ring EXCEPT ![q].avail = @ + 1] /\ NumFree(q) > 0
    BY <1>2, <2>2 DEF RingsOK, VringTypes, NumFree
  <2> QED BY <2>1, <2>2 DEF Update, UpdateFirst, UpdateLast, UpdateMinFree, UpdateDistMax, Return
<1>5. counted' \in 0 .. Size \union {NoValue}
  BY RingNumbers DEF Update, UpdateFirst, UpdateLast, UpdateMinFree, UpdateDistMax, Return
<1>6. LookedUp'
  <2> SUFFICES ASSUME NEW p \in Queues
               PROVE  /\ handler'[p].step # "idle" => handler'[p].stat \in Stats
                      /\ handler'[p].step = "update" /\ handler'[p].stat \notin raced' =>
                           /\ handler'[p].got = stat'[handler'[p].stat]
                           /\ \A r \in Queues \ {p} :
                                ~(handler'[r].step = "update" /\ handler'[r].stat = handler'[p].stat)
    BY DEF LookedUp
  <2>1. CASE p = q
    BY <1>3, <2>1
  <2>2. CASE p # q
    <3>1. handler'[p] = handler[p] /\ (handler[p].step # "idle" => handler[p].stat \in Stats)
      BY <1>3, <2>2 DEF LookedUp
    <3>2. ASSUME handler[p].step = "update", handler[p].stat \notin raced
          PROVE  /\ handler[p].got = stat[handler[p].stat] /\ handler[q].stat # handler[p].stat
                 /\ \A r \in Queues \ {p} :
                       ~(handler[r].step = "update" /\ handler[r].stat = handler[p].stat)
      BY <1>2, <2>2, <3>2 DEF LookedUp
    <3>3. raced' = raced /\ \A s \in Stats : s # handler[q].stat => stat'[s] = stat[s]
      BY <1>1, StoreExact
    <3> QED BY <1>3, <3>1, <3>2, <3>3
  <2> QED BY <2>1, <2>2
<1> QED BY <1>1, <1>3, <1>4, <1>5, <1>6, StoreExact DEF VringTypes, DistancesTrue

LEMMA VringInvNext == VringInv /\ [VringNext]_vringVars => VringInv'
<1> SUFFICES ASSUME VringInv, [VringNext]_vringVars PROVE VringInv'
  OBVIOUS
<1>1. CASE UNCHANGED vringVars
  BY <1>1 DEF vringVars, VringInv, VringTypes, RingsOK, LookedUp, DistancesTrue, ExactUnlessRaced
<1>2. CASE VringNext
  <2>1. PICK q \in Queues : /\ \/ Use(q) \/ GetBuf(q) \/ AddOutbuf(q) \/ Kick(q)
                               \/ AddInbufCtx(q) \/ Lookup(q) \/ Update(q)
                            /\ UNCHANGED dir
    BY <1>2 DEF VringNext
  <2> QED BY <2>1, RingStepInv, CallInv, LookupInv, UpdateInv
<1> QED BY <1>1, <1>2

LEMMA VringAlways == VringSpec => []VringInv
BY VringInitInv, VringInvNext, PTL DEF VringSpec

\* Every distance counted in a histogram is between none and all of the ring's buffers,
\* for any width of the indexes, also when one has wrapped around and the other has not.
THEOREM DistancesInRange == VringSpec => []DistancesTrue
BY VringAlways, PTL DEF VringInv

\* An extreme value that the tool prints is exact unless two queues' handlers overlapped
\* between the lookup and the update of that very map.
THEOREM ExtremesExact == VringSpec => []ExactUnlessRaced
BY VringAlways, PTL DEF VringInv

-----------------------------------------------------------------------------
(* CpuStat.                                                                 *)

Samples == [tid : Nat, gen : Nat, round : Nat]

CpuTypes ==
  /\ alive \in [Tids -> Nat] /\ last \in [Tids -> Nat] /\ round \in Nat
  /\ aim \subseteq Tids /\ thtime \in [Tids -> Samples]

\* What is left of a round's list is a part of it; before the loop there is nothing.
TodoIsRest ==
  /\ DOMAIN todo \subseteq DOMAIN list /\ DOMAIN list \subseteq Tids
  /\ \A t \in DOMAIN list : list[t] \in Nat
  /\ \A t \in DOMAIN todo : todo[t] = list[t]
  /\ state = "start" => DOMAIN todo = {} /\ DOMAIN list = {}

\* A watched thread that the round has still to come to has its sample of the round
\* before, one that it has dealt with has its sample of this round.
OwnSample ==
  state = "run" => \A t \in aim :
    /\ t \in DOMAIN todo /\ t \in DOMAIN prev =>
         thtime[t] = [tid |-> t, gen |-> prev[t], round |-> round - 1]
    /\ t \in DOMAIN list \ DOMAIN todo =>
         thtime[t] = [tid |-> t, gen |-> list[t], round |-> round]

CpuInv == CpuTypes /\ TodoIsRest /\ OwnSample /\ KnownExact

LEMMA NothingListed == DOMAIN <<>> = {}
OBVIOUS

LEMMA CpuInitInv == CpuInit => CpuInv
<1> SUFFICES ASSUME CpuInit PROVE CpuInv
  OBVIOUS
<1>1. CpuTypes
  BY DEF CpuInit, CpuTypes, NoSample, Samples
<1>2. TodoIsRest /\ OwnSample
  BY NothingListed DEF CpuInit, TodoIsRest, OwnSample
<1>3. KnownExact
  BY DEF CpuInit, KnownExact
<1> QED BY <1>1, <1>2, <1>3 DEF CpuInv

LEMMA ListedThreads ==
  /\ DOMAIN ThreadList = Threads /\ Threads \subseteq Tids
  /\ \A t \in Threads : ThreadList[t] = alive[t]
BY DEF ThreadList, Threads

LEMMA LaunchInv == CpuInv /\ Launch => CpuInv'
<1> SUFFICES ASSUME CpuInv, Launch PROVE CpuInv'
  OBVIOUS
<1> USE DEF CpuInv
<1>1. /\ DOMAIN todo' = {} /\ DOMAIN list' = Threads /\ Threads \subseteq Tids
      /\ \A t \in Threads : list'[t] = alive[t] /\ alive[t] \in Nat
  BY ListedThreads DEF Launch, TodoIsRest, CpuTypes
<1>2. CpuTypes'
  <2>1. \A t \in Tids : t \in Nat /\ alive[t] \in Nat
    BY TidsAssumption DEF CpuTypes
  <2> QED BY <2>1 DEF Launch, CpuTypes, Samples, NoSample
<1>3. TodoIsRest'
  BY <1>1 DEF Launch, TodoIsRest
<1>4. OwnSample'
  BY <1>1 DEF Launch, OwnSample
<1>5. KnownExact'
  BY DEF Launch, KnownExact
<1> QED BY <1>2, <1>3, <1>4, <1>5

LEMMA SampleInv == CpuInv /\ Sample => CpuInv'
<1> SUFFICES ASSUME CpuInv, Sample PROVE CpuInv'
  OBVIOUS
<1> USE DEF CpuInv
<1>1. /\ DOMAIN todo = {} /\ DOMAIN list' = Threads /\ Threads \subseteq Tids
      /\ \A t \in Threads : list'[t] \in Nat
      /\ todo' = list' /\ prev' = list /\ state = "run" /\ state' = state
  BY ListedThreads, NothingListed DEF Sample, CpuTypes
<1>2. round' = round + 1 /\ round \in Nat /\ thtime' = thtime /\ aim' = aim
  BY DEF Sample, CpuTypes
<1>3. CpuTypes'
  BY <1>2 DEF Sample, CpuTypes
<1>4. TodoIsRest'
  BY <1>1 DEF TodoIsRest
<1>5. OwnSample'
  BY <1>1, <1>2 DEF OwnSample
<1>6. KnownExact'
  BY DEF Sample, KnownExact
<1> QED BY <1>3, <1>4, <1>5, <1>6

LEMMA LineInv == ASSUME CpuInv, NEW t \in Tids, Line(t) PROVE CpuInv'
<1> USE DEF CpuInv
<1> DEFINE now == [tid |-> t, gen |-> todo[t], round |-> round]
           base == IF thtime[t] # NoSample THEN thtime[t] ELSE thv
<1>1. /\ t \in DOMAIN todo /\ t \in DOMAIN list /\ state = "run" /\ t # 0
      /\ UNCHANGED <<alive, last, aim, list, prev, round>>
  BY TidsAssumption DEF Line, TodoIsRest
<1>2. /\ DOMAIN todo' \subseteq DOMAIN todo \ {t} /\ \A u \in DOMAIN todo' : todo'[u] = todo[u]
      /\ state' = "run" => DOMAIN todo' = DOMAIN todo \ {t}
  <2>1. \/ todo' = <<>> /\ state' = "ended"
        \/ todo' = [u \in DOMAIN todo \ {t} |-> todo[u]]
    BY DEF Line
  <2>2. CASE todo' = <<>> /\ state' = "ended"
    BY <2>2, NothingListed
  <2>3. CASE todo' = [u \in DOMAIN todo \ {t} |-> todo[u]]
    BY <2>3
  <2> QED BY <2>1, <2>2, <2>3
<1>3. state' # "start"
  BY <1>1 DEF Line
<1>4. TodoIsRest'
  BY <1>1, <1>2, <1>3 DEF TodoIsRest
<1>5. CASE t \in aim
  <2>1. thtime' = [thtime EXCEPT ![t] = now] /\ (shown' = NoLine \/ shown' = [now |-> now, base |-> base])
    BY <1>5 DEF Line, NewSample
  <2>2. list[t] = todo[t]
    BY <1>1 DEF TodoIsRest
  <2>3. now \in Samples
    BY <1>1, <2>2, TidsAssumption DEF Samples, CpuTypes, TodoIsRest
  <2>4. CpuTypes'
    BY <1>1, <2>1, <2>3 DEF CpuTypes
  <2>5. OwnSample'
    BY <1>1, <1>2, <2>1, <2>2 DEF OwnSample, CpuTypes
  <2>6. KnownExact'
    <3>1. CASE shown' = NoLine
      BY <3>1 DEF KnownExact
    <3>2. CASE shown' = [now |-> now, base |-> base]
      <4>1. shown'.now = now /\ shown'.base = base /\ now.tid = t /\ now.gen = todo[t]
        BY <3>2
      <4>2. ASSUME t \in DOMAIN prev, prev[t] = todo[t]
            PROVE  base = [now EXCEPT !.round = @ - 1]
        <5>1. thtime[t] = [tid |-> t, gen |-> prev[t], round |-> round - 1]
          BY <1>1, <1>5, <4>2 DEF OwnSample
        <5>2. thtime[t] # NoSample
          BY <1>1, <5>1 DEF NoSample
        <5> QED BY <4>2, <5>1, <5>2
      <4> QED BY <1>1, <4>1, <4>2 DEF KnownExact
    <3> QED BY <2>1, <3>1, <3>2
  <2> QED BY <1>4, <2>4, <2>5, <2>6
<1>6. CASE t \notin aim
  <2>1. UNCHANGED <<thtime, thv, state>> /\ shown' = NoLine
    BY <1>6 DEF Line
  <2> QED BY <1>1, <1>2, <1>4, <1>6, <2>1 DEF CpuTypes, OwnSample, KnownExact
<1> QED BY <1>5, <1>6

LEMMA CpuInvNext == CpuInv /\ [CpuNext]_cpuVars => CpuInv'
<1> SUFFICES ASSUME CpuInv, [CpuNext]_cpuVars PROVE CpuInv'
  OBVIOUS
<1>1. CASE UNCHANGED cpuVars
  BY <1>1 DEF cpuVars, CpuInv, CpuTypes, TodoIsRest, OwnSample, KnownExact
<1>2. CASE Interrupt
  BY <1>2, NothingListed DEF Interrupt, CpuInv, CpuTypes, TodoIsRest, OwnSample, KnownExact
<1>3. ASSUME NEW t \in Tids, Spawn(t) \/ ThreadExit(t) PROVE CpuInv'
  <2>1. UNCHANGED <<aim, thtime, thv, todo, list, prev, round, state>> /\ shown' = NoLine
    BY <1>3 DEF Spawn, ThreadExit, Outside
  <2>2. alive' \in [Tids -> Nat] /\ last' \in [Tids -> Nat]
    BY <1>3 DEF Spawn, ThreadExit, CpuInv, CpuTypes
  <2> QED BY <2>1, <2>2 DEF CpuInv, CpuTypes, TodoIsRest, OwnSample, KnownExact
<1> QED BY <1>1, <1>2, <1>3, LaunchInv, SampleInv, LineInv DEF CpuNext

\* The line of a thread that was listed in the round before counts from that thread's
\* own sample of that round, for any threads that came, went or took over an id.
THEOREM LinesExact == CpuSpec => []KnownExact
BY CpuInitInv, CpuInvNext, PTL DEF CpuSpec, CpuInv

-----------------------------------------------------------------------------
(* BccPing: the way of a ping.                                              *)

\* The probes on the way of a ping, the three steps of the last one included.
PingRoute ==
  IF prog = "send"
  THEN <<"ip_output", "dev_queue_xmit", "add_outbuf", "gro_receive", "skb_core",
         "sock_queue", "read", "delete">>
  ELSE <<"gro_receive", "skb_core", "icmp_rcv", "ip_output", "dev_queue_xmit",
         "add_outbuf", "read", "delete">>

LEMMA RouteOfPing ==
  ASSUME NEW p \in Packets, kind[p] = "ping" PROVE Route(p) = PingRoute
BY DEF Route, PingRoute

\* The maps that hold a ping's own entry when n probes are behind it.
Written(n) ==
  IF prog = "send"
  THEN {m \in Maps : \/ m = "ipout"
                     \/ m = "qxmit" /\ n > 1
                     \/ m = "outbuf" /\ n > 2
                     \/ m = "pkout" /\ n = 3
                     \/ m \in {"grocv", "pkin"} /\ n > 3
                     \/ m = "skbcore" /\ n > 4}
  ELSE {m \in Maps : \/ m = "grocv"
                     \/ m = "skbcore" /\ n > 1
                     \/ m = "icv" /\ n > 2
                     \/ m = "ipout" /\ n > 3
                     \/ m = "qxmit" /\ n > 4}

LEMMA StartWritten == ASSUME NEW n \in Nat PROVE Base \in Written(n)
<1>1. CASE prog = "send"
  <2>1. Base = "ipout" /\ "ipout" \in Maps
    BY <1>1 DEF Base, Maps
  <2> QED BY <1>1, <2>1 DEF Written
<1>2. CASE prog # "send"
  <2>1. Base = "grocv" /\ "grocv" \in Maps
    BY <1>2 DEF Base, Maps
  <2> QED BY <1>2, <2>1 DEF Written
<1> QED BY <1>1, <1>2

Undisturbed(p) == kind[p] = "ping" /\ at[p] \in 1 .. 7 /\ ~spoilt[p]

\* An undisturbed ping finds its own entry in every map written for it, and from the
\* last probe's look-up to its reading also its total time.
OwnEntries(p) ==
  Undisturbed(p) => /\ \A m \in Written(at[p]) : maps[m][seq[p]] = Own(p)
                    /\ at[p] = 6 => t5[p] = Own(p)

PingTypes ==
  /\ prog \in {"send", "recv"} /\ seq \in [Packets -> Seqs] /\ at \in [Packets -> Nat]
  /\ DOMAIN maps = Maps /\ \A m \in Maps : DOMAIN maps[m] = Seqs
  /\ DOMAIN t5 = Packets

PingInv == PingTypes /\ (\A p \in Packets : OwnEntries(p)) /\ OwnTimes

LEMMA PingInitInv == PingInit => PingInv
BY DEF PingInit, PingInv, PingTypes, OwnEntries, Undisturbed, OwnTimes

LEMMA OwnIsSomething == ASSUME NEW p PROVE Own(p) # None
<1>1. "from" \in DOMAIN Own(p) /\ "from" \notin DOMAIN None
  BY DEF Own, None
<1> QED BY <1>1

\* The way of a ping in numbers.
LEMMA PingSteps ==
  ASSUME NEW p \in Packets, kind[p] = "ping", at \in [Packets -> Nat]
  PROVE  /\ Len(Route(p)) = 8 /\ (Measured(p) <=> at[p] \in 1 .. 7)
         /\ \A probe : Arrives(p, probe) => at[p] \in 0 .. 7 /\ PingRoute[at[p] + 1] = probe
<1>1. Len(Route(p)) = 8
  BY RouteOfPing DEF PingRoute
<1> QED BY <1>1, RouteOfPing DEF Measured, Arrives

\* What a packet at a probe does to the others, and to itself.
LEMMA PassEffect ==
  ASSUME PingInv, NEW p \in Packets, NEW Ws, NEW Ds, NEW to, Pass(p, Ws, Ds, to)
  PROVE  /\ at' = [at EXCEPT ![p] = to] /\ UNCHANGED <<prog, osend, kind, seq>>
         /\ DOMAIN maps' = Maps /\ \A m \in Maps : DOMAIN maps'[m] = Seqs
         /\ \A q \in Packets : ~spoilt'[q] => ~spoilt[q]
         /\ \A q \in Packets \ {p} : ~spoilt'[q] /\ Measured(q) => seq[q] # seq[p]
         /\ \A m \in Maps, s \in Seqs : s # seq[p] => maps'[m][s] = maps[m][s]
         /\ ~spoilt'[p] => \A m \in Ws \intersect Maps : maps'[m][seq[p]] = Time(m, p)
         /\ \A m \in Maps : m \notin Ws /\ m \notin Ds => maps'[m] = maps[m]
<1> USE DEF PingInv, PingTypes
<1>1. at' = [at EXCEPT ![p] = to] /\ UNCHANGED <<prog, osend, kind, seq>>
  BY DEF Pass
<1>2. seq[p] \in Seqs
  OBVIOUS
<1>3. \A m \in Maps : maps'[m] = IF m \in Ws /\ Room(m, seq[p]) THEN [maps[m] EXCEPT ![seq[p]] = Time(m, p)]
                                 ELSE IF m \in Ds THEN [maps[m] EXCEPT ![seq[p]] = None]
                                 ELSE maps[m]
  BY DEF Pass
<1>4. DOMAIN maps' = Maps
  BY DEF Pass
<1>5. \A q \in Packets : spoilt'[q] <=> \/ spoilt[q]
                                        \/ q # p /\ seq[q] = seq[p] /\ Measured(q)
                                        \/ q = p /\ \E m \in Ws : ~Room(m, seq[p])
  BY Zenon DEF Pass
<1>7. \A q \in Packets : ~spoilt'[q] =>
         ~spoilt[q] /\ ~(q # p /\ seq[q] = seq[p] /\ Measured(q))
  BY <1>5, Zenon
<1>8. ~spoilt'[p] => \A m \in Ws : Room(m, seq[p])
  BY <1>5, Zenon
<1>9. \A m \in Maps : DOMAIN maps'[m] = Seqs
  BY <1>3
<1>10. \A m \in Maps, s \in Seqs : s # seq[p] => maps'[m][s] = maps[m][s]
  BY <1>3
<1>11. ~spoilt'[p] => \A m \in Ws \intersect Maps : maps'[m][seq[p]] = Time(m, p)
  BY <1>2, <1>3, <1>8
<1> QED BY <1>1, <1>3, <1>4, <1>7, <1>9, <1>10, <1>11

\* At a probe only the packet that passes it needs a look.
LEMMA PassInv ==
  ASSUME PingInv, NEW p \in Packets, NEW Ws, NEW Ds, NEW to \in Nat, Pass(p, Ws, Ds, to),
         DOMAIN t5' = Packets, \A q \in Packets \ {p} : t5'[q] = t5[q], OwnEntries(p)'
  PROVE  PingTypes' /\ \A q \in Packets : OwnEntries(q)'
<1>1. /\ at' = [at EXCEPT ![p] = to] /\ UNCHANGED <<prog, osend, kind, seq>>
      /\ DOMAIN maps' = Maps /\ \A m \in Maps : DOMAIN maps'[m] = Seqs
      /\ \A q \in Packets : ~spoilt'[q] => ~spoilt[q]
      /\ \A q \in Packets \ {p} : ~spoilt'[q] /\ Measured(q) => seq[q] # seq[p]
      /\ \A m \in Maps, s \in Seqs : s # seq[p] => maps'[m][s] = maps[m][s]
  BY PassEffect
<1>0. PingTypes' /\ PingTypes
  BY <1>1 DEF PingInv, PingTypes
<1>2. ASSUME NEW q \in Packets \ {p} PROVE OwnEntries(q)'
  <2> SUFFICES ASSUME Undisturbed(q)'
               PROVE  /\ \A m \in Written(at[q])' : maps'[m][seq'[q]] = Own(q)
                      /\ at'[q] = 6 => t5'[q] = Own(q)
    BY DEF OwnEntries
  <2>1. at'[q] = at[q] /\ UNCHANGED <<prog, kind, seq>>
    BY <1>0, <1>1 DEF PingTypes
  <2>2. Undisturbed(q)
    BY <1>1, <2>1 DEF Undisturbed
  <2>3. Measured(q) /\ seq[q] # seq[p] /\ seq[q] \in Seqs
    BY <1>0, <1>1, <2>1, <2>2, PingSteps DEF Undisturbed, PingTypes
  <2>4. \A m \in Maps : maps'[m][seq[q]] = maps[m][seq[q]]
    BY <1>1, <2>3
  <2>5. Written(at[q])' = Written(at[q]) /\ Written(at[q]) \subseteq Maps
    BY <2>1 DEF Written
  <2> QED BY <2>1, <2>2, <2>4, <2>5 DEF OwnEntries, PingInv
<1> QED BY <1>0, <1>2

\* A probe that p passes undisturbed, and that leaves the report empty.
LEMMA QuietProbe ==
  ASSUME PingInv, NEW p \in Packets, NEW Ws, NEW Ds, NEW to \in Nat, Pass(p, Ws, Ds, to),
         DOMAIN t5' = Packets, \A q \in Packets \ {p} : t5'[q] = t5[q], report' = None,
         kind[p] = "ping" => OwnEntries(p)'
  PROVE  PingInv'
<1>1. OwnEntries(p)'
  BY PassEffect DEF OwnEntries, Undisturbed
<1>2. PingTypes' /\ \A q \in Packets : OwnEntries(q)'
  BY <1>1, PassInv
<1> QED BY <1>2 DEF PingInv, OwnTimes

\* The probes that write: what they write for a ping is its own.
LEMMA WritesOwn ==
  ASSUME PingInv, NEW p \in Packets, kind[p] = "ping", ~spoilt[p],
         NEW m \in Maps, m \in {Base, "pkout"} \/ (at[p] \in 1 .. 7 /\ (m = "pkin" => "pkout" \in Written(at[p])))
  PROVE  Time(m, p) = Own(p)
<1>1. CASE m \in {Base, "pkout"}
  BY <1>1 DEF Time
<1>2. CASE m \notin {Base, "pkout"}
  <2> DEFINE b == IF m = "pkin" THEN "pkout" ELSE Base
  <2>1. Undisturbed(p) /\ b \in Written(at[p])
    BY <1>2, StartWritten DEF Undisturbed
  <2>2. maps[b][seq[p]] = Own(p)
    BY <2>1 DEF PingInv, OwnEntries
  <2> QED BY <1>2, <2>2 DEF Time, Own
<1> QED BY <1>1, <1>2

\* A ping on its way finds its start.
LEMMA OwnStart ==
  ASSUME PingInv, NEW p \in Packets, Undisturbed(p)
  PROVE  maps[Base][seq[p]] = Own(p) /\ Started(p)
<1>1. Base \in Written(at[p])
  BY StartWritten DEF Undisturbed
<1> QED BY <1>1, OwnIsSomething DEF PingInv, OwnEntries, Started

\* A probe of a ping that is n probes on its way: it holds its own entries again if it
\* writes what the next place of the way asks for.
LEMMA ProbeOfPing ==
  ASSUME PingInv, NEW p \in Packets, NEW Ws, NEW Ds, NEW to \in Nat, Pass(p, Ws, Ds, to),
         kind[p] = "ping", at[p] \in 0 .. 7, Ws \subseteq Maps,
         \A m \in Ws : m \in {Base, "pkout"} \/ (at[p] \in 1 .. 7 /\ (m = "pkin" => "pkout" \in Written(at[p]))),
         ~spoilt[p] /\ to \in 1 .. 7 =>
           \A m \in Written(to) : m \in Ws \/ (at[p] \in 1 .. 7 /\ m \in Written(at[p]) /\ m \notin Ds),
         ~spoilt[p] /\ to = 6 => t5'[p] = Own(p)
  PROVE  OwnEntries(p)'
<1> SUFFICES ASSUME Undisturbed(p)'
             PROVE  /\ \A m \in Written(at[p])' : maps'[m][seq'[p]] = Own(p)
                    /\ at'[p] = 6 => t5'[p] = Own(p)
  BY DEF OwnEntries
<1>1. /\ at'[p] = to /\ UNCHANGED <<prog, kind, seq>> /\ ~spoilt[p] /\ ~spoilt'[p]
      /\ \A m \in Ws \intersect Maps : maps'[m][seq[p]] = Time(m, p)
      /\ \A m \in Maps : m \notin Ws /\ m \notin Ds => maps'[m] = maps[m]
  BY PassEffect DEF Undisturbed, PingInv, PingTypes
<1>2. to \in 1 .. 7 /\ Written(at[p])' = Written(to) /\ Written(to) \subseteq Maps
  BY <1>1 DEF Undisturbed, Written
<1>3. ASSUME NEW m \in Written(to) PROVE maps'[m][seq[p]] = Own(p)
  <2>1. CASE m \in Ws
    BY <1>1, <1>2, <2>1, WritesOwn
  <2>2. CASE m \notin Ws
    <3>1. Undisturbed(p) /\ m \in Written(at[p]) /\ m \notin Ds
      BY <1>1, <1>2, <2>2 DEF Undisturbed
    <3>2. maps[m][seq[p]] = Own(p)
      BY <3>1 DEF PingInv, OwnEntries
    <3> QED BY <1>1, <1>2, <2>2, <3>1, <3>2
  <2> QED BY <2>1, <2>2
<1> QED BY <1>1, <1>2, <1>3

LEMMA PlaceOfProbe ==
  ASSUME PingInv, NEW p \in Packets, kind[p] = "ping", NEW probe, Arrives(p, probe)
  PROVE  /\ at[p] \in 0 .. 7
         /\ prog = "send" => /\ probe = "ip_output" => at[p] = 0
                             /\ probe = "dev_queue_xmit" => at[p] = 1
                             /\ probe = "add_outbuf" => at[p] = 2
                             /\ probe = "gro_receive" => at[p] = 3
                             /\ probe = "skb_core" => at[p] = 4
                             /\ probe = "sock_queue" => at[p] = 5
         /\ prog = "recv" => /\ probe = "gro_receive" => at[p] = 0
                             /\ probe = "skb_core" => at[p] = 1
                             /\ probe = "icmp_rcv" => at[p] = 2
                             /\ probe = "ip_output" => at[p] = 3
                             /\ probe = "dev_queue_xmit" => at[p] = 4
                             /\ probe = "add_outbuf" => at[p] = 5
         /\ probe = "read" => at[p] = 6
         /\ probe = "delete" => at[p] = 7
<1>1. at[p] \in 0 .. 7 /\ PingRoute[at[p] + 1] = probe
  BY PingSteps DEF PingInv, PingTypes
<1>2. CASE prog = "send"
  BY <1>1, <1>2 DEF PingRoute
<1>3. CASE prog = "recv"
  BY <1>1, <1>3 DEF PingRoute
<1> QED BY <1>2, <1>3 DEF PingInv, PingTypes

\* A probe that writes the one map m if the ping's start is known.
LEMMA StartedProbe ==
  ASSUME PingInv, NEW p \in Packets, NEW m \in Maps, m # "pkin", NEW n \in 1 .. 4,
         Probe(p, IF Started(p) THEN {m} ELSE {}, {}), Quiet,
         kind[p] = "ping" => at[p] = n, \A x \in Written(n + 1) : x = m \/ x \in Written(n)
  PROVE  PingInv'
<1> DEFINE Ws == IF Started(p) THEN {m} ELSE {}
<1>0. at \in [Packets -> Nat] /\ DOMAIN t5 = Packets
  BY DEF PingInv, PingTypes
<1>1. Pass(p, Ws, {}, at[p] + 1)
  BY DEF Probe
<1>2. ASSUME kind[p] = "ping" PROVE OwnEntries(p)'
  <2>1. ~spoilt[p] => \A x \in Written(n + 1) : x \in Ws \/ x \in Written(n)
    BY <1>2, OwnStart DEF Undisturbed
  <2>2. \A x \in Ws : x = m
    OBVIOUS
  <2> HIDE DEF Ws
  <2> QED BY <1>0, <1>1, <1>2, <2>1, <2>2, ProbeOfPing
<1> HIDE DEF Ws
<1> QED BY <1>0, <1>1, <1>2, QuietProbe DEF Quiet

\* The first probe: it writes the start, whatever is there.
LEMMA FirstProbe ==
  ASSUME PingInv, NEW p \in Packets, Probe(p, {Base}, {}), Quiet, kind[p] = "ping" => at[p] = 0
  PROVE  PingInv'
<1>0. at \in [Packets -> Nat] /\ DOMAIN t5 = Packets /\ Base \in Maps
  BY DEF PingInv, PingTypes, Base, Maps
<1>1. Pass(p, {Base}, {}, at[p] + 1)
  BY DEF Probe
<1>2. ASSUME kind[p] = "ping" PROVE OwnEntries(p)'
  <2>1. \A m \in Written(1) : m = Base
    <3>1. CASE prog = "send"
      BY <3>1 DEF Written, Base
    <3>2. CASE prog # "send"
      BY <3>2 DEF Written, Base
    <3> QED BY <3>1, <3>2
  <2> QED BY <1>0, <1>1, <1>2, <2>1, ProbeOfPing
<1> QED BY <1>0, <1>1, <1>2, QuietProbe DEF Quiet

\* The answer comes in: the time it went out is taken out of its map.
LEMMA GroReceiveInv ==
  ASSUME PingInv, NEW p \in Packets, SendGroReceive(p)
  PROVE  PingInv'
<1>0. prog = "send" /\ at \in [Packets -> Nat] /\ DOMAIN t5 = Packets
  BY DEF SendGroReceive, PingInv, PingTypes
<1> DEFINE seen == Started(p) /\ maps["pkout"][seq[p]] # None
           Ws == IF seen THEN {"grocv", "pkin"} ELSE {}
           Ds == IF seen THEN {"pkout"} ELSE {}
<1>1. Pass(p, Ws, Ds, at[p] + 1) /\ Quiet /\ Arrives(p, "gro_receive")
  BY DEF SendGroReceive, Probe
<1>2. ASSUME kind[p] = "ping" PROVE OwnEntries(p)'
  <2>1. at[p] = 3
    BY <1>0, <1>1, <1>2, PlaceOfProbe
  <2>2. "pkout" \in Written(3)
    BY <1>0 DEF Written, Maps
  <2>3. ~spoilt[p] => seen
    <3>1. ~spoilt[p] => Undisturbed(p)
      BY <1>2, <2>1 DEF Undisturbed
    <3>2. ~spoilt[p] => maps["pkout"][seq[p]] = Own(p)
      BY <2>1, <2>2, <3>1 DEF PingInv, OwnEntries
    <3> QED BY <3>1, <3>2, OwnStart, OwnIsSomething
  <2>4. ~spoilt[p] => \A m \in Written(4) : m \in Ws \/ (m \in Written(3) /\ m \notin Ds)
    BY <1>0, <2>3 DEF Written
  <2>5. \A m \in Ws : m \in {"grocv", "pkin"}
    OBVIOUS
  <2> HIDE DEF Ws, Ds
  <2> QED BY <1>0, <1>1, <1>2, <2>1, <2>2, <2>4, <2>5, ProbeOfPing DEF Maps
<1> HIDE DEF Ws, Ds
<1> QED BY <1>0, <1>1, <1>2, QuietProbe DEF Quiet

\* The sender's report of the first half of the way.
LEMMA AddOutbufInv ==
  ASSUME PingInv, NEW p \in Packets, SendAddOutbuf(p)
  PROVE  PingInv'
<1> DEFINE Ws == IF Started(p) THEN {"pkout", "outbuf"} ELSE {}
<1>0. prog = "send" /\ Base = "ipout" /\ at \in [Packets -> Nat] /\ DOMAIN t5 = Packets /\ t5' = t5
  BY DEF SendAddOutbuf, Base, PingInv, PingTypes
<1>1. Pass(p, Ws, {}, at[p] + 1) /\ Arrives(p, "add_outbuf")
  BY DEF SendAddOutbuf, Probe
<1>2. kind[p] = "ping" => at[p] = 2
  BY <1>0, <1>1, PlaceOfProbe
<1>3. ASSUME kind[p] = "ping" PROVE OwnEntries(p)'
  <2>1. ~spoilt[p] => \A m \in Written(3) : m \in Ws \/ m \in Written(2)
    BY <1>0, <1>2, <1>3, OwnStart DEF Written, Undisturbed
  <2>2. \A m \in Ws : m \in {"pkout", "outbuf"}
    OBVIOUS
  <2> HIDE DEF Ws
  <2> QED BY <1>0, <1>1, <1>2, <1>3, <2>1, <2>2, ProbeOfPing DEF Maps
<1>4. OwnTimes'
  <2>1. CASE report' = None
    BY <2>1 DEF OwnTimes
  <2>2. CASE report' = [pkt |-> p, by |-> p, times |-> [m \in {"outbuf"} |-> Time(m, p)]]
    <3>1. report'.pkt = p /\ DOMAIN report'.times = {"outbuf"} /\ report'.times["outbuf"] = Time("outbuf", p)
      BY <2>2
    <3>2. kind'[p] = "ping" /\ ~spoilt'[p] => Time("outbuf", p) = Own(p)
      <4>1. kind' = kind /\ (~spoilt'[p] => ~spoilt[p])
        BY <1>1, PassEffect
      <4> QED BY <1>2, <4>1, WritesOwn DEF Maps
    <3> QED BY <3>1, <3>2 DEF OwnTimes
  <2> QED BY <2>1, <2>2 DEF SendAddOutbuf
<1>5. OwnEntries(p)'
  BY <1>1, <1>3, PassEffect DEF OwnEntries, Undisturbed
<1> HIDE DEF Ws
<1>6. PingTypes' /\ \A q \in Packets : OwnEntries(q)'
  BY <1>0, <1>1, <1>5, PassInv
<1> QED BY <1>4, <1>6 DEF PingInv

\* The last probe takes the total time, or the ping is left alone.
LEMMA LastProbeInv ==
  ASSUME PingInv, NEW p \in Packets, LastProbe(p), kind[p] = "ping" => at[p] = 5
  PROVE  PingInv'
<1>0. at \in [Packets -> Nat] /\ DOMAIN t5 = Packets
  BY DEF PingInv, PingTypes
<1>1. CASE Started(p)
  <2>1. PICK to \in Nat : Pass(p, {}, {}, to) /\ to \in {at[p] + 1, at[p] + 2}
    BY <1>0, <1>1 DEF LastProbe
  <2>2. /\ t5' = [t5 EXCEPT ![p] = [from |-> maps[Base][seq[p]].from, by |-> p]]
        /\ report' = None
    BY <1>1 DEF LastProbe
  <2>3. ASSUME kind[p] = "ping" PROVE OwnEntries(p)'
    <3>1. ~spoilt[p] => t5'[p] = Own(p)
      BY <1>0, <2>2, <2>3, OwnStart DEF Own, Undisturbed
    <3>2. \A m \in Written(6) : m \in Written(5)
      BY DEF Written
    <3>3. \A m \in Written(7) : m \in Written(5)
      BY DEF Written
    <3> QED BY <2>1, <2>3, <3>1, <3>2, <3>3, ProbeOfPing
  <2> QED BY <1>0, <2>1, <2>2, <2>3, QuietProbe
<1>2. CASE ~Started(p)
  <2>1. Pass(p, {}, {}, Len(Route(p))) /\ report' = None /\ t5' = t5
    BY <1>2 DEF LastProbe, Quiet
  <2>2. ASSUME kind[p] = "ping" PROVE OwnEntries(p)'
    <3>1. Len(Route(p)) = 8
      BY <1>0, <2>2, PingSteps
    <3>2. at'[p] = 8
      BY <1>0, <2>1, <3>1, PassEffect
    <3> QED BY <3>2 DEF OwnEntries, Undisturbed
  <2>3. Len(Route(p)) \in Nat
    BY DEF Route
  <2> QED BY <1>0, <2>1, <2>2, <2>3, QuietProbe
<1> QED BY <1>1, <1>2

\* The report is read from the maps: everything in it is the ping's own.
LEMMA ReadTimesInv ==
  ASSUME PingInv, NEW p \in Packets, ReadTimes(p)
  PROVE  PingInv'
<1> DEFINE Times == (IF prog = "send" THEN SendTimes ELSE RecvTimes) \union {"t5"}
<1>0. at \in [Packets -> Nat] /\ DOMAIN t5 = Packets
  BY DEF PingInv, PingTypes
<1>1. Pass(p, {}, {}, at[p] + 1) /\ Arrives(p, "read") /\ t5' = [t5 EXCEPT ![p] = None]
  BY DEF ReadTimes, Probe
<1>2. kind[p] = "ping" => at[p] = 6
  BY <1>1, PlaceOfProbe
<1>3. ASSUME kind[p] = "ping" PROVE OwnEntries(p)'
  <2>1. \A m \in Written(7) : m \in Written(6)
    BY DEF Written
  <2> QED BY <1>0, <1>1, <1>2, <1>3, <2>1, ProbeOfPing
<1>4. OwnTimes'
  <2>1. report' = [pkt |-> p, by |-> p, times |-> [m \in Times |-> IF m = "t5" THEN t5[p] ELSE maps[m][seq[p]]]]
    BY DEF ReadTimes
  <2>2. /\ report'.pkt = p /\ DOMAIN report'.times = Times
        /\ \A m \in Times : report'.times[m] = IF m = "t5" THEN t5[p] ELSE maps[m][seq[p]]
    BY <2>1
  <2>3. ASSUME kind[p] = "ping", ~spoilt[p]
        PROVE  t5[p] = Own(p) /\ \A m \in Times \ {"t5"} : maps[m][seq[p]] = Own(p)
    <3>1. \A m \in Times \ {"t5"} : m \in Written(6)
      BY DEF Written, SendTimes, RecvTimes, Maps
    <3>2. Undisturbed(p) /\ at[p] = 6
      BY <1>2, <2>3 DEF Undisturbed
    <3> QED BY <3>1, <3>2 DEF PingInv, OwnEntries
  <2>4. kind' = kind /\ (~spoilt'[p] => ~spoilt[p])
    BY <1>1, PassEffect
  <2> HIDE DEF Times
  <2> QED BY <2>2, <2>3, <2>4 DEF OwnTimes
<1>5. OwnEntries(p)'
  BY <1>1, <1>3, PassEffect DEF OwnEntries, Undisturbed
<1>6. PingTypes' /\ \A q \in Packets : OwnEntries(q)'
  BY <1>0, <1>1, <1>5, PassInv
<1> QED BY <1>4, <1>6 DEF PingInv

LEMMA DeleteInv ==
  ASSUME PingInv, NEW p \in Packets, SendDelete(p) \/ RecvDelete(p)
  PROVE  PingInv'
<1>0. at \in [Packets -> Nat] /\ DOMAIN t5 = Packets
  BY DEF PingInv, PingTypes
<1>1. PICK Ds : Pass(p, {}, Ds, at[p] + 1)
  BY DEF SendDelete, RecvDelete, Probe
<1>2. Arrives(p, "delete") /\ report' = None /\ t5' = [t5 EXCEPT ![p] = None]
  BY DEF SendDelete, RecvDelete, Ends
<1>3. ASSUME kind[p] = "ping" PROVE OwnEntries(p)'
  <2>1. at'[p] = 8
    BY <1>0, <1>1, <1>2, <1>3, PlaceOfProbe, PassEffect
  <2> QED BY <2>1 DEF OwnEntries, Undisturbed
<1> QED BY <1>0, <1>1, <1>2, <1>3, QuietProbe

LEMMA LoseInv ==
  ASSUME PingInv, NEW p \in Packets, Lose(p)
  PROVE  PingInv'
<1>1. /\ at' = [at EXCEPT ![p] = 9] /\ UNCHANGED <<prog, kind, seq, maps, t5>> /\ report' = None
      /\ at \in [Packets -> Nat] /\ spoilt' = [spoilt EXCEPT ![p] = TRUE]
  BY DEF Lose, Lost, Quiet, PingInv, PingTypes
<1>2. PingTypes' /\ OwnTimes'
  BY <1>1 DEF PingInv, PingTypes, OwnTimes
<1>3. ASSUME NEW q \in Packets PROVE OwnEntries(q)'
  <2>1. CASE q = p
    BY <1>1, <2>1 DEF OwnEntries, Undisturbed
  <2>2. CASE q # p
    <3>1. at'[q] = at[q] /\ spoilt'[q] = spoilt[q]
      BY <1>1, <2>2
    <3> QED BY <1>1, <3>1 DEF PingInv, OwnEntries, Undisturbed, Written
  <2> QED BY <2>1, <2>2
<1> QED BY <1>2, <1>3 DEF PingInv

LEMMA SendInv == ASSUME PingInv, NEW p \in Packets, Send(p) PROVE PingInv'
<1>1. CASE SendIpOutput(p)
  <2>1. prog = "send" /\ Base = "ipout"
    BY <1>1 DEF SendIpOutput, Base
  <2> QED BY <1>1, <2>1, PlaceOfProbe, FirstProbe DEF SendIpOutput
<1>2. CASE SendDevQueueXmit(p)
  <2>1. prog = "send" /\ \A x \in Written(2) : x = "qxmit" \/ x \in Written(1)
    BY <1>2 DEF SendDevQueueXmit, Written
  <2> QED BY <1>2, <2>1, PlaceOfProbe, StartedProbe DEF SendDevQueueXmit, Maps
<1>3. CASE SendSkbCore(p)
  <2>1. prog = "send" /\ \A x \in Written(5) : x = "skbcore" \/ x \in Written(4)
    BY <1>3 DEF SendSkbCore, Written
  <2> QED BY <1>3, <2>1, PlaceOfProbe, StartedProbe DEF SendSkbCore, Maps
<1>4. CASE SendSockQueue(p)
  BY <1>4, PlaceOfProbe, LastProbeInv DEF SendSockQueue
<1> QED BY <1>1, <1>2, <1>3, <1>4, AddOutbufInv, GroReceiveInv, DeleteInv DEF Send

LEMMA RecvInv == ASSUME PingInv, NEW p \in Packets, Recv(p) PROVE PingInv'
<1>1. CASE RecvGroReceive(p)
  <2>1. prog = "recv" /\ Base = "grocv"
    BY <1>1 DEF RecvGroReceive, Base
  <2> QED BY <1>1, <2>1, PlaceOfProbe, FirstProbe DEF RecvGroReceive
<1>2. CASE RecvSkbCore(p)
  <2>1. prog = "recv" /\ \A x \in Written(2) : x = "skbcore" \/ x \in Written(1)
    BY <1>2 DEF RecvSkbCore, Written
  <2> QED BY <1>2, <2>1, PlaceOfProbe, StartedProbe DEF RecvSkbCore, Maps
<1>3. CASE RecvIcmpRcv(p)
  <2>1. prog = "recv" /\ \A x \in Written(3) : x = "icv" \/ x \in Written(2)
    BY <1>3 DEF RecvIcmpRcv, Written
  <2> QED BY <1>3, <2>1, PlaceOfProbe, StartedProbe DEF RecvIcmpRcv, Maps
<1>4. CASE RecvIpOutput(p)
  <2>1. prog = "recv" /\ \A x \in Written(4) : x = "ipout" \/ x \in Written(3)
    BY <1>4 DEF RecvIpOutput, Written
  <2> QED BY <1>4, <2>1, PlaceOfProbe, StartedProbe DEF RecvIpOutput, Maps
<1>5. CASE RecvDevQueueXmit(p)
  <2>1. prog = "recv" /\ \A x \in Written(5) : x = "qxmit" \/ x \in Written(4)
    BY <1>5 DEF RecvDevQueueXmit, Written
  <2> QED BY <1>5, <2>1, PlaceOfProbe, StartedProbe DEF RecvDevQueueXmit, Maps
<1>6. CASE RecvAddOutbuf(p)
  BY <1>6, PlaceOfProbe, LastProbeInv DEF RecvAddOutbuf
<1> QED BY <1>1, <1>2, <1>3, <1>4, <1>5, <1>6, DeleteInv DEF Recv

LEMMA PingInvNext == PingInv /\ [PingNext]_pingVars => PingInv'
<1> SUFFICES ASSUME PingInv, [PingNext]_pingVars PROVE PingInv'
  OBVIOUS
<1>1. CASE UNCHANGED pingVars
  BY <1>1 DEF pingVars, PingInv, PingTypes, OwnEntries, Undisturbed, Written, OwnTimes
<1> QED BY <1>1, SendInv, RecvInv, ReadTimesInv, LoseInv DEF PingNext

\* A report of a ping that nothing disturbed has only this ping's own times, for any
\* number of packets, sequence numbers and map entries.
THEOREM PingReportsOwn == PingSpec => []OwnTimes
BY PingInitInv, PingInvNext, PTL DEF PingSpec, PingInv

-----------------------------------------------------------------------------
(* CpuPercent: the invariant.                                               *)

Ticks == [TimeFields -> Nat]
Machines == [at : Nat, use : [Cpus -> Ticks], worked : Nat, online : SUBSET Cpus, plugs : Nat]
Moments == Machines \union {NoTimes.of}
TimeSamples == [of : Moments, cpus : Nat]
SamplePairs == [sys : TimeSamples, proc : TimeSamples]
Places == {"idle", "first", "sample", "proc", "store", "storeproc", "calculate"}

\* What a CPU went through while its ticks grew from u to v: no field went back, it was
\* no longer at work for guests than at work, and n ticks were at work, waiting or idle.
Grew(u, v) ==
  /\ \A field \in TimeFields : u[field] <= v[field]
  /\ v["guest"] - u["guest"] <= v["user"] - u["user"]
Spent(u, v, n) ==
  (v["user"] - u["user"]) + (v["iowait"] - u["iowait"]) + (v["steal"] - u["steal"])
    + (v["idle"] - u["idle"]) = n

\* What the machine went through from a to b.
Until(a, b) ==
  /\ a.at <= b.at /\ (a.at = b.at => a.worked = b.worked) /\ a.plugs <= b.plugs
  /\ \A c \in Cpus : Grew(a.use[c], b.use[c])
  /\ a.plugs = b.plugs =>
       /\ a.online = b.online
       /\ \A c \in Cpus : IF c \in a.online THEN Spent(a.use[c], b.use[c], b.at - a.at)
                         ELSE a.use[c] = b.use[c]

UseTypes ==
  /\ machine \in Machines /\ Min(Cpus) \in machine.online
  /\ cpu_count \in Nat /\ functions \subseteq UseKinds /\ mixed \subseteq UseKinds
  /\ times_before \in [UseKinds -> SamplePairs]
  /\ sample1 \in [UseCallers -> SamplePairs] /\ sample2 \in [UseCallers -> SamplePairs]
  /\ usePc \in [UseCallers -> Places]
  /\ calling \in [UseCallers -> [kind : UseKinds, blocking : BOOLEAN]]
  /\ latest \in [UseKinds -> Moments]
  /\ DOMAIN figures = UseCallers /\ \A t \in UseCallers : "from" \in DOMAIN figures[t]

\* All that was sampled was before now.
Past(m) == m \in Machines => Until(m, machine)
PastPair(p) == Past(p.sys.of) /\ Past(p.proc.of)
SampledBefore ==
  /\ \A k \in UseKinds : PastPair(times_before[k]) /\ Past(latest[k])
  /\ \A t \in UseCallers : PastPair(sample1[t]) /\ PastPair(sample2[t])

\* The samples kept from the call before are those of the history variable.
KeptLatest ==
  \A k \in UseKinds :
    times_before[k].sys.of = latest[k] /\ (k \in Globals => latest[k] \in Machines)

\* Two threads are in the same function only if it is noted.
AloneUnlessMixed ==
  /\ OfProcess \notin mixed
  /\ \A t, u \in UseCallers :
       ~UseAt(t, "idle") /\ ~UseAt(u, "idle") /\ Kind(t) = Kind(u) => t = u \/ Kind(t) \in mixed

In(t, places) == usePc[t] \in places

\* What a thread has in its samples, unless another interferes.
OwnSamples(t) ==
  /\ Kind(t) \in Globals /\ ~UseAt(t, "idle") =>
       /\ sample1[t].sys.of \in Machines /\ In(t, {"sample", "store", "calculate"})
  /\ In(t, {"proc", "store", "storeproc", "calculate"}) => sample2[t].sys.of \in Machines
  /\ Kind(t) \notin mixed =>
       /\ In(t, {"first", "sample", "proc", "store"}) /\ ~calling[t].blocking =>
            sample1[t].sys = times_before[Kind(t)].sys
       /\ In(t, {"proc", "store", "storeproc", "calculate"}) /\ sample1[t].sys.of \in Machines =>
            Until(sample1[t].sys.of, sample2[t].sys.of)
       /\ In(t, {"storeproc", "calculate"}) =>
            /\ figures[t].from = sample1[t].sys.of
            /\ times_before[Kind(t)].sys = sample2[t].sys

\* The samples of the process are of one moment, or the process's own is the later one,
\* and multiplied by the same number of CPUs.
InOrder(p) == p.sys.of \in Machines /\ p.proc.of \in Machines => Until(p.sys.of, p.proc.of)
Multiplied(p) == p.sys.of \in Machines => p.sys.cpus = cpu_count /\ cpu_count >= 1
KeptProcess ==
  /\ Multiplied(times_before[OfProcess])
  /\ (\A t \in UseCallers : ~UseAt(t, "storeproc")) => InOrder(times_before[OfProcess])
OwnProcess(t) ==
  Kind(t) = OfProcess /\ ~UseAt(t, "idle") =>
    /\ cpu_count >= 1 /\ Multiplied(sample1[t])
    /\ In(t, {"proc", "store", "storeproc", "calculate"}) => Multiplied(sample2[t])
    /\ ~UseAt(t, "first") => InOrder(sample1[t])
    /\ In(t, {"store", "storeproc", "calculate"}) => InOrder(sample2[t])

\* What a call has returned is right.
LinesTrue(k, lines, a, b) ==
  /\ DOMAIN lines = IF k[2] THEN 1..Cardinality(b.online) ELSE {1}
  /\ \A i \in DOMAIN lines :
       LET S == IF k[2] THEN {Order(b.online)[i]} ELSE b.online IN
       IF k[1] = "cpu_percent" THEN PercentTrue(lines[i], a, b, S)
       ELSE TimesTrue(lines[i], a, b, S)
FigureTrue(r) ==
  r.exact /\ r.from # NoTimes.of =>
    IF r.kind = OfProcess
    THEN LET whole == r.until.at - r.from.at IN
         IF whole = 0 THEN r.lines[1].busy[1] = 0
         ELSE Is(r.lines[1].busy, r.until.worked - r.from.worked, whole)
    ELSE r.from.plugs = r.until.plugs =>
           r.error = "" /\ LinesTrue(r.kind, r.lines, r.from, r.until)

OwnInv(t) == OwnSamples(t) /\ OwnProcess(t) /\ (UseAt(t, "idle") => FigureTrue(figures[t]))

UseInv ==
  /\ UseTypes /\ SampledBefore /\ KeptLatest /\ AloneUnlessMixed /\ KeptProcess
  /\ \A t \in UseCallers : OwnInv(t)

-----------------------------------------------------------------------------
(* CpuPercent: the order of the lines.                                      *)

LEMMA GreatestCpu ==
  ASSUME NEW S, IsFiniteSet(S), S \subseteq Nat, S # {}
  PROVE  \E m \in S : \A n \in S : n <= m
<1> DEFINE B == {s \in SUBSET S : s # {} /\ ~\E m \in s : \A n \in s : n <= m}
<1> SUFFICES ASSUME B # {} PROVE FALSE
  OBVIOUS
<1>1. PICK s \in B : IsFiniteSet(s) /\ \A x \in s : s \ {x} \notin B
  <2>1. B \subseteq SUBSET S
    OBVIOUS
  <2> HIDE DEF B
  <2> QED BY <2>1, SmallestSubset
<1>2. PICK x \in s : TRUE
  OBVIOUS
<1>3. s \subseteq Nat
  OBVIOUS
<1>4. CASE s \ {x} = {}
  <2>1. \A n \in s : n <= x
    BY <1>3, <1>4
  <2> QED BY <2>1
<1>5. CASE s \ {x} # {}
  <2>1. PICK m \in s \ {x} : \A n \in s \ {x} : n <= m
    BY <1>1, <1>5
  <2>2. CASE x <= m
    <3>1. \A n \in s : n <= m
      BY <2>1, <2>2
    <3> QED BY <3>1
  <2>3. CASE m < x
    <3>1. \A n \in s : n <= x
      BY <1>3, <2>1, <2>3
    <3> QED BY <3>1
  <2> QED BY <1>3, <2>2, <2>3
<1> QED BY <1>4, <1>5

Increasing(g, S) ==
  g \in [1..Cardinality(S) -> S] /\ \A i, j \in DOMAIN g : i < j => g[i] < g[j]

LEMMA Enumerated ==
  ASSUME NEW S, IsFiniteSet(S), S \subseteq Nat PROVE \E g : Increasing(g, S)
<1> DEFINE B == {s \in SUBSET S : ~\E g : Increasing(g, s)}
<1> SUFFICES ASSUME B # {} PROVE FALSE
  OBVIOUS
<1>1. PICK s \in B : IsFiniteSet(s) /\ \A x \in s : s \ {x} \notin B
  <2>1. B \subseteq SUBSET S
    OBVIOUS
  <2> HIDE DEF B
  <2> QED BY <2>1, SmallestSubset
<1>2. CASE s = {}
  <2>1. Cardinality(s) = 0
    BY <1>2, FS_EmptySet
  <2>2. Increasing([i \in 1..0 |-> i], s)
    BY <2>1 DEF Increasing
  <2> QED BY <2>2
<1>3. CASE s # {}
  <2>1. PICK m \in s : \A x \in s : x <= m
    <3>1. s \subseteq Nat
      OBVIOUS
    <3> QED BY <1>1, <1>3, <3>1, GreatestCpu
  <2> DEFINE r == s \ {m}
             n == Cardinality(s)
  <2>2. PICK g : Increasing(g, r)
    BY <1>1
  <2>3. n \in Nat /\ Cardinality(r) = n - 1 /\ n - 1 \in Nat
    <3>1. Cardinality(r) = n - 1 /\ IsFiniteSet(r)
      BY <1>1, FS_RemoveElement
    <3> QED BY <1>1, <3>1, FS_CardinalityType
  <2>4. g \in [1..n - 1 -> r] /\ \A i, j \in 1..n - 1 : i < j => g[i] < g[j]
    BY <2>2, <2>3 DEF Increasing
  <2> DEFINE h == [i \in 1..n |-> IF i = n THEN m ELSE g[i]]
  <2>5. \A x \in r : x \in s /\ x < m
    <3>1. s \subseteq Nat
      OBVIOUS
    <3> QED BY <2>1, <3>1
  <2> HIDE DEF r, n
  <2>6. \A i \in 1..n : i = n \/ i \in 1..n - 1
    BY <2>3
  <2>7. h \in [1..n -> s]
    BY <2>4, <2>5, <2>6
  <2>8. ASSUME NEW i \in 1..n, NEW j \in 1..n, i < j PROVE h[i] < h[j]
    <3>1. i # n /\ i \in 1..n - 1
      BY <2>3, <2>6, <2>8
    <3>2. h[i] = g[i] /\ g[i] \in r
      BY <2>4, <3>1
    <3>3. CASE j = n
      BY <2>5, <3>2, <3>3
    <3>4. CASE j # n
      BY <2>4, <2>6, <2>8, <3>1, <3>2, <3>4
    <3> QED BY <3>3, <3>4
  <2>9. Increasing(h, s)
    BY <2>7, <2>8 DEF Increasing, n
  <2> QED BY <2>9
<1> QED BY <1>2, <1>3

LEMMA CpusFinite ==
  ASSUME NEW S \in SUBSET Cpus
  PROVE  IsFiniteSet(S) /\ S \subseteq Nat /\ Cardinality(S) \in Nat
<1>1. IsFiniteSet(S)
  BY CpuPercentAssumption, FS_Subset
<1> QED BY <1>1, CpuPercentAssumption, FS_CardinalityType

LEMMA OrderIn ==
  ASSUME NEW S \in SUBSET Cpus, NEW i \in 1..Cardinality(S) PROVE Order(S)[i] \in S
<1>1. \E g : Increasing(g, S)
  BY CpusFinite, Enumerated
<1>2. Increasing(Order(S), S)
  BY <1>1 DEF Order, Increasing
<1> QED BY <1>2 DEF Increasing

-----------------------------------------------------------------------------
(* CpuPercent: the time that has gone.                                      *)

LEMMA TicksAre ==
  ASSUME NEW u \in Ticks
  PROVE  /\ u["user"] \in Nat /\ u["iowait"] \in Nat /\ u["steal"] \in Nat
         /\ u["guest"] \in Nat /\ u["idle"] \in Nat
BY DEF Ticks, TimeFields

LEMMA TimesAre ==
  ASSUME NEW m \in Machines, NEW c \in Cpus, NEW field \in TimeFields
  PROVE  m.use[c][field] \in Nat
BY DEF Machines, Ticks

LEMMA GoneIs ==
  ASSUME NEW s1, NEW s2, s1.of \in Machines, s2.of \in Machines,
         NEW S \in SUBSET Cpus, NEW field \in TimeFields
  PROVE  /\ Total(s1, S, field) \in Nat /\ Total(s2, S, field) \in Nat
         /\ Gone(s1.of, s2.of, S, field) = Total(s2, S, field) - Total(s1, S, field)
<1> DEFINE f1 == [c \in S |-> s1.of.use[c][field]]
           f2 == [c \in S |-> s2.of.use[c][field]]
           h == [c \in S |-> s2.of.use[c][field] - s1.of.use[c][field]]
<1>1. \A c \in S : f1[c] \in Nat /\ f2[c] \in Nat /\ h[c] = f2[c] - f1[c]
  BY TimesAre
<1>2. /\ Total(s1, S, field) = SumFunctionOnSet(f1, S)
      /\ Total(s2, S, field) = SumFunctionOnSet(f2, S)
      /\ Gone(s1.of, s2.of, S, field) = SumFunctionOnSet(h, S)
  BY DEF Total, Gone, SumFunction
<1> HIDE DEF f1, f2, h
<1>3. IsFiniteSet(S)
  BY CpusFinite
<1>4. SumFunctionOnSet(f1, S) \in Nat /\ SumFunctionOnSet(f2, S) \in Nat
  BY <1>1, <1>3, SumNat
<1>5. SumFunctionOnSet(h, S) = SumFunctionOnSet(f2, S) - SumFunctionOnSet(f1, S)
  BY <1>1, <1>3, SumMinus
<1> QED BY <1>2, <1>4, <1>5

\* A CPU that is offline counts no time.
LEMMA GoneOnline ==
  ASSUME NEW a \in Machines, NEW b \in Machines, Until(a, b), a.plugs = b.plugs,
         NEW field \in TimeFields
  PROVE  Gone(a, b, Cpus, field) = Gone(a, b, b.online, field)
<1> DEFINE h == [c \in Cpus |-> b.use[c][field] - a.use[c][field]]
           g == [c \in b.online |-> b.use[c][field] - a.use[c][field]]
<1>1. b.online \in SUBSET Cpus
  BY DEF Machines
<1>2. \A c \in Cpus : h[c] \in Int
  BY TimesAre
<1>3. \A c \in Cpus \ b.online : h[c] = 0
  <2> TAKE c \in Cpus \ b.online
  <2>1. a.use[c] = b.use[c] /\ b.use[c][field] \in Nat
    BY TimesAre DEF Until
  <2> QED BY <2>1
<1>4. \A c \in b.online : h[c] = g[c]
  BY <1>1
<1>5. Gone(a, b, Cpus, field) = SumFunctionOnSet(h, Cpus)
      /\ Gone(a, b, b.online, field) = SumFunctionOnSet(g, b.online)
  BY DEF Gone, SumFunction
<1> HIDE DEF h, g
<1>6. IsFiniteSet(Cpus) /\ IsFiniteSet(b.online)
  BY <1>1, CpusFinite
<1>7. SumFunctionOnSet(h, Cpus) = SumFunctionOnSet(h, b.online)
  BY <1>1, <1>2, <1>3, <1>6, SumZero
<1>8. SumFunctionOnSet(h, b.online) = SumFunctionOnSet(g, b.online)
  BY <1>4, <1>6, SumSame
<1> QED BY <1>5, <1>7, <1>8

\* Whether a CPU worked, waited or was idle, it did all the time, and for guests no
\* longer than it worked.
LEMMA GoneAdds ==
  ASSUME NEW a \in Machines, NEW b \in Machines, Until(a, b), a.plugs = b.plugs,
         NEW S, S \subseteq b.online
  PROVE  LET whole == Cardinality(S) * (b.at - a.at) IN
         /\ \A field \in TimeFields : Gone(a, b, S, field) \in Nat
         /\ Gone(a, b, S, "guest") <= Gone(a, b, S, "user")
         /\ NotIdle(a, b, S) + Gone(a, b, S, "idle") = whole /\ whole \in Nat
<1> DEFINE f(field) == [c \in S |-> b.use[c][field] - a.use[c][field]]
           fu == f("user")
           fi == f("iowait")
           fs == f("steal")
           fg == f("guest")
           fd == f("idle")
           fw == [c \in S |-> b.at - a.at]
           f1 == [c \in S |-> fw[c] - fd[c]]
           f2 == [c \in S |-> f1[c] - fs[c]]
           fo == [c \in S |-> fu[c] - fg[c]]
<1>1. S \in SUBSET Cpus /\ b.at - a.at \in Nat
  BY DEF Machines, Until
<1>2. \A c \in S :
        /\ fu[c] \in Nat /\ fi[c] \in Nat /\ fs[c] \in Nat /\ fg[c] \in Nat /\ fd[c] \in Nat
        /\ fw[c] \in Nat /\ fw[c] = b.at - a.at /\ f1[c] \in Nat /\ f2[c] \in Nat /\ fo[c] \in Nat
        /\ f1[c] = fw[c] - fd[c] /\ f2[c] = f1[c] - fs[c] /\ fu[c] = f2[c] - fi[c]
        /\ fo[c] = fu[c] - fg[c]
  <2> TAKE c \in S
  <2>0. c \in Cpus /\ c \in a.online
    BY <1>1 DEF Until
  <2> DEFINE u == a.use[c]
             v == b.use[c]
             w == b.at - a.at
  <2>1. u \in Ticks /\ v \in Ticks
    BY <2>0 DEF Machines
  <2>2. Grew(u, v) /\ Spent(u, v, w)
    BY <2>0 DEF Until
  <2>3. /\ fu[c] = v["user"] - u["user"] /\ fi[c] = v["iowait"] - u["iowait"]
        /\ fs[c] = v["steal"] - u["steal"] /\ fg[c] = v["guest"] - u["guest"]
        /\ fd[c] = v["idle"] - u["idle"] /\ fw[c] = w
        /\ f1[c] = fw[c] - fd[c] /\ f2[c] = f1[c] - fs[c] /\ fo[c] = fu[c] - fg[c]
    OBVIOUS
  <2>4. w \in Nat /\ w = b.at - a.at
    BY <1>1
  <2> HIDE DEF u, v, w, fu, fi, fs, fg, fd, fw, f1, f2, fo
  <2>5. /\ u["user"] <= v["user"] /\ u["iowait"] <= v["iowait"] /\ u["steal"] <= v["steal"]
        /\ u["guest"] <= v["guest"] /\ u["idle"] <= v["idle"]
        /\ v["guest"] - u["guest"] <= v["user"] - u["user"]
    BY <2>2 DEF Grew, TimeFields
  <2>6. (v["user"] - u["user"]) + (v["iowait"] - u["iowait"]) + (v["steal"] - u["steal"])
          + (v["idle"] - u["idle"]) = w
    BY <2>2 DEF Spent
  <2>7. /\ u["user"] \in Nat /\ u["iowait"] \in Nat /\ u["steal"] \in Nat
        /\ u["guest"] \in Nat /\ u["idle"] \in Nat
        /\ v["user"] \in Nat /\ v["iowait"] \in Nat /\ v["steal"] \in Nat
        /\ v["guest"] \in Nat /\ v["idle"] \in Nat
    BY <2>1, TicksAre
  <2>8. /\ fu[c] \in Nat /\ fi[c] \in Nat /\ fs[c] \in Nat /\ fg[c] \in Nat /\ fd[c] \in Nat
        /\ fu[c] + fi[c] + fs[c] + fd[c] = fw[c] /\ fg[c] <= fu[c]
    BY <2>3, <2>5, <2>6, <2>7
  <2> QED BY <2>3, <2>4, <2>8
<1>3. /\ Gone(a, b, S, "user") = SumFunctionOnSet(fu, S)
      /\ Gone(a, b, S, "iowait") = SumFunctionOnSet(fi, S)
      /\ Gone(a, b, S, "steal") = SumFunctionOnSet(fs, S)
      /\ Gone(a, b, S, "guest") = SumFunctionOnSet(fg, S)
      /\ Gone(a, b, S, "idle") = SumFunctionOnSet(fd, S)
  BY DEF Gone, SumFunction
<1> HIDE DEF fu, fi, fs, fg, fd, fw, f1, f2, fo
<1>4. IsFiniteSet(S) /\ Cardinality(S) \in Nat
  BY <1>1, CpusFinite
<1>5. /\ SumFunctionOnSet(fu, S) \in Nat /\ SumFunctionOnSet(fi, S) \in Nat
      /\ SumFunctionOnSet(fs, S) \in Nat /\ SumFunctionOnSet(fg, S) \in Nat
      /\ SumFunctionOnSet(fd, S) \in Nat /\ SumFunctionOnSet(fo, S) \in Nat
      /\ SumFunctionOnSet(f1, S) \in Nat /\ SumFunctionOnSet(f2, S) \in Nat
  BY <1>2, <1>4, SumNat
<1>6. SumFunctionOnSet(fw, S) = Cardinality(S) * (b.at - a.at)
  BY <1>1, <1>2, <1>4, SumConstant
<1>7. SumFunctionOnSet(f1, S) = SumFunctionOnSet(fw, S) - SumFunctionOnSet(fd, S)
  BY <1>2, <1>4, SumMinus
<1>8. SumFunctionOnSet(f2, S) = SumFunctionOnSet(f1, S) - SumFunctionOnSet(fs, S)
  BY <1>2, <1>4, SumMinus
<1>9. SumFunctionOnSet(fu, S) = SumFunctionOnSet(f2, S) - SumFunctionOnSet(fi, S)
  BY <1>2, <1>4, SumMinus
<1>10. SumFunctionOnSet(fo, S) = SumFunctionOnSet(fu, S) - SumFunctionOnSet(fg, S)
  BY <1>2, <1>4, SumMinus
<1>11. Cardinality(S) * (b.at - a.at) \in Nat
  BY <1>1, <1>4
<1>12. NotIdle(a, b, S) =
         SumFunctionOnSet(fu, S) + SumFunctionOnSet(fi, S) + SumFunctionOnSet(fs, S)
  BY <1>3 DEF NotIdle
<1>13. \A field \in TimeFields : Gone(a, b, S, field) \in Nat
  BY <1>3, <1>5 DEF TimeFields
<1>14. NotIdle(a, b, S) + Gone(a, b, S, "idle") = Cardinality(S) * (b.at - a.at)
  BY <1>3, <1>5, <1>6, <1>7, <1>8, <1>9, <1>11, <1>12
<1>15. Gone(a, b, S, "guest") <= Gone(a, b, S, "user")
  BY <1>3, <1>5, <1>10
<1> QED BY <1>11, <1>13, <1>14, <1>15

-----------------------------------------------------------------------------
(* CpuPercent: the figures of two lines.                                    *)

\* Between two lines U was not idle, G of it for guests, and I idle.
Differ(l1, l2, U, G, I) ==
  /\ l1 \in Ticks /\ l2 \in Ticks /\ U \in Nat /\ G \in Nat /\ I \in Nat
  /\ \A field \in TimeFields : l1[field] <= l2[field]
  /\ G <= U
  /\ (l2["user"] - l1["user"]) + (l2["iowait"] - l1["iowait"]) + (l2["steal"] - l1["steal"]) = U
  /\ l2["guest"] - l1["guest"] = G /\ l2["idle"] - l1["idle"] = I

LEMMA SumsDiffer ==
  ASSUME NEW l1, NEW l2, NEW U, NEW G, NEW I, Differ(l1, l2, U, G, I)
  PROVE  /\ Sum(l2) - Sum(l1) = U + G + I
         /\ (Sum(l2) - l2.idle) - (Sum(l1) - l1.idle) = U + G
<1> DEFINE u1 == l1["user"]
           w1 == l1["iowait"]
           s1 == l1["steal"]
           g1 == l1["guest"]
           i1 == l1["idle"]
           u2 == l2["user"]
           w2 == l2["iowait"]
           s2 == l2["steal"]
           g2 == l2["guest"]
           i2 == l2["idle"]
<1>1. /\ u1 \in Nat /\ w1 \in Nat /\ s1 \in Nat /\ g1 \in Nat /\ i1 \in Nat
      /\ u2 \in Nat /\ w2 \in Nat /\ s2 \in Nat /\ g2 \in Nat /\ i2 \in Nat
  BY TicksAre DEF Differ
<1>2. (u2 - u1) + (w2 - w1) + (s2 - s1) = U /\ g2 - g1 = G /\ i2 - i1 = I
  BY DEF Differ
<1>3. U \in Nat /\ G \in Nat /\ I \in Nat
  BY DEF Differ
<1>4. Sum(l1) = u1 + w1 + s1 + g1 + i1 /\ Sum(l2) = u2 + w2 + s2 + g2 + i2
  BY DEF Sum
<1>5. l1.idle = i1 /\ l2.idle = i2
  OBVIOUS
<1> HIDE DEF u1, w1, s1, g1, i1, u2, w2, s2, g2, i2
<1> QED BY <1>1, <1>2, <1>3, <1>4, <1>5

LEMMA Shares ==
  ASSUME NEW U \in Nat, NEW G \in Nat, NEW I \in Nat, G <= U
  PROVE  /\ (U + G) * (U + I) >= U * (U + G + I)
         /\ G = 0 => (U + G) * (U + I) = U * (U + G + I)
<1>1. (U + G) * (U + I) = U * U + U * I + G * U + G * I
  OBVIOUS
<1>2. U * (U + G + I) = U * U + U * G + U * I
  OBVIOUS
<1>3. U * U \in Nat /\ U * I \in Nat /\ G * U \in Nat /\ G * I \in Nat /\ U * G = G * U
  OBVIOUS
<1>4. G = 0 => G * I = 0
  OBVIOUS
<1> QED BY <1>1, <1>2, <1>3, <1>4

LEMMA PercentIs ==
  ASSUME NEW l1, NEW l2, NEW U, NEW G, NEW I, Differ(l1, l2, U, G, I),
         NEW whole, whole = U + I, NEW line, line = Percent(l1, l2)
  PROVE  /\ DOMAIN line = {"busy"} /\ line.busy[2] # 0
         /\ whole = 0 => line.busy[1] = 0
         /\ line.busy[1] \in 0..line.busy[2]
         /\ line.busy[1] * whole >= U * line.busy[2]
         /\ G = 0 => line.busy[1] * whole = U * line.busy[2]
<1>1. line = IF U + G <= 0 THEN [busy |-> <<0, 1>>] ELSE [busy |-> <<U + G, U + G + I>>]
  BY SumsDiffer DEF Percent
<1>2. U \in Nat /\ G \in Nat /\ I \in Nat /\ G <= U
  BY DEF Differ
<1>3. CASE U + G <= 0
  <2>1. U = 0 /\ G = 0 /\ DOMAIN line = {"busy"} /\ line.busy[1] = 0 /\ line.busy[2] = 1
    BY <1>1, <1>2, <1>3
  <2>2. 0 * whole = 0 /\ 0 * 1 = 0 /\ whole \in Nat
    BY <1>2
  <2> QED BY <2>1, <2>2
<1>4. CASE ~(U + G <= 0)
  <2>1. DOMAIN line = {"busy"} /\ line.busy[1] = U + G /\ line.busy[2] = U + G + I
    BY <1>1, <1>4
  <2>2. /\ (U + G) * (U + I) >= U * (U + G + I)
        /\ G = 0 => (U + G) * (U + I) = U * (U + G + I)
    BY <1>2, Shares
  <2>3. U + G > 0 /\ U + G + I # 0 /\ U + G \in 0..U + G + I /\ whole # 0
    BY <1>2, <1>4
  <2> QED BY <2>1, <2>2, <2>3
<1> QED BY <1>3, <1>4

LEMMA TimesPercentIs ==
  ASSUME NEW l1, NEW l2, NEW U, NEW G, NEW I, Differ(l1, l2, U, G, I),
         NEW whole, whole = U + I, NEW line, line = TimesPercent(l1, l2),
         NEW field \in TimeFields, NEW part, part = l2[field] - l1[field]
  PROVE  /\ DOMAIN line = TimeFields /\ line[field][2] # 0
         /\ whole = 0 => line[field][1] = 0
         /\ line[field][1] * whole <= part * line[field][2]
         /\ G = 0 => line[field][1] * whole = part * line[field][2]
<1>1. line = [fi \in TimeFields |->
                IF U + G + I = 0 THEN <<0, 1>> ELSE <<l2[fi] - l1[fi], U + G + I>>]
  BY SumsDiffer DEF TimesPercent
<1>2. U \in Nat /\ G \in Nat /\ I \in Nat /\ G <= U
  BY DEF Differ
<1>3. part \in Nat /\ part <= U + I
  <2> DEFINE d(fi) == l2[fi] - l1[fi]
  <2>1. \A fi \in TimeFields : d(fi) \in Nat
    BY DEF Differ, Ticks
  <2>2. /\ d("user") + d("iowait") + d("steal") = U /\ d("guest") = G /\ d("idle") = I
    BY DEF Differ
  <2>3. part = d(field)
    OBVIOUS
  <2> HIDE DEF d
  <2>4. d("user") \in Nat /\ d("iowait") \in Nat /\ d("steal") \in Nat
    BY <2>1 DEF TimeFields
  <2> QED BY <1>2, <2>1, <2>2, <2>3, <2>4 DEF TimeFields
<1>d. DOMAIN line = TimeFields
  BY <1>1
<1>4. CASE U + G + I = 0
  <2>1. line[field] = <<0, 1>>
    BY <1>1, <1>4
  <2>2. U = 0 /\ G = 0 /\ I = 0 /\ part = 0 /\ whole = 0
    BY <1>2, <1>3, <1>4
  <2> QED BY <1>d, <2>1, <2>2
<1>5. CASE U + G + I # 0
  <2>1. line[field][1] = part /\ line[field][2] = U + G + I
    BY <1>1, <1>5
  <2>2. whole # 0 /\ whole \in Nat /\ U + G + I = whole + G
    BY <1>2, <1>5
  <2>3. part * (whole + G) = part * whole + part * G /\ part * whole \in Nat /\ part * G \in Nat
        /\ (G = 0 => part * G = 0)
    BY <1>2, <1>3, <2>2
  <2> DEFINE A == part * whole
             B == part * G
             C == part * (whole + G)
  <2>4. line[field][1] * whole = A /\ part * line[field][2] = C
    BY <2>1, <2>2
  <2>5. C = A + B /\ A \in Nat /\ B \in Nat /\ (G = 0 => B = 0)
    BY <2>3
  <2>6. line[field][2] # 0 /\ (whole = 0 => line[field][1] = 0)
    BY <1>5, <2>1, <2>2
  <2> HIDE DEF A, B, C
  <2>7. A <= C /\ (G = 0 => A = C)
    BY <2>5
  <2> QED BY <1>d, <2>4, <2>6, <2>7
<1> QED BY <1>4, <1>5

\* Two lines of the CPUs Z show the use of the CPUs S.
LEMMA LinesRight ==
  ASSUME NEW s1, NEW s2, s1.of \in Machines, s2.of \in Machines, Until(s1.of, s2.of),
         s1.of.plugs = s2.of.plugs, NEW S, S \subseteq s2.of.online, NEW Z \in SUBSET Cpus,
         \A field \in TimeFields : Gone(s1.of, s2.of, Z, field) = Gone(s1.of, s2.of, S, field)
  PROVE  LET l1 == LineOf(s1, Z)
             l2 == LineOf(s2, Z) IN
         /\ PercentTrue(Percent(l1, l2), s1.of, s2.of, S)
         /\ TimesTrue(TimesPercent(l1, l2), s1.of, s2.of, S)
         /\ \A line \in {Percent(l1, l2), TimesPercent(l1, l2)} : \A f \in DOMAIN line : line[f][2] # 0
<1> DEFINE l1 == LineOf(s1, Z)
           l2 == LineOf(s2, Z)
           a == s1.of
           b == s2.of
           U == NotIdle(a, b, S)
           G == Gone(a, b, S, "guest")
           I == Gone(a, b, S, "idle")
           whole == Cardinality(S) * (b.at - a.at)
           p == Percent(l1, l2)
           q == TimesPercent(l1, l2)
<1>0. /\ \A field \in TimeFields : Gone(a, b, S, field) \in Nat
      /\ Gone(a, b, S, "guest") <= Gone(a, b, S, "user") /\ U + I = whole /\ whole \in Nat
  BY GoneAdds
<1>1. /\ U \in Nat /\ G \in Nat /\ I \in Nat /\ G <= U /\ U + I = whole /\ whole \in Nat
      /\ U = Gone(a, b, S, "user") + Gone(a, b, S, "iowait") + Gone(a, b, S, "steal")
  <2> DEFINE u == Gone(a, b, S, "user")
             w == Gone(a, b, S, "iowait")
             t == Gone(a, b, S, "steal")
  <2>1. u \in Nat /\ w \in Nat /\ t \in Nat /\ G \in Nat /\ I \in Nat
    BY <1>0 DEF TimeFields
  <2>2. U = u + w + t /\ G <= u /\ U + I = whole /\ whole \in Nat
    BY <1>0 DEF NotIdle
  <2> HIDE DEF u, w, t, U, G, I, whole
  <2> QED BY <2>1, <2>2 DEF u, w, t
<1>2. \A field \in TimeFields :
        /\ l1[field] \in Nat /\ l2[field] \in Nat
        /\ l2[field] - l1[field] = Gone(a, b, S, field)
        /\ l1[field] = Total(s1, Z, field) /\ l2[field] = Total(s2, Z, field)
  <2> SUFFICES ASSUME NEW field \in TimeFields
               PROVE  /\ l1[field] \in Nat /\ l2[field] \in Nat
                      /\ l2[field] - l1[field] = Gone(a, b, S, field)
                      /\ l1[field] = Total(s1, Z, field) /\ l2[field] = Total(s2, Z, field)
    OBVIOUS
  <2>1. l1[field] = Total(s1, Z, field) /\ l2[field] = Total(s2, Z, field)
    BY DEF LineOf
  <2>2. /\ Total(s1, Z, field) \in Nat /\ Total(s2, Z, field) \in Nat
        /\ Gone(s1.of, s2.of, Z, field) = Total(s2, Z, field) - Total(s1, Z, field)
    BY GoneIs
  <2> QED BY <2>1, <2>2
<1>3. Differ(l1, l2, U, G, I)
  <2>1. l1 \in Ticks /\ l2 \in Ticks
    BY <1>2 DEF LineOf, Ticks
  <2>2. /\ (l2["user"] - l1["user"]) + (l2["iowait"] - l1["iowait"]) + (l2["steal"] - l1["steal"]) = U
        /\ l2["guest"] - l1["guest"] = G /\ l2["idle"] - l1["idle"] = I
    BY <1>1, <1>2 DEF TimeFields
  <2>3. \A field \in TimeFields : l1[field] <= l2[field]
    <3> TAKE field \in TimeFields
    <3> DEFINE x == l1[field]
               y == l2[field]
    <3>1. x \in Nat /\ y \in Nat /\ y - x \in Nat
      BY <1>0, <1>2
    <3> HIDE DEF x, y
    <3>2. x <= y
      BY <3>1
    <3> QED BY <3>2 DEF x, y
  <2> HIDE DEF l1, l2, U, G, I
  <2> QED BY <1>1, <2>1, <2>2, <2>3 DEF Differ
<1> HIDE DEF l1, l2, p, q, whole, U, G, I
<1>4. /\ DOMAIN p = {"busy"} /\ p.busy[2] # 0
      /\ whole = 0 => p.busy[1] = 0
      /\ p.busy[1] \in 0..p.busy[2]
      /\ p.busy[1] * whole >= U * p.busy[2]
      /\ G = 0 => p.busy[1] * whole = U * p.busy[2]
  <2>1. p = Percent(l1, l2) /\ whole = U + I
    BY <1>1 DEF p
  <2> QED BY <1>3, <2>1, PercentIs
<1>5. ASSUME NEW field \in TimeFields, NEW part, part = Gone(a, b, S, field)
      PROVE  /\ DOMAIN q = TimeFields /\ q[field][2] # 0
             /\ whole = 0 => q[field][1] = 0
             /\ q[field][1] * whole <= part * q[field][2]
             /\ G = 0 => q[field][1] * whole = part * q[field][2]
  <2>1. part = l2[field] - l1[field]
    BY <1>2, <1>5
  <2> QED BY <1>1, <1>3, <2>1, TimesPercentIs DEF q
<1>6. PercentTrue(p, a, b, S)
  BY <1>4 DEF PercentTrue, Is, whole, U, G
<1>7. TimesTrue(q, a, b, S)
  <2>1. DOMAIN q = TimeFields
    BY <1>5 DEF TimeFields
  <2>2. \A field \in TimeFields :
          /\ whole = 0 => q[field][1] = 0
          /\ q[field][1] * whole <= Gone(a, b, S, field) * q[field][2]
          /\ G = 0 => q[field][1] * whole = Gone(a, b, S, field) * q[field][2]
    BY <1>5
  <2> QED BY <2>1, <2>2 DEF TimesTrue, Is, AtMost, whole, G
<1>8. \A line \in {p, q} : \A f \in DOMAIN line : line[f][2] # 0
  <2>1. \A f \in DOMAIN p : p[f][2] # 0
    BY <1>4
  <2>2. \A field \in TimeFields : DOMAIN q = TimeFields /\ q[field][2] # 0
    BY <1>5
  <2>3. \A f \in DOMAIN q : q[f][2] # 0
    BY <2>2 DEF TimeFields
  <2> QED BY <2>1, <2>3
<1> QED BY <1>6, <1>7, <1>8 DEF p, q, l1, l2

\* So is what the functions of the machine compute, unless CPUs have come or gone.
LEMMA ComparedRight ==
  ASSUME NEW k, NEW s1, NEW s2, s1.of \in Machines, s2.of \in Machines,
         Until(s1.of, s2.of), s1.of.plugs = s2.of.plugs, NEW lines, lines = Compared(k, s1, s2)
  PROVE  Divides(lines) /\ LinesTrue(k, lines, s1.of, s2.of)
<1> DEFINE a == s1.of
           b == s2.of
           n == Cardinality(b.online)
           Figures(l1, l2) == IF k[1] = "cpu_percent" THEN Percent(l1, l2) ELSE TimesPercent(l1, l2)
           True(line, S) == IF k[1] = "cpu_percent" THEN PercentTrue(line, a, b, S)
                            ELSE TimesTrue(line, a, b, S)
<1>1. b.online \in SUBSET Cpus /\ a.online = b.online
  BY DEF Machines, Until
<1>2. ASSUME NEW S, S \subseteq b.online, NEW Z \in SUBSET Cpus, NEW line,
             \A field \in TimeFields : Gone(a, b, Z, field) = Gone(a, b, S, field),
             line = Figures(LineOf(s1, Z), LineOf(s2, Z))
      PROVE  True(line, S) /\ \A f \in DOMAIN line : line[f][2] # 0
  <2>1. /\ PercentTrue(Percent(LineOf(s1, Z), LineOf(s2, Z)), a, b, S)
        /\ TimesTrue(TimesPercent(LineOf(s1, Z), LineOf(s2, Z)), a, b, S)
        /\ \A l \in {Percent(LineOf(s1, Z), LineOf(s2, Z)), TimesPercent(LineOf(s1, Z), LineOf(s2, Z))} :
             \A f \in DOMAIN l : l[f][2] # 0
    BY <1>2, LinesRight
  <2> QED BY <1>2, <2>1
<1>3. CASE k[2]
  <2>1. lines = [i \in 1..n |-> Figures(LineOf(s1, {Order(b.online)[i]}), LineOf(s2, {Order(b.online)[i]}))]
    <3> DEFINE t1 == PerCpuTimes(s1)
               t2 == PerCpuTimes(s2)
    <3>1. /\ t1 = [i \in 1..n |-> LineOf(s1, {Order(b.online)[i]})]
          /\ t2 = [i \in 1..n |-> LineOf(s2, {Order(b.online)[i]})]
      BY <1>1 DEF PerCpuTimes
    <3>2. lines = [i \in DOMAIN t1 \intersect DOMAIN t2 |-> Figures(t1[i], t2[i])]
      BY <1>3 DEF Compared
    <3>3. DOMAIN t1 \intersect DOMAIN t2 = 1..n
      BY <3>1
    <3> HIDE DEF t1, t2, n
    <3>4. \A i \in 1..n : /\ t1[i] = LineOf(s1, {Order(b.online)[i]})
                          /\ t2[i] = LineOf(s2, {Order(b.online)[i]})
      BY <3>1
    <3> HIDE DEF Figures
    <3> QED BY <3>2, <3>3, <3>4
  <2>2. ASSUME NEW i \in 1..n
        PROVE  True(lines[i], {Order(b.online)[i]}) /\ \A f \in DOMAIN lines[i] : lines[i][f][2] # 0
    <3>1. Order(b.online)[i] \in b.online
      BY <1>1, OrderIn
    <3> DEFINE S == {Order(b.online)[i]}
    <3>2. S \subseteq b.online /\ S \in SUBSET Cpus
      BY <1>1, <3>1
    <3>3. lines[i] = Figures(LineOf(s1, S), LineOf(s2, S))
      BY <2>1
    <3>4. \A field \in TimeFields : Gone(a, b, S, field) = Gone(a, b, S, field)
      OBVIOUS
    <3> HIDE DEF S, True, Figures
    <3>5. True(lines[i], S) /\ \A f \in DOMAIN lines[i] : lines[i][f][2] # 0
      BY <1>2, <3>2, <3>3, <3>4
    <3> QED BY <3>5 DEF S
  <2>3. DOMAIN lines = 1..n
    BY <2>1
  <2> HIDE DEF n, Figures
  <2>4. Divides(lines)
    BY <2>2, <2>3 DEF Divides
  <2>5. \A i \in DOMAIN lines : True(lines[i], {Order(b.online)[i]})
    BY <2>2, <2>3
  <2> QED BY <1>3, <2>3, <2>4, <2>5 DEF LinesTrue, n
<1>4. CASE ~k[2]
  <2> DEFINE t1 == <<LineOf(s1, Cpus)>>
             t2 == <<LineOf(s2, Cpus)>>
  <2>1. lines = [i \in DOMAIN t1 \intersect DOMAIN t2 |-> Figures(t1[i], t2[i])]
    BY <1>4 DEF Compared, CpuTimes
  <2>2. DOMAIN t1 = {1} /\ DOMAIN t2 = {1} /\ t1[1] = LineOf(s1, Cpus) /\ t2[1] = LineOf(s2, Cpus)
    OBVIOUS
  <2>3. DOMAIN lines = {1} /\ lines[1] = Figures(LineOf(s1, Cpus), LineOf(s2, Cpus))
    <3> HIDE DEF t1, t2, Figures
    <3>1. DOMAIN t1 \intersect DOMAIN t2 = {1}
      BY <2>2
    <3>2. lines = [i \in {1} |-> Figures(t1[i], t2[i])]
      BY <2>1, <3>1
    <3> QED BY <2>2, <3>2
  <2>4. \A field \in TimeFields : Gone(a, b, Cpus, field) = Gone(a, b, b.online, field)
    BY GoneOnline
  <2>5. True(lines[1], b.online) /\ \A f \in DOMAIN lines[1] : lines[1][f][2] # 0
    <3> HIDE DEF True, Figures
    <3> QED BY <1>2, <2>3, <2>4
  <2>6. Divides(lines)
    BY <2>3, <2>5 DEF Divides
  <2> QED BY <1>4, <2>3, <2>5, <2>6 DEF LinesTrue
<1> QED BY <1>3, <1>4

-----------------------------------------------------------------------------
(* CpuPercent: the figure of a process.                                     *)

LEMMA MomentOf ==
  ASSUME NEW m \in Moments
  PROVE  /\ m \in Machines => m.at \in Nat /\ m.worked \in Nat /\ m # NoTimes.of
         /\ m \notin Machines => m = NoTimes.of /\ m.at = -1
<1>1. ASSUME m \in Machines PROVE m.at \in Nat /\ m.worked \in Nat
  BY <1>1 DEF Machines
<1>2. NoTimes.of.at = -1
  BY DEF NoTimes
<1>3. ASSUME m \in Machines PROVE m # NoTimes.of
  <2>1. m.at # -1
    BY <1>1, <1>3
  <2> QED BY <1>2, <2>1
<1>4. ASSUME m \notin Machines PROVE m = NoTimes.of /\ m.at = -1
  BY <1>2, <1>4 DEF Moments
<1> QED BY <1>1, <1>3, <1>4

\* The samples of a pair were taken while the process did nothing.
LEMMA AtOnce ==
  ASSUME NEW p \in SamplePairs, p.sys.of \in Machines, InOrder(p), p.sys.of.at = p.proc.of.at
  PROVE  p.proc.of # NoTimes.of /\ p.proc.of.worked = p.sys.of.worked
<1>1. p.sys.of.at \in Nat /\ p.proc.of \in Moments
  BY DEF SamplePairs, TimeSamples, Machines
<1>2. p.proc.of \in Machines
  BY <1>1, MomentOf
<1>3. Until(p.sys.of, p.proc.of)
  BY <1>2 DEF InOrder
<1> QED BY <1>1, <1>2, <1>3, MomentOf DEF Until

LEMMA ProcessRight ==
  ASSUME NEW one \in SamplePairs, NEW two \in SamplePairs,
         one.sys.of \in Machines, two.sys.of \in Machines, Until(one.sys.of, two.sys.of),
         InOrder(one), InOrder(two), one.sys.of.at = one.proc.of.at, two.sys.of.at = two.proc.of.at,
         NEW n \in Nat, n >= 1, one.sys.cpus = n, two.sys.cpus = n,
         NEW figure, figure = ProcessPercent(one, two)
  PROVE  LET whole == two.sys.of.at - one.sys.of.at IN
         /\ figure[2] # 0
         /\ IF whole = 0 THEN figure[1] = 0
            ELSE Is(figure, two.sys.of.worked - one.sys.of.worked, whole)
<1> DEFINE x == one.sys.of.at
           y == two.sys.of.at
           whole == y - x
           did == two.sys.of.worked - one.sys.of.worked
<1>1. /\ x \in Nat /\ y \in Nat /\ whole \in Nat
      /\ one.sys.of.worked \in Nat /\ two.sys.of.worked \in Nat /\ did \in Int
  BY DEF Machines, Until
<1>2. /\ one.proc.of # NoTimes.of /\ one.proc.of.worked = one.sys.of.worked
      /\ two.proc.of.worked = two.sys.of.worked
  BY AtOnce
<1>3. one.sys.of # NoTimes.of
  BY MomentOf DEF Moments
<1>4. one.sys # NoTimes /\ one.proc # NoTimes
  BY <1>2, <1>3
<1>5. y * n - x * n = n * whole
  BY <1>1
<1>6. figure = IF n * whole = 0 THEN <<0, 1>> ELSE <<did * n, n * whole>>
  BY <1>2, <1>4, <1>5 DEF ProcessPercent
<1> HIDE DEF x, y, whole, did
<1>7. CASE whole = 0
  <2>1. n * whole = 0
    BY <1>7
  <2>2. figure[1] = 0 /\ figure[2] = 1
    BY <1>6, <2>1
  <2> QED BY <1>7, <2>2 DEF x, y, whole
<1>8. CASE whole # 0
  <2>1. n * whole # 0
    BY <1>1, <1>8
  <2>2. figure[1] = did * n /\ figure[2] = n * whole
    BY <1>6, <2>1
  <2>3. (did * n) * whole = did * (n * whole)
    BY <1>1
  <2>4. Is(figure, did, whole)
    BY <2>2, <2>3 DEF Is
  <2> QED BY <1>8, <2>1, <2>2, <2>4 DEF x, y, whole, did
<1> QED BY <1>7, <1>8

-----------------------------------------------------------------------------
(* CpuPercent: the invariant, at first and while time passes.               *)

LEMMA UseKindsAre ==
  /\ \A k \in UseKinds : k \in Globals \/ k = OfProcess
  /\ OfProcess \notin Globals /\ OfProcess \in UseKinds /\ Globals \subseteq UseKinds
BY DEF UseKinds, Globals, OfProcess

LEMMA NoMoment ==
  NoTimes.of \notin Machines /\ NoTimes \in TimeSamples /\ NoSamples \in SamplePairs
  /\ NoSamples.sys = NoTimes /\ NoSamples.proc = NoTimes
<1>1. NoTimes.of \notin Machines
  BY MomentOf DEF Moments
<1>2. NoTimes \in TimeSamples
  BY DEF NoTimes, TimeSamples, Moments
<1> QED BY <1>1, <1>2 DEF NoSamples, SamplePairs

LEMMA GrewOn ==
  ASSUME NEW u \in Ticks, NEW v \in Ticks, NEW w \in Ticks, Grew(u, v), Grew(v, w)
  PROVE  Grew(u, w)
<1>1. \A field \in TimeFields : /\ u[field] \in Nat /\ v[field] \in Nat /\ w[field] \in Nat
                               /\ u[field] <= v[field] /\ v[field] <= w[field]
  BY DEF Ticks, Grew
<1>2. \A field \in TimeFields : u[field] <= w[field]
  BY <1>1
<1>3. /\ u["guest"] \in Nat /\ v["guest"] \in Nat /\ w["guest"] \in Nat
      /\ u["user"] \in Nat /\ v["user"] \in Nat /\ w["user"] \in Nat
  BY TicksAre
<1>4. /\ v["guest"] - u["guest"] <= v["user"] - u["user"]
      /\ w["guest"] - v["guest"] <= w["user"] - v["user"]
  BY DEF Grew
<1>5. w["guest"] - u["guest"] <= w["user"] - u["user"]
  BY <1>3, <1>4
<1> QED BY <1>2, <1>5 DEF Grew

LEMMA SpentOn ==
  ASSUME NEW u \in Ticks, NEW v \in Ticks, NEW w \in Ticks, NEW n \in Nat,
         Spent(u, v, n), Spent(v, w, 1)
  PROVE  Spent(u, w, n + 1)
<1>1. \A x \in {u, v, w} : /\ x["user"] \in Nat /\ x["iowait"] \in Nat /\ x["steal"] \in Nat
                           /\ x["idle"] \in Nat
  BY TicksAre
<1> QED BY <1>1 DEF Spent

LEMMA UntilSelf == ASSUME NEW m \in Machines PROVE Until(m, m)
<1>1. m.at \in Nat /\ m.plugs \in Nat /\ \A c \in Cpus : m.use[c] \in Ticks
  BY DEF Machines
<1>2. \A u \in Ticks : Grew(u, u) /\ Spent(u, u, 0)
  <2> TAKE u \in Ticks
  <2>1. \A field \in TimeFields : u[field] \in Nat
    BY DEF Ticks
  <2>2. /\ u["user"] \in Nat /\ u["iowait"] \in Nat /\ u["steal"] \in Nat
        /\ u["guest"] \in Nat /\ u["idle"] \in Nat
    BY TicksAre
  <2> QED BY <2>1, <2>2 DEF Grew, Spent
<1>3. m.at - m.at = 0
  BY <1>1
<1> QED BY <1>1, <1>2, <1>3 DEF Until

LEMMA MinCpu == Min(Cpus) \in Cpus
<1>1. \E n \in Cpus : \A m \in Cpus : n <= m
  BY CpuPercentAssumption, LeastNat
<1> QED BY <1>1 DEF Min

LEMMA UseInitInv == ASSUME UseInit PROVE UseInv
<1>1. machine \in Machines /\ Min(Cpus) \in machine.online
  BY MinCpu DEF UseInit, Machines, Ticks
<1>2. functions \subseteq UseKinds
  BY TogetherAssumption DEF UseInit
<1>3. \A n \in Nat : Fresh(n) \in TimeSamples /\ Fresh(n).of = machine
  BY <1>1 DEF Fresh, TimeSamples, Moments
<1>4. \A k \in UseKinds : times_before[k] \in SamplePairs
  BY <1>3, NoMoment DEF UseInit, SamplePairs
<1>5. UseTypes
  <2>1. times_before \in [UseKinds -> SamplePairs]
    BY <1>4 DEF UseInit
  <2>2. latest \in [UseKinds -> Moments]
    BY <1>1 DEF UseInit, Moments
  <2>3. calling \in [UseCallers -> [kind : UseKinds, blocking : BOOLEAN]]
    BY UseKindsAre DEF UseInit
  <2>4. DOMAIN figures = UseCallers /\ \A t \in UseCallers : "from" \in DOMAIN figures[t]
    BY DEF UseInit, NoFigures
  <2>5. usePc \in [UseCallers -> Places]
    BY DEF UseInit, Places
  <2> QED BY <1>1, <1>2, <2>1, <2>2, <2>3, <2>4, <2>5, NoMoment DEF UseInit, UseTypes
<1>6. /\ \A k \in Globals : times_before[k].sys.of = machine /\ times_before[k].proc = NoTimes
                            /\ latest[k] = machine
      /\ times_before[OfProcess] = NoSamples /\ latest[OfProcess] = NoTimes.of
  <2>1. \A k \in Globals : times_before[k] = [sys |-> Fresh(0), proc |-> NoTimes] /\ latest[k] = machine
    BY UseKindsAre DEF UseInit
  <2>2. times_before[OfProcess] = NoSamples /\ latest[OfProcess] = NoTimes.of
    BY UseKindsAre DEF UseInit
  <2> QED BY <1>3, <2>1, <2>2
<1>7. \A t \in UseCallers : sample1[t] = NoSamples /\ sample2[t] = NoSamples /\ usePc[t] = "idle"
                            /\ figures[t] = NoFigures
  BY DEF UseInit
<1>8. SampledBefore
  <2>1. Past(machine) /\ Past(NoTimes.of)
    BY <1>1, NoMoment, UntilSelf DEF Past
  <2> QED BY <1>6, <1>7, <2>1, NoMoment, UseKindsAre DEF SampledBefore, PastPair
<1>9. KeptLatest
  BY <1>1, <1>6, NoMoment, UseKindsAre DEF KeptLatest
<1>10. AloneUnlessMixed
  BY <1>7 DEF AloneUnlessMixed, UseAt, UseInit
<1>11. KeptProcess
  BY <1>6, NoMoment DEF KeptProcess, Multiplied, InOrder
<1>12. \A t \in UseCallers : OwnInv(t)
  <2>1. FigureTrue(NoFigures)
    BY DEF FigureTrue, NoFigures
  <2> QED BY <1>7, <2>1 DEF OwnInv, OwnSamples, OwnProcess, UseAt, In
<1> QED BY <1>5, <1>8, <1>9, <1>10, <1>11, <1>12 DEF UseInv

\* What was before now is before the next moment.
LEMMA UntilTick ==
  ASSUME machine \in Machines, UseTick
  PROVE  /\ machine' \in Machines /\ machine'.online = machine.online
         /\ \A m \in Machines : Until(m, machine) => Until(m, machine')
<1>1. PICK load \in Workloads :
        machine' = [machine EXCEPT !.at = @ + 1,
          !.worked = @ + Cardinality({c \in machine.online : load[c] = "process"}),
          !.use = [c \in Cpus |->
            IF c \in machine.online THEN Worked(c, load[c]) ELSE machine.use[c]]]
  BY DEF UseTick
<1> DEFINE busy == {c \in machine.online : load[c] = "process"}
           more == Cardinality(busy)
           use == [c \in Cpus |-> IF c \in machine.online THEN Worked(c, load[c]) ELSE machine.use[c]]
<1>2. more \in Nat
  <2>1. busy \in SUBSET Cpus
    BY DEF Machines
  <2> HIDE DEF busy
  <2> QED BY <2>1, CpusFinite
<1>3. /\ machine.at \in Nat /\ machine.worked \in Nat /\ machine.plugs \in Nat
      /\ machine.online \in SUBSET Cpus
      /\ machine.use \in [Cpus -> Ticks]
      /\ machine = [at |-> machine.at, use |-> machine.use, worked |-> machine.worked,
                    online |-> machine.online, plugs |-> machine.plugs]
  BY DEF Machines
<1> HIDE DEF more
<1>4. machine' = [at |-> machine.at + 1, use |-> use, worked |-> machine.worked + more,
                  online |-> machine.online, plugs |-> machine.plugs]
  BY <1>1, <1>3 DEF more
<1>5. \A c \in Cpus :
        /\ use[c] \in Ticks /\ Grew(machine.use[c], use[c])
        /\ IF c \in machine.online THEN Spent(machine.use[c], use[c], 1) ELSE use[c] = machine.use[c]
  <2> TAKE c \in Cpus
  <2> DEFINE old == machine.use[c]
             new == use[c]
  <2>1. old \in Ticks /\ load[c] \in {"process", "others", "guest", "iowait", "steal", "idle"}
    BY <1>3, CpuPercentAssumption
  <2>2. new = IF c \in machine.online THEN Worked(c, load[c]) ELSE old
    OBVIOUS
  <2>3. CASE c \in machine.online
    <3> DEFINE n(field) == IF field \in CountedAs(load[c]) THEN 1 ELSE 0
    <3>1. new = [field \in TimeFields |-> old[field] + n(field)]
      BY <2>2, <2>3 DEF Worked
    <3>2. /\ n("user") \in {0, 1} /\ n("iowait") \in {0, 1} /\ n("steal") \in {0, 1}
          /\ n("guest") \in {0, 1} /\ n("idle") \in {0, 1} /\ n("guest") <= n("user")
          /\ n("user") + n("iowait") + n("steal") + n("idle") = 1
      BY <2>1 DEF CountedAs
    <3>3. \A field \in TimeFields : n(field) \in {0, 1} /\ old[field] \in Nat
      BY <2>1 DEF Ticks
    <3> HIDE DEF old, new, n
    <3>4. new \in Ticks /\ \A field \in TimeFields : old[field] <= new[field]
      BY <3>1, <3>3 DEF Ticks
    <3>5. /\ new["user"] = old["user"] + n("user") /\ new["iowait"] = old["iowait"] + n("iowait")
          /\ new["steal"] = old["steal"] + n("steal") /\ new["guest"] = old["guest"] + n("guest")
          /\ new["idle"] = old["idle"] + n("idle")
      BY <3>1 DEF TimeFields
    <3>6. /\ old["user"] \in Nat /\ old["iowait"] \in Nat /\ old["steal"] \in Nat
          /\ old["guest"] \in Nat /\ old["idle"] \in Nat
      BY <2>1, TicksAre
    <3>7. Grew(old, new)
      BY <3>2, <3>4, <3>5, <3>6 DEF Grew
    <3>8. Spent(old, new, 1)
      BY <3>2, <3>5, <3>6 DEF Spent
    <3> QED BY <2>3, <3>4, <3>7, <3>8 DEF old, new
  <2>4. CASE c \notin machine.online
    <3>1. new = old
      BY <2>2, <2>4
    <3>2. \A field \in TimeFields : old[field] \in Nat
      BY <2>1 DEF Ticks
    <3>3. old["guest"] \in Nat /\ old["user"] \in Nat
      BY <2>1, TicksAre
    <3> HIDE DEF old, new
    <3>4. Grew(old, new)
      BY <3>1, <3>2, <3>3 DEF Grew
    <3> QED BY <2>1, <2>4, <3>1, <3>4 DEF old, new
  <2> QED BY <2>3, <2>4
<1>6. use \in [Cpus -> Ticks]
  BY <1>5
<1> HIDE DEF use
<1>7. machine' \in Machines
  BY <1>2, <1>3, <1>4, <1>6 DEF Machines
<1>8. ASSUME NEW m \in Machines, Until(m, machine) PROVE Until(m, machine')
  <2>1. m.at \in Nat /\ m.plugs \in Nat /\ m.at <= machine.at /\ m.plugs <= machine.plugs
    BY <1>8 DEF Machines, Until
  <2>2. machine'.at = machine.at + 1 /\ machine'.use = use /\ machine'.online = machine.online
        /\ machine'.plugs = machine.plugs
    BY <1>4
  <2>3. m.at <= machine'.at /\ m.at # machine'.at /\ m.plugs <= machine'.plugs
    BY <1>3, <2>1, <2>2
  <2>4. m.plugs = machine'.plugs => m.online = machine'.online
    BY <1>8, <2>2 DEF Until
  <2>5. \A c \in Cpus : Grew(m.use[c], machine'.use[c])
    <3> TAKE c \in Cpus
    <3>1. m.use[c] \in Ticks /\ machine.use[c] \in Ticks /\ use[c] \in Ticks
      BY <1>3, <1>5 DEF Machines
    <3>2. Grew(m.use[c], machine.use[c]) /\ Grew(machine.use[c], use[c])
      BY <1>5, <1>8 DEF Until
    <3>3. Grew(m.use[c], use[c])
      BY <3>1, <3>2, GrewOn
    <3> QED BY <2>2, <3>3
  <2>6. ASSUME m.plugs = machine'.plugs, NEW c \in Cpus
        PROVE  IF c \in m.online THEN Spent(m.use[c], machine'.use[c], machine'.at - m.at)
               ELSE m.use[c] = machine'.use[c]
    <3> DEFINE n == machine.at - m.at
    <3>1. m.use[c] \in Ticks /\ machine.use[c] \in Ticks /\ use[c] \in Ticks
      BY <1>3, <1>5 DEF Machines
    <3>2. /\ m.online = machine.online
          /\ IF c \in m.online THEN Spent(m.use[c], machine.use[c], n) ELSE m.use[c] = machine.use[c]
      BY <1>8, <2>2, <2>6 DEF Until
    <3>3. n \in Nat /\ machine'.at - m.at = n + 1
      BY <1>3, <2>1, <2>2
    <3> HIDE DEF n
    <3>4. CASE c \in m.online
      <4>1. Spent(machine.use[c], use[c], 1)
        BY <1>5, <3>2, <3>4
      <4>2. Spent(m.use[c], use[c], n + 1)
        BY <3>1, <3>2, <3>3, <3>4, <4>1, SpentOn
      <4> QED BY <2>2, <3>3, <3>4, <4>2
    <3>5. CASE c \notin m.online
      BY <1>5, <2>2, <3>2, <3>5
    <3> QED BY <3>4, <3>5
  <2> QED BY <2>3, <2>4, <2>5, <2>6 DEF Until
<1> QED BY <1>4, <1>7, <1>8

LEMMA UntilPlug ==
  ASSUME machine \in Machines, PlugCpu
  PROVE  /\ machine' \in Machines
         /\ Min(Cpus) \in machine.online => Min(Cpus) \in machine'.online
         /\ \A m \in Machines : Until(m, machine) => Until(m, machine')
<1>1. PICK c \in Cpus \ {Min(Cpus)} :
        machine' = [machine EXCEPT !.plugs = @ + 1,
          !.online = IF c \in @ THEN @ \ {c} ELSE @ \union {c}]
  BY DEF PlugCpu
<1>2. /\ machine.plugs \in Nat /\ machine.online \in SUBSET Cpus
      /\ machine = [at |-> machine.at, use |-> machine.use, worked |-> machine.worked,
                    online |-> machine.online, plugs |-> machine.plugs]
  BY DEF Machines
<1> DEFINE online == IF c \in machine.online THEN machine.online \ {c} ELSE machine.online \union {c}
<1>3. machine' = [at |-> machine.at, use |-> machine.use, worked |-> machine.worked,
                  online |-> online, plugs |-> machine.plugs + 1]
  BY <1>1, <1>2
<1>4. online \in SUBSET Cpus /\ (Min(Cpus) \in machine.online => Min(Cpus) \in online)
  BY <1>2
<1> HIDE DEF online
<1>5. machine' \in Machines
  BY <1>2, <1>3, <1>4 DEF Machines
<1>6. ASSUME NEW m \in Machines, Until(m, machine) PROVE Until(m, machine')
  <2>1. /\ machine'.at = machine.at /\ machine'.worked = machine.worked /\ machine'.use = machine.use
        /\ machine'.plugs = machine.plugs + 1
    BY <1>3
  <2>2. m.plugs \in Nat /\ m.plugs <= machine.plugs
    BY <1>6 DEF Machines, Until
  <2>3. m.plugs <= machine'.plugs /\ m.plugs # machine'.plugs
    BY <1>2, <2>1, <2>2
  <2> QED BY <1>6, <2>1, <2>3 DEF Until
<1> QED BY <1>3, <1>4, <1>5, <1>6

LEMMA MachineInv == ASSUME UseInv, UseTick \/ PlugCpu PROVE UseInv'
<1>1. /\ UNCHANGED <<calling, functions, useCalls, cpu_count, mixed>>
      /\ UNCHANGED <<times_before, sample1, sample2, usePc, figures, latest>>
  BY DEF UseTick, PlugCpu, Begun
<1>2. machine \in Machines /\ Min(Cpus) \in machine.online
  BY DEF UseInv, UseTypes
<1>3. /\ machine' \in Machines /\ Min(Cpus) \in machine'.online
      /\ \A m \in Machines : Until(m, machine) => Until(m, machine')
  BY <1>2, UntilTick, UntilPlug
<1>4. UseTypes'
  BY <1>1, <1>3 DEF UseInv, UseTypes
<1>5. SampledBefore'
  <2>1. \A m : Past(m) => (m \in Machines => Until(m, machine'))
    BY <1>3 DEF Past
  <2> QED BY <1>1, <2>1 DEF UseInv, SampledBefore, PastPair, Past
<1>6. KeptLatest' /\ AloneUnlessMixed' /\ KeptProcess'
  BY <1>1 DEF UseInv, KeptLatest, AloneUnlessMixed, KeptProcess, Multiplied, InOrder, UseAt, Kind
<1>7. ASSUME NEW t \in UseCallers PROVE OwnInv(t)'
  <2>1. OwnInv(t)
    BY DEF UseInv
  <2> QED BY <1>1, <2>1 DEF OwnInv, OwnSamples, OwnProcess, Multiplied, InOrder, In, UseAt, Kind
<1> QED BY <1>4, <1>5, <1>6, <1>7 DEF UseInv

-----------------------------------------------------------------------------
(* CpuPercent: the steps of a call.                                         *)

LEMMA NowIs ==
  ASSUME UseTypes
  PROVE  /\ machine \in Machines /\ Past(machine) /\ Past(NoTimes.of)
         /\ CpuCount \in Nat /\ CpuCount >= 1 /\ (cpu_count >= 1 => CpuCount = cpu_count)
         /\ \A n \in Nat : Fresh(n) \in TimeSamples /\ Fresh(n).of = machine /\ Fresh(n).cpus = n
<1>1. machine \in Machines /\ Min(Cpus) \in machine.online /\ cpu_count \in Nat
  BY DEF UseTypes
<1>2. Past(machine) /\ Past(NoTimes.of)
  BY <1>1, NoMoment, UntilSelf DEF Past
<1>3. OnlineCpus \in Nat /\ OnlineCpus >= 1
  <2>1. machine.online \in SUBSET Cpus
    BY <1>1 DEF Machines
  <2>2. IsFiniteSet(machine.online) /\ Cardinality(machine.online) \in Nat
    BY <2>1, CpusFinite
  <2>3. Cardinality(machine.online) # 0
    BY <1>1, <2>2, FS_EmptySet
  <2> QED BY <2>2, <2>3 DEF OnlineCpus
<1>4. CpuCount = IF cpu_count = 0 THEN OnlineCpus ELSE cpu_count
  BY DEF CpuCount, Memoize
<1>5. \A n \in Nat : Fresh(n) \in TimeSamples /\ Fresh(n).of = machine /\ Fresh(n).cpus = n
  BY <1>1 DEF Fresh, TimeSamples, Moments
<1> QED BY <1>1, <1>2, <1>3, <1>4, <1>5

\* What a thread has is not disturbed by another, unless it is noted.
LEMMA OthersStay ==
  ASSUME NEW u \in UseCallers, OwnInv(u), mixed \subseteq mixed',
         usePc'[u] = usePc[u], calling'[u] = calling[u], sample1'[u] = sample1[u],
         sample2'[u] = sample2[u], figures'[u] = figures[u],
         UseAt(u, "idle") \/ Kind(u) \in mixed'
           \/ times_before'[Kind(u)].sys = times_before[Kind(u)].sys,
         UseAt(u, "idle") \/ Kind(u) # OfProcess \/ cpu_count' = cpu_count
  PROVE  OwnInv(u)'
<1>1. /\ Kind(u)' = Kind(u)
      /\ \A p : In(u, p)' <=> In(u, p)
      /\ \A p : UseAt(u, p)' <=> UseAt(u, p)
  BY DEF Kind, In, UseAt
<1>2. OwnSamples(u)'
  <2>1. ~UseAt(u, "idle") \/ ~In(u, {"first", "sample", "proc", "store", "storeproc", "calculate"})
    BY DEF In, UseAt
  <2>2. Kind(u) \notin mixed' => Kind(u) \notin mixed
    OBVIOUS
  <2>3. OwnSamples(u)
    BY DEF OwnInv
  <2>4. CASE UseAt(u, "idle")
    BY <2>4 DEF OwnSamples, In, UseAt, Kind
  <2>5. CASE ~UseAt(u, "idle")
    <3> DEFINE k == Kind(u)
    <3>1. k' = k /\ calling'[u].blocking = calling[u].blocking
      BY <1>1
    <3>2. k \notin mixed' => times_before'[k].sys = times_before[k].sys
      BY <2>5
    <3> QED BY <2>2, <2>3, <3>1, <3>2 DEF OwnSamples, In, UseAt, Kind
  <2> QED BY <2>4, <2>5
<1>3. OwnProcess(u)'
  <2>1. OwnProcess(u)
    BY DEF OwnInv
  <2> QED BY <1>1, <2>1 DEF OwnProcess, Multiplied, InOrder, In, UseAt, Kind
<1>4. UseAt(u, "idle")' => FigureTrue(figures[u])'
  <2>1. UseAt(u, "idle") => FigureTrue(figures[u])
    BY DEF OwnInv
  <2> QED BY <1>1, <2>1
<1> QED BY <1>2, <1>3, <1>4 DEF OwnInv

\* What a thread may be doing where.
LEMMA PlaceOf ==
  ASSUME UseInv, NEW t \in UseCallers
  PROVE  /\ UseAt(t, "first") \/ UseAt(t, "proc") \/ UseAt(t, "storeproc") => Kind(t) = OfProcess
         /\ Kind(t) \in UseKinds /\ sample1[t] \in SamplePairs /\ sample2[t] \in SamplePairs
         /\ times_before[Kind(t)] \in SamplePairs
         /\ OwnSamples(t) /\ OwnProcess(t)
         /\ Kind(t) = OfProcess => Kind(t) \notin mixed
         /\ \A u \in UseCallers : u # t /\ ~UseAt(t, "idle") /\ ~UseAt(u, "idle") =>
              Kind(u) # Kind(t) \/ Kind(u) \in mixed
<1>1. Kind(t) \in UseKinds /\ sample1[t] \in SamplePairs /\ sample2[t] \in SamplePairs
      /\ times_before[Kind(t)] \in SamplePairs
  BY DEF UseInv, UseTypes, Kind
<1>2. OwnSamples(t) /\ OwnProcess(t)
  BY DEF UseInv, OwnInv
<1>3. UseAt(t, "first") \/ UseAt(t, "proc") \/ UseAt(t, "storeproc") => Kind(t) = OfProcess
  BY <1>1, <1>2, UseKindsAre DEF OwnSamples, UseAt, In
<1> QED BY <1>1, <1>2, <1>3 DEF UseInv, AloneUnlessMixed

LEMMA UseBeginInv ==
  ASSUME UseInv, NEW t \in UseCallers, NEW k \in functions, NEW blocking \in BOOLEAN,
         UseBegin(t, k, blocking)
  PROVE  UseInv'
<1> DEFINE n == IF k = OfProcess THEN CpuCount ELSE 0
           first == [sys |-> IF ~blocking THEN times_before[k].sys ELSE Fresh(n), proc |-> NoTimes]
           place == IF k = OfProcess THEN "first" ELSE "sample"
           also == {g \in {k} : \E u \in UseCallers : ~UseAt(u, "idle") /\ Kind(u) = k}
<1>1. UseTypes /\ machine \in Machines /\ k \in UseKinds /\ n \in Nat /\ CpuCount \in Nat
  BY NowIs DEF UseInv, UseTypes
<1>2. /\ UNCHANGED <<machine, times_before, sample2, functions, latest>>
      /\ UseAt(t, "idle") /\ (k = OfProcess => \A u \in UseCallers : UseAt(u, "idle"))
      /\ usePc' = [usePc EXCEPT ![t] = place]
      /\ calling' = [calling EXCEPT ![t] = [kind |-> k, blocking |-> blocking]]
      /\ cpu_count' = IF k = OfProcess THEN CpuCount ELSE cpu_count
      /\ sample1' = [sample1 EXCEPT ![t] = first]
      /\ figures' = [figures EXCEPT ![t] = NoFigures]
      /\ mixed' = mixed \union also
  BY DEF UseBegin, UseGoes
<1>3. /\ times_before[k] \in SamplePairs /\ times_before[k].sys \in TimeSamples
      /\ Fresh(n) \in TimeSamples /\ Fresh(n).of = machine /\ Fresh(n).cpus = n
      /\ Past(times_before[k].sys.of) /\ Past(machine) /\ Past(NoTimes.of)
  <2>1. times_before[k] \in SamplePairs /\ times_before[k].sys \in TimeSamples
    BY <1>1 DEF UseTypes, SamplePairs
  <2>2. Past(times_before[k].sys.of)
    BY <1>1 DEF UseInv, SampledBefore, PastPair
  <2> QED BY <1>1, <2>1, <2>2, NowIs
<1>4. /\ first \in SamplePairs /\ first.proc = NoTimes
      /\ first.sys = IF ~blocking THEN times_before[k].sys ELSE Fresh(n)
  BY <1>3, NoMoment DEF SamplePairs
<1>5. place \in Places /\ also \subseteq UseKinds /\ also \subseteq {k}
  BY <1>1 DEF Places
<1> HIDE DEF first, place, also, n
<1>6. /\ usePc'[t] = place /\ calling'[t] = [kind |-> k, blocking |-> blocking]
      /\ sample1'[t] = first /\ figures'[t] = NoFigures /\ sample2'[t] = sample2[t]
  BY <1>1, <1>2 DEF UseTypes
<1>7. \A u \in UseCallers \ {t} :
        /\ usePc'[u] = usePc[u] /\ calling'[u] = calling[u] /\ sample1'[u] = sample1[u]
        /\ sample2'[u] = sample2[u] /\ figures'[u] = figures[u]
  BY <1>1, <1>2 DEF UseTypes
<1>8. UseTypes'
  <2>1. usePc' \in [UseCallers -> Places] /\ sample1' \in [UseCallers -> SamplePairs]
    BY <1>1, <1>2, <1>4, <1>5 DEF UseTypes
  <2>2. calling' \in [UseCallers -> [kind : UseKinds, blocking : BOOLEAN]]
    BY <1>1, <1>2 DEF UseTypes
  <2>3. DOMAIN figures' = UseCallers /\ \A u \in UseCallers : "from" \in DOMAIN figures'[u]
    <3>1. "from" \in DOMAIN NoFigures
      BY DEF NoFigures
    <3>2. DOMAIN figures' = UseCallers
      BY <1>1, <1>2 DEF UseTypes
    <3> QED BY <1>1, <1>6, <1>7, <3>1, <3>2 DEF UseTypes
  <2>4. mixed' \subseteq UseKinds /\ cpu_count' \in Nat
    BY <1>1, <1>2, <1>5 DEF UseTypes
  <2> QED BY <1>1, <1>2, <2>1, <2>2, <2>3, <2>4 DEF UseTypes
<1>9. SampledBefore'
  <2>1. \A m : Past(m)' <=> Past(m)
    BY <1>2 DEF Past
  <2>2. Past(first.sys.of) /\ Past(first.proc.of)
    BY <1>3, <1>4
  <2>3. \A u \in UseCallers : PastPair(sample1[u])' /\ PastPair(sample2[u])'
    BY <1>2, <1>6, <1>7, <2>1, <2>2 DEF UseInv, SampledBefore, PastPair
  <2>4. \A g \in UseKinds : PastPair(times_before[g])' /\ Past(latest[g])'
    BY <1>2, <2>1 DEF UseInv, SampledBefore, PastPair
  <2> QED BY <2>3, <2>4 DEF SampledBefore
<1>10. KeptLatest'
  BY <1>2 DEF UseInv, KeptLatest
<1>11. AloneUnlessMixed'
  <2>1. OfProcess \notin mixed'
    BY <1>2 DEF UseInv, AloneUnlessMixed, also
  <2>2. ASSUME NEW u \in UseCallers, NEW v \in UseCallers,
               ~UseAt(u, "idle")', ~UseAt(v, "idle")', Kind(u)' = Kind(v)'
        PROVE  u = v \/ Kind(u)' \in mixed'
    <3>1. CASE u # t /\ v # t
      BY <1>2, <1>7, <2>2, <3>1 DEF UseInv, AloneUnlessMixed, UseAt, Kind
    <3>2. ASSUME NEW x \in UseCallers \ {t}, ~UseAt(x, "idle")', Kind(x)' = Kind(t)'
          PROVE  Kind(t)' \in mixed'
      <4>1. Kind(t)' = k /\ Kind(x) = k /\ ~UseAt(x, "idle")
        BY <1>6, <1>7, <3>2 DEF Kind, UseAt
      <4> QED BY <1>2, <4>1 DEF also
    <3> QED BY <2>2, <3>1, <3>2
  <2> QED BY <2>1, <2>2 DEF AloneUnlessMixed
<1>12. cpu_count >= 1 => cpu_count' = cpu_count
  BY <1>1, <1>2, NowIs
<1>13. KeptProcess'
  <2>1. Multiplied(times_before[OfProcess])'
    BY <1>2, <1>12 DEF UseInv, KeptProcess, Multiplied
  <2>2. (\A u \in UseCallers : ~UseAt(u, "storeproc"))' => \A u \in UseCallers : ~UseAt(u, "storeproc")
    BY <1>2, <1>7 DEF UseAt
  <2> QED BY <1>2, <2>1, <2>2 DEF UseInv, KeptProcess, InOrder
<1>14. ASSUME NEW u \in UseCallers PROVE OwnInv(u)'
  <2>1. CASE u # t
    <3>1. OwnInv(u) /\ mixed \subseteq mixed' /\ times_before' = times_before
      BY <1>2 DEF UseInv
    <3>2. UseAt(u, "idle") \/ Kind(u) # OfProcess \/ cpu_count' = cpu_count
      BY <1>12, <3>1 DEF OwnInv, OwnProcess
    <3> QED BY <1>7, <2>1, <3>1, <3>2, OthersStay
  <2>2. CASE u = t
    <3>1. /\ Kind(t)' = k /\ calling'[t].blocking = blocking /\ ~UseAt(t, "idle")'
          /\ k \in Globals => UseAt(t, "sample")'
          /\ k = OfProcess => UseAt(t, "first")'
          /\ ~In(t, {"proc", "store", "storeproc", "calculate"})'
      BY <1>6, UseKindsAre DEF Kind, UseAt, In, place
    <3>2. OwnSamples(t)'
      <4>1. k \in Globals => first.sys.of \in Machines
        BY <1>1, <1>3, <1>4 DEF UseInv, KeptLatest
      <4>2. ~blocking => sample1'[t].sys = times_before'[k].sys
        BY <1>2, <1>4, <1>6
      <4>3. UseAt(t, "sample")' => In(t, {"sample", "store", "calculate"})'
        BY DEF UseAt, In
      <4>4. ~In(t, {"storeproc", "calculate"})'
        BY <3>1 DEF In
      <4> QED BY <1>6, <3>1, <4>1, <4>2, <4>3, <4>4 DEF OwnSamples
    <3>3. OwnProcess(t)'
      <4>1. ASSUME k = OfProcess PROVE cpu_count' >= 1 /\ Multiplied(sample1[t])'
        <5>1. cpu_count' = CpuCount /\ CpuCount >= 1 /\ n = CpuCount
          BY <1>1, <1>2, <4>1, NowIs DEF n
        <5>2. CASE blocking
          BY <1>3, <1>4, <1>6, <5>1, <5>2 DEF Multiplied
        <5>3. CASE ~blocking
          <6>1. sample1'[t].sys = times_before[OfProcess].sys
            BY <1>4, <1>6, <4>1, <5>3
          <6>2. Multiplied(times_before[OfProcess])
            BY DEF UseInv, KeptProcess
          <6> QED BY <1>12, <5>1, <6>1, <6>2 DEF Multiplied
        <5> QED BY <5>1, <5>2, <5>3
      <4>2. ~In(t, {"store", "storeproc", "calculate"})'
        BY <3>1 DEF In
      <4> QED BY <3>1, <4>1, <4>2 DEF OwnProcess
    <3> QED BY <2>2, <3>1, <3>2, <3>3 DEF OwnInv
  <2> QED BY <2>1, <2>2
<1> QED BY <1>8, <1>9, <1>10, <1>11, <1>13, <1>14 DEF UseInv

\* Of a call that has begun, another step.
CallStep(t) ==
  /\ UNCHANGED <<machine, calling, functions, cpu_count, mixed>> /\ ~UseAt(t, "idle")
  /\ \A u \in UseCallers \ {t} :
       /\ usePc'[u] = usePc[u] /\ sample1'[u] = sample1[u] /\ sample2'[u] = sample2[u]
       /\ figures'[u] = figures[u]

LEMMA CallStays ==
  ASSUME UseInv, NEW t \in UseCallers, CallStep(t)
  PROVE  /\ AloneUnlessMixed' /\ Kind(t)' = Kind(t)
         /\ \A m : Past(m)' <=> Past(m)
         /\ \A u \in UseCallers \ {t} : PastPair(sample1[u])' /\ PastPair(sample2[u])'
         /\ times_before' = times_before =>
              /\ \A u \in UseCallers \ {t} : OwnInv(u)'
              /\ latest' = latest => KeptLatest'
              /\ UseAt(t, "storeproc")' = UseAt(t, "storeproc") => KeptProcess'
<1>1. Kind(t)' = Kind(t) /\ \A u \in UseCallers \ {t} : Kind(u)' = Kind(u)
  BY DEF CallStep, Kind
<1>2. AloneUnlessMixed'
  <2>1. ASSUME NEW u \in UseCallers, ~UseAt(u, "idle")' PROVE ~UseAt(u, "idle") /\ Kind(u)' = Kind(u)
    BY <1>1, <2>1 DEF CallStep, UseAt
  <2> QED BY <2>1 DEF UseInv, AloneUnlessMixed, CallStep
<1>3. \A m : Past(m)' <=> Past(m)
  BY DEF CallStep, Past
<1>4. \A u \in UseCallers \ {t} : PastPair(sample1[u])' /\ PastPair(sample2[u])'
  BY <1>3 DEF UseInv, SampledBefore, PastPair, CallStep
<1>5. ASSUME times_before' = times_before, NEW u \in UseCallers \ {t} PROVE OwnInv(u)'
  <2>1. OwnInv(u) /\ mixed \subseteq mixed' /\ calling'[u] = calling[u] /\ cpu_count' = cpu_count
    BY DEF UseInv, CallStep
  <2>2. /\ usePc'[u] = usePc[u] /\ sample1'[u] = sample1[u] /\ sample2'[u] = sample2[u]
        /\ figures'[u] = figures[u]
    BY DEF CallStep
  <2> QED BY <1>5, <2>1, <2>2, OthersStay
<1>6. ASSUME times_before' = times_before, UseAt(t, "storeproc")' = UseAt(t, "storeproc")
      PROVE  KeptProcess'
  <2>1. (\A u \in UseCallers : ~UseAt(u, "storeproc"))' => \A u \in UseCallers : ~UseAt(u, "storeproc")
    BY <1>6 DEF CallStep, UseAt
  <2>2. InOrder(times_before[OfProcess])' <=> InOrder(times_before[OfProcess])
    BY <1>6 DEF InOrder
  <2>3. Multiplied(times_before[OfProcess])' <=> Multiplied(times_before[OfProcess])
    BY <1>6 DEF Multiplied, CallStep
  <2> QED BY <2>1, <2>2, <2>3 DEF UseInv, KeptProcess
<1>7. times_before' = times_before /\ latest' = latest => KeptLatest'
  BY DEF UseInv, KeptLatest
<1> QED BY <1>1, <1>2, <1>3, <1>4, <1>5, <1>6, <1>7

LEMMA FirstProcInv ==
  ASSUME UseInv, NEW t \in UseCallers, FirstProc(t) PROVE UseInv'
<1> DEFINE p == IF calling[t].blocking THEN Fresh(0) ELSE times_before[OfProcess].proc
<1>1. /\ UNCHANGED <<machine, times_before, sample2, figures, latest>>
      /\ UNCHANGED <<calling, functions, cpu_count, mixed>>
      /\ UseAt(t, "first") /\ usePc' = [usePc EXCEPT ![t] = "sample"]
      /\ sample1' = [sample1 EXCEPT ![t].proc = p]
  BY DEF FirstProc, UseGoes, Begun
<1>2. UseTypes /\ machine \in Machines /\ OwnSamples(t) /\ OwnProcess(t) /\ Kind(t) = OfProcess
      /\ OfProcess \notin mixed /\ sample1[t] \in SamplePairs
  BY <1>1, PlaceOf, NowIs DEF UseInv
<1>3. /\ times_before[OfProcess] \in SamplePairs /\ PastPair(times_before[OfProcess])
      /\ PastPair(sample1[t]) /\ PastPair(sample2[t])
  BY <1>2, UseKindsAre DEF UseInv, UseTypes, SampledBefore
<1>4. Fresh(0) \in TimeSamples /\ Fresh(0).of = machine /\ Past(machine)
  BY <1>2, NowIs
<1>5. p \in TimeSamples /\ Past(p.of)
  BY <1>3, <1>4 DEF SamplePairs, PastPair
<1> HIDE DEF p
<1>6. /\ usePc'[t] = "sample" /\ sample1'[t].sys = sample1[t].sys /\ sample1'[t].proc = p
      /\ sample1'[t] \in SamplePairs /\ sample2'[t] = sample2[t]
  BY <1>1, <1>2, <1>5 DEF UseTypes, SamplePairs
<1>7. CallStep(t)
  BY <1>1, <1>2 DEF CallStep, UseTypes, UseAt
<1>8. UseTypes'
  <2>1. usePc' \in [UseCallers -> Places]
    BY <1>1, <1>2 DEF UseTypes, Places
  <2>2. sample1' \in [UseCallers -> SamplePairs]
    <3>1. sample1' = [u \in UseCallers |-> sample1'[u]]
      BY <1>1, <1>2 DEF UseTypes
    <3>2. \A u \in UseCallers : sample1'[u] \in SamplePairs
      BY <1>2, <1>6, <1>7 DEF UseTypes, CallStep
    <3> QED BY <3>1, <3>2
  <2> QED BY <1>1, <1>2, <2>1, <2>2 DEF UseTypes
<1>9. SampledBefore'
  <2>1. PastPair(sample1[t])' /\ PastPair(sample2[t])'
    BY <1>3, <1>5, <1>6, <1>7, CallStays DEF PastPair
  <2>2. \A g \in UseKinds : PastPair(times_before[g])' /\ Past(latest[g])'
    BY <1>1, <1>7, CallStays DEF UseInv, SampledBefore, PastPair
  <2> QED BY <1>7, <2>1, <2>2, CallStays DEF SampledBefore
<1>10. UseAt(t, "storeproc")' = UseAt(t, "storeproc")
  BY <1>1, <1>6 DEF UseAt
<1>11. OwnInv(t)'
  <2>1. /\ Kind(t)' = OfProcess /\ ~UseAt(t, "idle")' /\ ~UseAt(t, "first")'
        /\ ~In(t, {"proc", "store", "storeproc", "calculate"})'
        /\ ~In(t, {"storeproc", "calculate"})' /\ ~In(t, {"store", "storeproc", "calculate"})'
        /\ In(t, {"first", "sample", "proc", "store"})
    BY <1>1, <1>2, <1>6, <1>7, CallStays DEF UseAt, In
  <2>2. ~calling'[t].blocking => sample1'[t].sys = times_before'[OfProcess].sys
    BY <1>1, <1>2, <1>6, <2>1 DEF OwnSamples
  <2>3. OwnSamples(t)'
    BY <2>1, <2>2, UseKindsAre DEF OwnSamples
  <2>4. Multiplied(sample1[t])' /\ cpu_count' >= 1
    BY <1>1, <1>2, <1>6 DEF OwnProcess, Multiplied, UseAt
  <2>5. InOrder(sample1[t])'
    <3>1. CASE calling[t].blocking
      BY <1>3, <1>4, <1>6, <3>1 DEF InOrder, PastPair, Past, p
    <3>2. CASE ~calling[t].blocking
      <4>1. sample1'[t].sys = times_before[OfProcess].sys /\ sample1'[t].proc = times_before[OfProcess].proc
        BY <1>1, <1>6, <2>2, <3>2 DEF p
      <4>2. \A u \in UseCallers : ~UseAt(u, "storeproc")
        BY <1>1, <1>2, PlaceOf DEF UseAt
      <4> QED BY <4>1, <4>2 DEF UseInv, KeptProcess, InOrder
    <3> QED BY <3>1, <3>2
  <2>6. OwnProcess(t)'
    BY <2>1, <2>4, <2>5 DEF OwnProcess
  <2> QED BY <2>1, <2>3, <2>6 DEF OwnInv
<1> QED BY <1>1, <1>7, <1>8, <1>9, <1>10, <1>11, CallStays DEF UseInv

LEMMA SecondInv ==
  ASSUME UseInv, NEW t \in UseCallers, Second(t) PROVE UseInv'
<1> DEFINE n == IF Kind(t) = OfProcess THEN CpuCount ELSE 0
           p == Fresh(n)
           place == IF Kind(t) = OfProcess THEN "proc" ELSE "store"
<1>1. /\ UNCHANGED <<machine, times_before, sample1, figures, latest>>
      /\ UNCHANGED <<calling, functions, cpu_count, mixed>>
      /\ UseAt(t, "sample") /\ usePc' = [usePc EXCEPT ![t] = place]
      /\ sample2' = [sample2 EXCEPT ![t].sys = p]
  BY DEF Second, UseGoes, Begun
<1>2. UseTypes /\ machine \in Machines /\ OwnSamples(t) /\ OwnProcess(t) /\ Kind(t) \in UseKinds
      /\ sample1[t] \in SamplePairs /\ sample2[t] \in SamplePairs /\ n \in Nat
  BY PlaceOf, NowIs DEF UseInv
<1>3. PastPair(sample1[t]) /\ PastPair(sample2[t])
  BY DEF UseInv, SampledBefore
<1>4. p \in TimeSamples /\ p.of = machine /\ Past(machine) /\ p.cpus = n
  BY <1>2, NowIs
<1>5. place \in {"proc", "store"}
  OBVIOUS
<1> HIDE DEF p, n, place
<1>6. /\ usePc'[t] = place /\ sample2'[t].proc = sample2[t].proc /\ sample2'[t].sys = p
      /\ sample2'[t] \in SamplePairs /\ sample1'[t] = sample1[t]
  BY <1>1, <1>2, <1>4 DEF UseTypes, SamplePairs
<1>7. CallStep(t)
  BY <1>1, <1>2 DEF CallStep, UseTypes, UseAt
<1>8. UseTypes'
  <2>1. usePc' \in [UseCallers -> Places]
    BY <1>1, <1>2, <1>5 DEF UseTypes, Places
  <2>2. sample2' \in [UseCallers -> SamplePairs]
    <3>1. sample2' = [u \in UseCallers |-> sample2'[u]]
      BY <1>1, <1>2 DEF UseTypes
    <3>2. \A u \in UseCallers : sample2'[u] \in SamplePairs
      BY <1>2, <1>6, <1>7 DEF UseTypes, CallStep
    <3> QED BY <3>1, <3>2
  <2> QED BY <1>1, <1>2, <2>1, <2>2 DEF UseTypes
<1>9. SampledBefore'
  <2>1. PastPair(sample1[t])' /\ PastPair(sample2[t])'
    BY <1>3, <1>4, <1>6, <1>7, CallStays DEF PastPair
  <2>2. \A g \in UseKinds : PastPair(times_before[g])' /\ Past(latest[g])'
    BY <1>1, <1>7, CallStays DEF UseInv, SampledBefore, PastPair
  <2> QED BY <1>7, <2>1, <2>2, CallStays DEF SampledBefore
<1>10. UseAt(t, "storeproc")' = UseAt(t, "storeproc")
  BY <1>1, <1>5, <1>6 DEF UseAt
<1>11. OwnInv(t)'
  <2>1. /\ Kind(t)' = Kind(t) /\ ~UseAt(t, "idle") /\ ~UseAt(t, "idle")'
        /\ ~UseAt(t, "first") /\ ~UseAt(t, "first")'
        /\ ~In(t, {"storeproc", "calculate"})'
        /\ In(t, {"first", "sample", "proc", "store"})
        /\ Kind(t) = OfProcess => ~In(t, {"store", "storeproc", "calculate"})'
        /\ Kind(t) \in Globals => In(t, {"sample", "store", "calculate"})'
    BY <1>1, <1>5, <1>6, <1>7, CallStays, UseKindsAre DEF UseAt, In, place
  <2>2. ~calling[t].blocking /\ Kind(t) \notin mixed => sample1[t].sys = times_before[Kind(t)].sys
    BY <1>2, <2>1 DEF OwnSamples
  <2>3. sample1[t].sys.of \in Machines => Until(sample1[t].sys.of, machine)
    BY <1>3 DEF PastPair, Past
  <2>4. OwnSamples(t)'
    <3>1. Kind(t) \in Globals => sample1[t].sys.of \in Machines
      BY <1>2, <2>1 DEF OwnSamples
    <3> QED BY <1>1, <1>2, <1>4, <1>6, <2>1, <2>2, <2>3, <3>1 DEF OwnSamples
  <2>5. OwnProcess(t)'
    <3> SUFFICES ASSUME Kind(t) = OfProcess
                 PROVE  /\ cpu_count' >= 1 /\ Multiplied(sample1[t])' /\ Multiplied(sample2[t])'
                        /\ InOrder(sample1[t])'
      BY <2>1 DEF OwnProcess
    <3>1. cpu_count >= 1 /\ Multiplied(sample1[t]) /\ InOrder(sample1[t])
      BY <1>2, <2>1 DEF OwnProcess
    <3>2. n = cpu_count
      BY <1>2, <3>1, NowIs DEF n
    <3> QED BY <1>1, <1>4, <1>6, <3>1, <3>2 DEF Multiplied, InOrder
  <2> QED BY <2>1, <2>4, <2>5 DEF OwnInv
<1> QED BY <1>1, <1>7, <1>8, <1>9, <1>10, <1>11, CallStays DEF UseInv

LEMMA SecondProcInv ==
  ASSUME UseInv, NEW t \in UseCallers, SecondProc(t) PROVE UseInv'
<1> DEFINE p == Fresh(0)
<1>1. /\ UNCHANGED <<machine, times_before, sample1, figures, latest>>
      /\ UNCHANGED <<calling, functions, cpu_count, mixed>>
      /\ UseAt(t, "proc") /\ usePc' = [usePc EXCEPT ![t] = "store"]
      /\ sample2' = [sample2 EXCEPT ![t].proc = p]
  BY DEF SecondProc, UseGoes, Begun
<1>2. UseTypes /\ machine \in Machines /\ OwnSamples(t) /\ OwnProcess(t) /\ Kind(t) = OfProcess
      /\ sample1[t] \in SamplePairs /\ sample2[t] \in SamplePairs
  BY <1>1, PlaceOf, NowIs DEF UseInv
<1>3. PastPair(sample1[t]) /\ PastPair(sample2[t])
  BY DEF UseInv, SampledBefore
<1>4. p \in TimeSamples /\ p.of = machine /\ Past(machine)
  BY <1>2, NowIs
<1> HIDE DEF p
<1>6. /\ usePc'[t] = "store" /\ sample2'[t].sys = sample2[t].sys /\ sample2'[t].proc = p
      /\ sample2'[t] \in SamplePairs /\ sample1'[t] = sample1[t]
  BY <1>1, <1>2, <1>4 DEF UseTypes, SamplePairs
<1>7. CallStep(t)
  BY <1>1, <1>2 DEF CallStep, UseTypes, UseAt
<1>8. UseTypes'
  <2>1. usePc' \in [UseCallers -> Places]
    BY <1>1, <1>2 DEF UseTypes, Places
  <2>2. sample2' \in [UseCallers -> SamplePairs]
    <3>1. sample2' = [u \in UseCallers |-> sample2'[u]]
      BY <1>1, <1>2 DEF UseTypes
    <3>2. \A u \in UseCallers : sample2'[u] \in SamplePairs
      BY <1>2, <1>6, <1>7 DEF UseTypes, CallStep
    <3> QED BY <3>1, <3>2
  <2> QED BY <1>1, <1>2, <2>1, <2>2 DEF UseTypes
<1>9. SampledBefore'
  <2>1. PastPair(sample1[t])' /\ PastPair(sample2[t])'
    BY <1>3, <1>4, <1>6, <1>7, CallStays DEF PastPair
  <2>2. \A g \in UseKinds : PastPair(times_before[g])' /\ Past(latest[g])'
    BY <1>1, <1>7, CallStays DEF UseInv, SampledBefore, PastPair
  <2> QED BY <1>7, <2>1, <2>2, CallStays DEF SampledBefore
<1>10. UseAt(t, "storeproc")' = UseAt(t, "storeproc")
  BY <1>1, <1>6 DEF UseAt
<1>11. OwnInv(t)'
  <2>1. /\ Kind(t)' = Kind(t) /\ ~UseAt(t, "idle") /\ ~UseAt(t, "idle")'
        /\ ~UseAt(t, "first") /\ ~UseAt(t, "first")'
        /\ ~In(t, {"storeproc", "calculate"})'
        /\ In(t, {"first", "sample", "proc", "store"})
        /\ In(t, {"proc", "store", "storeproc", "calculate"})
    BY <1>1, <1>6, <1>7, CallStays, UseKindsAre DEF UseAt, In
  <2>2. OwnSamples(t)'
    BY <1>1, <1>2, <1>6, <2>1, UseKindsAre DEF OwnSamples
  <2>3. /\ cpu_count >= 1 /\ Multiplied(sample1[t]) /\ InOrder(sample1[t])
        /\ Multiplied(sample2[t])
    BY <1>2, <2>1 DEF OwnProcess
  <2>4. sample2[t].sys.of \in Machines => Until(sample2[t].sys.of, machine)
    BY <1>3 DEF PastPair, Past
  <2>5. OwnProcess(t)'
    BY <1>1, <1>4, <1>6, <2>3, <2>4 DEF OwnProcess, Multiplied, InOrder
  <2> QED BY <2>1, <2>2, <2>5 DEF OwnInv
<1> QED BY <1>1, <1>7, <1>8, <1>9, <1>10, <1>11, CallStays DEF UseInv

LEMMA StoreLastInv ==
  ASSUME UseInv, NEW t \in UseCallers, StoreLast(t) PROVE UseInv'
<1> DEFINE k == Kind(t)
           last2 == sample2[t].sys
           since == IF calling[t].blocking THEN sample1[t].sys.of ELSE latest[k]
           place == IF k = OfProcess THEN "storeproc" ELSE "calculate"
<1>1. /\ UNCHANGED <<machine, sample1, sample2>>
      /\ UNCHANGED <<calling, functions, cpu_count, mixed>>
      /\ UseAt(t, "store") /\ usePc' = [usePc EXCEPT ![t] = place]
      /\ times_before' = [times_before EXCEPT ![k].sys = last2]
      /\ latest' = [latest EXCEPT ![k] = last2.of]
      /\ figures' = [figures EXCEPT ![t].from = since]
  BY DEF StoreLast, UseGoes, Begun
<1>2. UseTypes /\ machine \in Machines /\ OwnSamples(t) /\ OwnProcess(t) /\ k \in UseKinds
      /\ sample1[t] \in SamplePairs /\ sample2[t] \in SamplePairs /\ times_before[k] \in SamplePairs
  BY PlaceOf, NowIs DEF UseInv
<1>3. PastPair(sample1[t]) /\ PastPair(sample2[t]) /\ PastPair(times_before[k])
  BY <1>2 DEF UseInv, SampledBefore
<1>4. last2 \in TimeSamples /\ last2.of \in Machines /\ Past(last2.of)
  BY <1>1, <1>2, <1>3 DEF OwnSamples, UseAt, In, PastPair, SamplePairs
<1>5. place \in {"storeproc", "calculate"}
  OBVIOUS
<1>6. k \notin mixed => since = sample1[t].sys.of
  <2>1. k \notin mixed /\ ~calling[t].blocking => sample1[t].sys = times_before[k].sys
    BY <1>1, <1>2 DEF OwnSamples, UseAt, In
  <2>2. times_before[k].sys.of = latest[k]
    BY <1>2 DEF UseInv, KeptLatest
  <2> QED BY <2>1, <2>2
<1> HIDE DEF last2, since, place, k
<1>7. /\ usePc'[t] = place /\ figures'[t].from = since /\ "from" \in DOMAIN figures'[t]
      /\ times_before'[k].sys = last2 /\ times_before'[k].proc = times_before[k].proc
      /\ times_before'[k] \in SamplePairs /\ latest'[k] = last2.of
      /\ \A g \in UseKinds \ {k} : times_before'[g] = times_before[g] /\ latest'[g] = latest[g]
  BY <1>1, <1>2, <1>4 DEF UseTypes, SamplePairs
<1>8. CallStep(t)
  BY <1>1, <1>2 DEF CallStep, UseTypes, UseAt
<1>9. UseTypes'
  <2>1. usePc' \in [UseCallers -> Places]
    BY <1>1, <1>2, <1>5 DEF UseTypes, Places
  <2>2. times_before' \in [UseKinds -> SamplePairs]
    <3>1. times_before' = [g \in UseKinds |-> times_before'[g]]
      BY <1>1, <1>2 DEF UseTypes
    <3>2. \A g \in UseKinds : times_before'[g] \in SamplePairs
      BY <1>2, <1>7 DEF UseTypes
    <3> QED BY <3>1, <3>2
  <2>3. latest' \in [UseKinds -> Moments]
    BY <1>1, <1>2, <1>4 DEF UseTypes, Moments
  <2>4. DOMAIN figures' = UseCallers /\ \A u \in UseCallers : "from" \in DOMAIN figures'[u]
    <3>1. DOMAIN figures' = UseCallers
      BY <1>1, <1>2 DEF UseTypes
    <3>2. \A u \in UseCallers \ {t} : "from" \in DOMAIN figures'[u]
      BY <1>2, <1>8 DEF UseTypes, CallStep
    <3> QED BY <1>7, <3>1, <3>2
  <2> QED BY <1>1, <1>2, <2>1, <2>2, <2>3, <2>4 DEF UseTypes
<1>10. SampledBefore'
  <2>1. PastPair(sample1[t])' /\ PastPair(sample2[t])'
    BY <1>1, <1>3, <1>8, CallStays DEF PastPair
  <2>2. \A g \in UseKinds : PastPair(times_before[g])' /\ Past(latest[g])'
    <3> TAKE g \in UseKinds
    <3>1. PastPair(times_before[g]) /\ Past(latest[g])
      BY DEF UseInv, SampledBefore
    <3>2. CASE g = k
      BY <1>3, <1>4, <1>7, <1>8, <3>1, <3>2, CallStays DEF PastPair
    <3>3. CASE g # k
      BY <1>7, <1>8, <3>1, <3>3, CallStays DEF PastPair
    <3> QED BY <3>2, <3>3
  <2> QED BY <1>8, <2>1, <2>2, CallStays DEF SampledBefore
<1>11. KeptLatest'
  BY <1>4, <1>7 DEF UseInv, KeptLatest
<1>12. KeptProcess'
  <2>1. CASE k = OfProcess
    <3>1. UseAt(t, "storeproc")'
      BY <1>7, <2>1 DEF UseAt, place
    <3>2. Multiplied(sample2[t])
      BY <1>1, <1>2, <2>1 DEF OwnProcess, UseAt, In, k
    <3>3. Multiplied(times_before[OfProcess])'
      BY <1>1, <1>7, <2>1, <3>2 DEF Multiplied, last2
    <3> QED BY <3>1, <3>3 DEF KeptProcess
  <2>2. CASE k # OfProcess
    <3>1. times_before'[OfProcess] = times_before[OfProcess]
      BY <1>7, <2>2, UseKindsAre
    <3>2. UseAt(t, "storeproc")' = UseAt(t, "storeproc")
      BY <1>1, <1>7, <2>2 DEF UseAt, place
    <3>3. (\A u \in UseCallers : ~UseAt(u, "storeproc"))' => \A u \in UseCallers : ~UseAt(u, "storeproc")
      BY <1>8, <3>2 DEF CallStep, UseAt
    <3> QED BY <1>1, <3>1, <3>3 DEF UseInv, KeptProcess, Multiplied, InOrder
  <2> QED BY <2>1, <2>2
<1>13. OwnInv(t)'
  <2>1. /\ Kind(t)' = k /\ Kind(t) = k /\ ~UseAt(t, "idle") /\ ~UseAt(t, "idle")'
        /\ ~UseAt(t, "first") /\ ~UseAt(t, "first")'
        /\ ~In(t, {"first", "sample", "proc", "store"})'
        /\ In(t, {"proc", "store", "storeproc", "calculate"})
        /\ In(t, {"store", "storeproc", "calculate"})
        /\ k \in Globals => In(t, {"sample", "store", "calculate"})'
    BY <1>1, <1>5, <1>7, <1>8, CallStays, UseKindsAre DEF UseAt, In, k, place
  <2>2. OwnSamples(t)'
    <3>1. k \in Globals => sample1[t].sys.of \in Machines
      BY <1>2, <2>1 DEF OwnSamples
    <3>2. k \notin mixed /\ sample1[t].sys.of \in Machines => Until(sample1[t].sys.of, sample2[t].sys.of)
      BY <1>2, <2>1 DEF OwnSamples
    <3>3. sample2[t].sys.of \in Machines /\ times_before'[k].sys = sample2[t].sys
      BY <1>4, <1>7 DEF last2
    <3> QED BY <1>1, <1>6, <1>7, <2>1, <3>1, <3>2, <3>3 DEF OwnSamples
  <2>3. OwnProcess(t)'
    BY <1>1, <1>2, <2>1 DEF OwnProcess, Multiplied, InOrder
  <2> QED BY <2>1, <2>2, <2>3 DEF OwnInv
<1>14. ASSUME NEW u \in UseCallers \ {t} PROVE OwnInv(u)'
  <2>1. OwnInv(u) /\ mixed \subseteq mixed' /\ calling'[u] = calling[u] /\ cpu_count' = cpu_count
    BY <1>1 DEF UseInv
  <2>2. /\ usePc'[u] = usePc[u] /\ sample1'[u] = sample1[u] /\ sample2'[u] = sample2[u]
        /\ figures'[u] = figures[u]
    BY <1>8 DEF CallStep
  <2>3. UseAt(u, "idle") \/ Kind(u) \in mixed' \/ times_before'[Kind(u)].sys = times_before[Kind(u)].sys
    <3>1. Kind(u) \in UseKinds
      BY PlaceOf
    <3>2. CASE Kind(u) = k
      BY <1>1, <1>8, <3>2, PlaceOf DEF CallStep, k
    <3>3. CASE Kind(u) # k
      BY <1>7, <3>1, <3>3
    <3> QED BY <3>2, <3>3
  <2> QED BY <2>1, <2>2, <2>3, OthersStay
<1> QED BY <1>8, <1>9, <1>10, <1>11, <1>12, <1>13, <1>14, CallStays DEF UseInv

LEMMA StoreProcInv ==
  ASSUME UseInv, NEW t \in UseCallers, StoreProc(t) PROVE UseInv'
<1>1. /\ UNCHANGED <<machine, sample1, sample2, figures, latest>>
      /\ UNCHANGED <<calling, functions, cpu_count, mixed>>
      /\ UseAt(t, "storeproc") /\ usePc' = [usePc EXCEPT ![t] = "calculate"]
      /\ times_before' = [times_before EXCEPT ![OfProcess].proc = sample2[t].proc]
  BY DEF StoreProc, UseGoes, Begun
<1>2. UseTypes /\ machine \in Machines /\ OwnSamples(t) /\ OwnProcess(t) /\ Kind(t) = OfProcess
      /\ OfProcess \notin mixed /\ sample1[t] \in SamplePairs /\ sample2[t] \in SamplePairs
      /\ times_before[OfProcess] \in SamplePairs
  BY <1>1, PlaceOf, NowIs DEF UseInv
<1>3. PastPair(sample1[t]) /\ PastPair(sample2[t])
  BY DEF UseInv, SampledBefore
<1>7. /\ usePc'[t] = "calculate"
      /\ times_before'[OfProcess].sys = times_before[OfProcess].sys
      /\ times_before'[OfProcess].proc = sample2[t].proc
      /\ times_before'[OfProcess] \in SamplePairs
      /\ \A g \in UseKinds \ {OfProcess} : times_before'[g] = times_before[g]
  BY <1>1, <1>2, UseKindsAre DEF UseTypes, SamplePairs
<1>8. CallStep(t)
  BY <1>1, <1>2 DEF CallStep, UseTypes, UseAt
<1>9. UseTypes'
  <2>1. usePc' \in [UseCallers -> Places]
    BY <1>1, <1>2 DEF UseTypes, Places
  <2>2. times_before' \in [UseKinds -> SamplePairs]
    <3>1. times_before' = [g \in UseKinds |-> times_before'[g]]
      BY <1>1, <1>2 DEF UseTypes
    <3>2. \A g \in UseKinds : times_before'[g] \in SamplePairs
      BY <1>2, <1>7 DEF UseTypes
    <3> QED BY <3>1, <3>2
  <2> QED BY <1>1, <1>2, <2>1, <2>2 DEF UseTypes
<1>a. \A g \in UseKinds : times_before'[g].sys = times_before[g].sys
  BY <1>7
<1>10. SampledBefore'
  <2>1. PastPair(sample1[t])' /\ PastPair(sample2[t])'
    BY <1>1, <1>3, <1>8, CallStays DEF PastPair
  <2>2. \A g \in UseKinds : PastPair(times_before[g])' /\ Past(latest[g])'
    <3> TAKE g \in UseKinds
    <3>1. PastPair(times_before[g]) /\ Past(latest[g])
      BY DEF UseInv, SampledBefore
    <3>2. CASE g = OfProcess
      BY <1>1, <1>3, <1>7, <1>8, <3>1, <3>2, CallStays DEF PastPair
    <3>3. CASE g # OfProcess
      BY <1>1, <1>7, <1>8, <3>1, <3>3, CallStays DEF PastPair
    <3> QED BY <3>2, <3>3
  <2> QED BY <1>8, <2>1, <2>2, CallStays DEF SampledBefore
<1>11. KeptLatest'
  BY <1>1, <1>a DEF UseInv, KeptLatest
<1>12. KeptProcess'
  <2>1. times_before[OfProcess].sys = sample2[t].sys
    BY <1>1, <1>2 DEF OwnSamples, UseAt, In
  <2>2. InOrder(sample2[t])
    BY <1>1, <1>2 DEF OwnProcess, UseAt, In
  <2> QED BY <1>1, <1>7, <2>1, <2>2 DEF UseInv, KeptProcess, Multiplied, InOrder
<1>13. OwnInv(t)'
  <2>1. /\ Kind(t)' = OfProcess /\ ~UseAt(t, "idle") /\ ~UseAt(t, "idle")'
        /\ ~UseAt(t, "first") /\ ~UseAt(t, "first")'
        /\ ~In(t, {"first", "sample", "proc", "store"})'
        /\ In(t, {"proc", "store", "storeproc", "calculate"})
        /\ In(t, {"store", "storeproc", "calculate"}) /\ In(t, {"storeproc", "calculate"})
    BY <1>1, <1>2, <1>7, <1>8, CallStays DEF UseAt, In
  <2>2. OwnSamples(t)'
    BY <1>1, <1>2, <1>7, <2>1, UseKindsAre DEF OwnSamples
  <2>3. OwnProcess(t)'
    BY <1>1, <1>2, <2>1 DEF OwnProcess, Multiplied, InOrder
  <2> QED BY <2>1, <2>2, <2>3 DEF OwnInv
<1>14. ASSUME NEW u \in UseCallers \ {t} PROVE OwnInv(u)'
  <2>1. OwnInv(u) /\ mixed \subseteq mixed' /\ calling'[u] = calling[u] /\ cpu_count' = cpu_count
    BY <1>1 DEF UseInv
  <2>2. /\ usePc'[u] = usePc[u] /\ sample1'[u] = sample1[u] /\ sample2'[u] = sample2[u]
        /\ figures'[u] = figures[u]
    BY <1>8 DEF CallStep
  <2>3. times_before'[Kind(u)].sys = times_before[Kind(u)].sys
    BY <1>a, PlaceOf
  <2> QED BY <2>1, <2>2, <2>3, OthersStay
<1> QED BY <1>8, <1>9, <1>10, <1>11, <1>12, <1>13, <1>14, CallStays DEF UseInv

LEMMA CalculateInv ==
  ASSUME UseInv, NEW t \in UseCallers, Calculate(t) PROVE UseInv'
<1> DEFINE k == Kind(t)
           one == sample1[t]
           two == sample2[t]
           lines == IF k = OfProcess THEN <<[busy |-> ProcessPercent(one, two)]>>
                    ELSE Compared(k, one.sys, times_before[k].sys)
           at_once == \A s \in {one, two} : s.sys.of.at = s.proc.of.at
           r == [kind |-> k, lines |-> IF Divides(lines) THEN lines ELSE <<>>,
                 error |-> IF Divides(lines) THEN "" ELSE "ZeroDivisionError",
                 from |-> figures[t].from, until |-> two.sys.of,
                 exact |-> k \notin mixed /\ (k = OfProcess => at_once)]
<1>1. /\ UNCHANGED <<machine, times_before, latest>>
      /\ UNCHANGED <<calling, functions, cpu_count, mixed>>
      /\ UseAt(t, "calculate") /\ usePc' = [usePc EXCEPT ![t] = "idle"]
      /\ figures' = [figures EXCEPT ![t] = r]
      /\ sample1' = [sample1 EXCEPT ![t] = NoSamples] /\ sample2' = [sample2 EXCEPT ![t] = NoSamples]
  BY DEF Calculate, UseGoes, Begun
<1>2. UseTypes /\ machine \in Machines /\ OwnSamples(t) /\ OwnProcess(t) /\ k \in UseKinds
      /\ one \in SamplePairs /\ two \in SamplePairs
  BY PlaceOf, NowIs DEF UseInv
<1>3. /\ two.sys.of \in Machines
      /\ k \notin mixed =>
           /\ one.sys.of \in Machines => Until(one.sys.of, two.sys.of)
           /\ figures[t].from = one.sys.of /\ times_before[k].sys = two.sys
  BY <1>1, <1>2 DEF OwnSamples, UseAt, In
<1>4. FigureTrue(r)
  <2> SUFFICES ASSUME r.exact, r.from # NoTimes.of
               PROVE  FigureTrue(r)
    BY DEF FigureTrue
  <2>1. /\ k \notin mixed /\ (k = OfProcess => at_once)
        /\ r.from = one.sys.of /\ r.until = two.sys.of /\ r.kind = k
        /\ times_before[k].sys = two.sys
    BY <1>3
  <2>2. one.sys.of \in Machines /\ Until(one.sys.of, two.sys.of)
    <3>1. one.sys.of \in Moments
      BY <1>2 DEF SamplePairs, TimeSamples
    <3> QED BY <1>3, <2>1, <3>1, MomentOf
  <2>3. CASE k = OfProcess
    <3> DEFINE figure == ProcessPercent(one, two)
    <3>1. /\ cpu_count \in Nat /\ cpu_count >= 1 /\ Multiplied(one) /\ Multiplied(two)
          /\ InOrder(one) /\ InOrder(two)
      BY <1>1, <1>2, <2>3 DEF OwnProcess, UseAt, In, UseTypes
    <3>2. one.sys.cpus = cpu_count /\ two.sys.cpus = cpu_count
      BY <1>3, <2>2, <3>1 DEF Multiplied
    <3>3. one.sys.of.at = one.proc.of.at /\ two.sys.of.at = two.proc.of.at
      BY <2>1, <2>3
    <3>4. /\ figure[2] # 0
          /\ LET whole == two.sys.of.at - one.sys.of.at IN
             IF whole = 0 THEN figure[1] = 0
             ELSE Is(figure, two.sys.of.worked - one.sys.of.worked, whole)
      BY <1>2, <1>3, <2>2, <3>1, <3>2, <3>3, ProcessRight
    <3>5. lines = <<[busy |-> figure]>>
      BY <2>3
    <3> HIDE DEF figure, one, two
    <3>6. Divides(lines) /\ lines[1].busy = figure
      <4>1. DOMAIN lines = {1} /\ lines[1] = [busy |-> figure]
        BY <3>5
      <4>2. DOMAIN lines[1] = {"busy"} /\ lines[1].busy = figure /\ lines[1]["busy"] = figure
        BY <4>1
      <4> HIDE DEF lines
      <4> QED BY <3>4, <4>1, <4>2 DEF Divides
    <3>7. r.lines = lines
      BY <3>6
    <3> HIDE DEF r, lines
    <3> QED BY <2>1, <2>3, <3>4, <3>6, <3>7 DEF FigureTrue
  <2>4. CASE k # OfProcess
    <3>1. ASSUME one.sys.of.plugs = two.sys.of.plugs
          PROVE  r.error = "" /\ LinesTrue(k, r.lines, one.sys.of, two.sys.of)
      <4>1. lines = Compared(k, one.sys, two.sys)
        BY <2>1, <2>4
      <4> HIDE DEF lines, k, one, two
      <4>2. Divides(lines) /\ LinesTrue(k, lines, one.sys.of, two.sys.of)
        BY <1>3, <2>2, <3>1, <4>1, ComparedRight
      <4>3. r.error = "" /\ r.lines = lines
        BY <4>2
      <4> QED BY <4>2, <4>3
    <3> HIDE DEF r
    <3> QED BY <2>1, <2>4, <3>1 DEF FigureTrue
  <2> QED BY <2>3, <2>4
<1>5. "from" \in DOMAIN r
  OBVIOUS
<1> HIDE DEF r, one, two, k
<1>7. /\ usePc'[t] = "idle" /\ figures'[t] = r /\ sample1'[t] = NoSamples /\ sample2'[t] = NoSamples
  BY <1>1, <1>2 DEF UseTypes
<1>8. CallStep(t)
  BY <1>1, <1>2 DEF CallStep, UseTypes, UseAt
<1>9. UseTypes'
  <2>1. usePc' \in [UseCallers -> Places]
    BY <1>1, <1>2 DEF UseTypes, Places
  <2>2. sample1' \in [UseCallers -> SamplePairs] /\ sample2' \in [UseCallers -> SamplePairs]
    BY <1>1, <1>2, NoMoment DEF UseTypes
  <2>3. DOMAIN figures' = UseCallers /\ \A u \in UseCallers : "from" \in DOMAIN figures'[u]
    <3>1. DOMAIN figures' = UseCallers
      BY <1>1, <1>2 DEF UseTypes
    <3>2. \A u \in UseCallers \ {t} : "from" \in DOMAIN figures'[u]
      BY <1>2, <1>8 DEF UseTypes, CallStep
    <3> QED BY <1>5, <1>7, <3>1, <3>2
  <2> QED BY <1>1, <1>2, <2>1, <2>2, <2>3 DEF UseTypes
<1>10. SampledBefore'
  <2>1. PastPair(sample1[t])' /\ PastPair(sample2[t])'
    <3>1. Past(NoTimes.of)
      BY <1>2, NowIs
    <3> QED BY <1>7, <1>8, <3>1, CallStays, NoMoment DEF PastPair
  <2>2. \A g \in UseKinds : PastPair(times_before[g])' /\ Past(latest[g])'
    BY <1>1, <1>8, CallStays DEF UseInv, SampledBefore, PastPair
  <2> QED BY <1>8, <2>1, <2>2, CallStays DEF SampledBefore
<1>11. UseAt(t, "storeproc")' = UseAt(t, "storeproc")
  BY <1>1, <1>7 DEF UseAt
<1>12. OwnInv(t)'
  <2>1. UseAt(t, "idle")' /\ ~In(t, {"first", "sample", "proc", "store"})'
        /\ ~In(t, {"proc", "store", "storeproc", "calculate"})'
        /\ ~In(t, {"storeproc", "calculate"})'
    BY <1>7 DEF UseAt, In
  <2>2. OwnSamples(t)' /\ OwnProcess(t)'
    BY <2>1 DEF OwnSamples, OwnProcess
  <2> QED BY <1>4, <1>7, <2>2 DEF OwnInv
<1> QED BY <1>1, <1>8, <1>9, <1>10, <1>11, <1>12, CallStays DEF UseInv

\* CpuPercent.UseTrue: what a call of cpu_percent(), cpu_times_percent() or
\* Process.cpu_percent() returns is the part of the time in which the CPUs were not counted
\* as idle (iowait and steal included), or their use by the process, since the call before
\* or during its interval, whatever other threads call in the meantime.
THEOREM FiguresTrue == UseSpec => []UseTrue
<1>1. ASSUME UseInv PROVE UseTrue
  <2> SUFFICES ASSUME NEW t \in UseCallers, UseAt(t, "idle"), figures[t].exact,
                      figures[t].from # NoTimes.of
               PROVE  LET r == figures[t] IN
                      IF r.kind = OfProcess
                      THEN LET whole == r.until.at - r.from.at IN
                           IF whole = 0 THEN r.lines[1].busy[1] = 0
                           ELSE Is(r.lines[1].busy, r.until.worked - r.from.worked, whole)
                      ELSE r.from.plugs = r.until.plugs =>
                        /\ r.error = ""
                        /\ DOMAIN r.lines = IF r.kind[2] THEN 1..Cardinality(r.until.online) ELSE {1}
                        /\ \A i \in DOMAIN r.lines :
                             LET S == IF r.kind[2] THEN {Order(r.until.online)[i]} ELSE r.until.online IN
                             IF r.kind[1] = "cpu_percent" THEN PercentTrue(r.lines[i], r.from, r.until, S)
                             ELSE TimesTrue(r.lines[i], r.from, r.until, S)
    BY DEF UseTrue
  <2>1. FigureTrue(figures[t])
    BY <1>1 DEF UseInv, OwnInv
  <2> QED BY <2>1 DEF FigureTrue, LinesTrue
<1>2. ASSUME UseInv, [UseNext]_useVars PROVE UseInv'
  <2>1. CASE UseTick \/ PlugCpu
    BY <1>2, <2>1, MachineInv
  <2>2. ASSUME NEW t \in UseCallers,
               \/ \E k \in functions, blocking \in BOOLEAN : UseBegin(t, k, blocking)
               \/ FirstProc(t) \/ Second(t) \/ SecondProc(t) \/ StoreLast(t) \/ StoreProc(t)
               \/ Calculate(t)
        PROVE  UseInv'
    BY <1>2, <2>2, UseBeginInv, FirstProcInv, SecondInv, SecondProcInv, StoreLastInv,
       StoreProcInv, CalculateInv
  <2>3. CASE UNCHANGED useVars
    <3>1. UNCHANGED <<machine, cpu_count, times_before, sample1, sample2, usePc>>
          /\ UNCHANGED <<calling, figures, functions, latest, mixed>>
      BY <2>3 DEF useVars
    <3>2. UseTypes' /\ SampledBefore' /\ KeptLatest' /\ AloneUnlessMixed' /\ KeptProcess'
      BY <1>2, <3>1 DEF UseInv, UseTypes, SampledBefore, PastPair, Past, KeptLatest,
         AloneUnlessMixed, KeptProcess, Multiplied, InOrder, UseAt, Kind
    <3>3. \A t \in UseCallers : OwnInv(t)'
      BY <1>2, <3>1 DEF UseInv, OwnInv, OwnSamples, OwnProcess, Multiplied, InOrder, In, UseAt, Kind
    <3> QED BY <3>2, <3>3 DEF UseInv
  <2> QED BY <1>2, <2>1, <2>2, <2>3 DEF UseNext
<1> QED BY <1>1, <1>2, UseInitInv, PTL DEF UseSpec
=============================================================================
