------------------------------- MODULE Vring -------------------------------
(***************************************************************************)
(* bccvring_up.py: probes at the entries of virtqueue_add_outbuf,           *)
(* virtqueue_kick and virtqueue_add_inbuf_ctx gather, over all queues of    *)
(* the host, how far the 16 bit ring indexes are apart (histograms) and the *)
(* extreme values (maps with the one key 0).  The driver holds the queue's  *)
(* lock while a probe runs, so the handlers of one queue exclude each       *)
(* other; those of two queues run on two CPUs, and the device moves the     *)
(* used index at any time.                                                  *)
(***************************************************************************)
EXTENDS Integers

CONSTANTS
  Queues,           \* the virtqueues of the host
  Size,             \* descriptors of a queue
  W,                \* 65536: the ring indexes are counted modulo W
  MaxCalls          \* bound: calls of probed functions

Stats == {"minfreesq", "putmax", "kickcount", "distmax", "minfreerq"}
NoValue == -W   \* NULL, and no difference of two indexes

ASSUME VringAssumption ==
  /\ Size \in Nat \ {0} /\ W \in Nat /\ W > Size /\ MaxCalls \in Nat

VARIABLES
  dir,      \* dir[q]: whether q sends or receives
  ring,     \* ring[q]: buffers made available, used by the device, taken back (seen)
  handler,  \* handler[q]: the probe's handler at work for q and its next step
  calls,    \* probed calls so far
  stat,     \* stat[s]: the value under key 0 of map s
  counted,  \* the distance the last step counted in a histogram
  truth,    \* history: what each statistic should be after the calls it covered
  raced     \* history: statistics for which two handlers overlapped

vringVars == <<dir, ring, handler, calls, stat, counted, truth, raced>>

Idle == [step |-> "idle", stat |-> "none", val |-> 0, got |-> NoValue]

\* Mutant: an index that wrapped is taken for one that is behind.
NoWrap(a, b) == (a % W) - (b % W)

\* a - b of two indexes as the probes compute it.
Distance(a, b) ==
  LET more == (a % W) - (b % W) IN IF more < 0 THEN (a % W) + (W - (b % W)) ELSE more

\* What a statistic is after one call more.
Extreme(s, val, old) ==
  IF old = NoValue THEN val
  ELSE IF s = "kickcount" THEN old + 1
  ELSE LET both == {val, old} IN
       CHOOSE v \in both : \A w \in both : IF s \in {"putmax", "distmax"} THEN w <= v ELSE v <= w

NumFree(q) == Size - (ring[q].avail - ring[q].seen)

Begins(q) == handler[q] = Idle /\ calls < MaxCalls /\ calls' = calls + 1

Turn(q, step, s, val, got) ==
  handler' = [handler EXCEPT ![q] = [step |-> step, stat |-> s, val |-> val, got |-> got]]


----------------------------------------------------------------------------
VringInit ==
  /\ dir \in [Queues -> {"send", "recv"}]
  /\ ring \in [Queues -> {r \in [avail : 0 .. W + Size, used : 0 .. W + Size, seen : 0 .. W - 1] :
                           r.seen <= r.used /\ r.used <= r.avail /\ r.avail <= r.seen + Size}]
  /\ calls = 0
  /\ handler = [q \in Queues |-> Idle]
  /\ stat = [s \in Stats |-> NoValue]
  /\ counted = NoValue
  /\ truth = [s \in Stats |-> NoValue]
  /\ raced = {}

\* The driver and the device (outside the tool): the device uses a buffer, the
\* driver takes a used buffer back, under the queue's lock.
Use(q) ==
  /\ ring[q].used < ring[q].avail
  /\ ring' = [ring EXCEPT ![q].used = @ + 1]
  /\ counted' = NoValue
  /\ UNCHANGED <<handler, calls, stat, truth, raced>>

GetBuf(q) ==
  /\ handler[q] = Idle /\ ring[q].seen < ring[q].used
  /\ ring' = [ring EXCEPT ![q].seen = @ + 1]
  /\ counted' = NoValue
  /\ UNCHANGED <<handler, calls, stat, truth, raced>>

AddOutbuf(q) ==
  /\ dir[q] = "send" /\ Begins(q)
  /\ counted' = Distance(ring[q].used, ring[q].seen)    \* distsd
  /\ Turn(q, "lookup", "minfreesq", NumFree(q), NoValue)
  /\ UNCHANGED <<ring, stat, truth, raced>>

Kick(q) ==
  /\ Begins(q)
  /\ counted' = NoValue
  /\ Turn(q, "lookup", "kickcount", 1, NoValue)
  /\ UNCHANGED <<ring, stat, truth, raced>>

AddInbufCtx(q) ==
  /\ dir[q] = "recv" /\ Begins(q)
  /\ counted' = Distance(ring[q].used, ring[q].seen)    \* distrc
  /\ Turn(q, "lookup", "distmax", counted', NoValue)
  /\ UNCHANGED <<ring, stat, truth, raced>>

\* map.lookup(&key): the value, or NULL.
Lookup(q) ==
  LET s == handler[q].stat IN
  /\ handler[q].step = "lookup"
  /\ Turn(q, "update", s, handler[q].val, stat[s])
  /\ raced' = raced \union
       {x \in {s} : \E p \in Queues \ {q} : handler[p].step = "update" /\ handler[p].stat = s}
  /\ counted' = NoValue
  /\ UNCHANGED <<ring, calls, stat, truth>>

\* Mutant: the comparison is the wrong way round.
MergedReversed(s, val, got) ==
  IF got = NoValue THEN val
  ELSE IF s = "kickcount" THEN got + 1
  ELSE IF (s \in {"putmax", "distmax"}) = (got > val) THEN val ELSE got

\* What the handler leaves in the map when it looked up got: the first value, a
\* better extreme, one kick more.
Merged(s, val, got) ==
  IF got = NoValue THEN val
  ELSE CASE s = "kickcount" -> got + 1
         [] s \in {"putmax", "distmax"} -> IF got < val THEN val ELSE got
         [] s \in {"minfreesq", "minfreerq"} -> IF got > val THEN val ELSE got

\* update() is called only if there is something to change.
Store(q) ==
  LET s == handler[q].stat  val == handler[q].val  got == handler[q].got IN
  /\ handler[q].step = "update"
  /\ stat' = IF Merged(s, val, got) # got THEN [stat EXCEPT ![s] = Merged(s, val, got)] ELSE stat
  /\ truth' = [truth EXCEPT ![s] = Extreme(s, val, @)]
  /\ UNCHANGED <<calls, raced>>

\* The handler is over; the driver then adds the buffer if there is a descriptor.
Return(q) ==
  /\ handler' = [handler EXCEPT ![q] = Idle]
  /\ ring' = IF handler[q].stat # "kickcount" /\ NumFree(q) > 0
             THEN [ring EXCEPT ![q].avail = @ + 1] ELSE ring
  /\ counted' = NoValue

\* A handler that stored the first value returns and leaves out its second statistic.
UpdateFirst(q) == Store(q) /\ handler[q].got = NoValue /\ Return(q)

UpdateLast(q) ==
  /\ Store(q) /\ handler[q].got # NoValue
  /\ handler[q].stat \in {"putmax", "kickcount", "minfreerq"} /\ Return(q)

\* The second half of add_outbuf reads the used index again.
UpdateMinFree(q) ==
  /\ Store(q) /\ handler[q].got # NoValue /\ handler[q].stat = "minfreesq"
  /\ counted' = Distance(ring[q].avail, ring[q].used)   \* moreputsq
  /\ Turn(q, "lookup", "putmax", counted', NoValue)
  /\ UNCHANGED ring

UpdateDistMax(q) ==
  /\ Store(q) /\ handler[q].got # NoValue /\ handler[q].stat = "distmax"
  /\ Turn(q, "lookup", "minfreerq", NumFree(q), NoValue)
  /\ counted' = NoValue
  /\ UNCHANGED ring

Update(q) == UpdateFirst(q) \/ UpdateLast(q) \/ UpdateMinFree(q) \/ UpdateDistMax(q)

VringNext == \E q \in Queues :
  /\ Use(q) \/ GetBuf(q) \/ AddOutbuf(q) \/ Kick(q) \/ AddInbufCtx(q) \/ Lookup(q) \/ Update(q)
  /\ UNCHANGED dir

VringSpec == VringInit /\ [][VringNext]_vringVars

----------------------------------------------------------------------------
\* Every distance a histogram counts is one a queue can have, from no buffer to all
\* of them, also when an index has wrapped around between the two that are compared.
DistancesTrue == counted \in 0 .. Size \union {NoValue}

\* The extremes and the number of kicks that the tool prints are those of all the
\* calls it covered, unless two handlers overlapped between their lookup and their
\* update of that very map: the tool's one key for all queues makes no other error.
ExactUnlessRaced == \A s \in Stats \ raced : stat[s] = truth[s]
=============================================================================
