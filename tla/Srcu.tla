-------------------------------- MODULE Srcu --------------------------------
(***************************************************************************)
(* The SRCU exercise module kernel/rcu/srcu.c: readers walk p_scomm in     *)
(* SRCU read-side critical sections, writers replace it under a spin lock, *)
(* wait for a grace period and free the old object, syncers wait for grace *)
(* periods of their own; module unload stops all of them.                  *)
(*                                                                         *)
(* SRCU itself is the kernel's.  What the module relies on: a call of      *)
(* synchronize_srcu returns only after every critical section that was     *)
(* open when it was called has ended.                                      *)
(***************************************************************************)
EXTENDS Naturals, FiniteSets

CONSTANTS
  Readers, Writers, Syncers,  \* the kernel threads t_r, t_w, t_s
  Nodes,                      \* the memory kzalloc takes objects from
  IntMod                      \* values of an int (2^32 in the code)

Waiters == Writers \cup Syncers
Threads == Readers \cup Waiters

ASSUME SrcuAssumption ==
  /\ Readers \cap Waiters = {} /\ Writers \cap Syncers = {}
  /\ IntMod \in Nat \ {0}
  /\ Nodes # {}

VARIABLES
  pc,          \* where each thread is
  p_scomm,     \* the published object
  allocated,   \* the nodes kzalloc has given out
  fields,      \* a1, a2, a3 of every node
  base,        \* the counter the writers store
  comms_lock,  \* the writers holding the spin lock
  node,        \* a reader's p; a writer's newc, after the publication its oldp
  oldp,        \* a writer's oldp until the publication
  regs,        \* a reader's x, y, z
  inside,      \* the readers in a critical section
  pending,     \* the critical sections each synchronize_srcu waits for
  should_stop, \* the threads kthread_stop was called for
  unload       \* "no", "running", "done": rcu_stop

vars == <<pc, p_scomm, allocated, fields, base, comms_lock, node, oldp, regs, inside,
          pending, should_stop, unload>>

Value == 0..IntMod - 1
Zeros == [i \in 1..3 |-> 0]

Init ==
  /\ pc = [t \in Threads |-> "top"]
  /\ p_scomm \in Nodes /\ allocated = {p_scomm}
  /\ fields = [n \in Nodes |-> Zeros] /\ base = 1 % IntMod
  /\ comms_lock = {}
  /\ node = [t \in Readers \cup Writers |-> p_scomm]  \* not used before they
  /\ oldp = [w \in Writers |-> p_scomm]               \* are set
  /\ regs = [r \in Readers |-> Zeros]
  /\ inside = {} /\ pending = [t \in Waiters |-> {}]
  /\ should_stop = {} /\ unload = "no"

\* kthread_should_stop at the top of every loop, and what follows if not.
Goto(t, from, to) == pc[t] = from /\ pc' = [pc EXCEPT ![t] = to]

Enter(t, to) == t \notin should_stop /\ Goto(t, "top", to)

Leave(t) ==
  /\ t \in should_stop /\ Goto(t, "top", "done")
  /\ UNCHANGED <<p_scomm, allocated, fields, base, comms_lock, node, oldp, regs,
                 inside, pending, should_stop, unload>>

-----------------------------------------------------------------------------
\* rcu_reader
ReadLock(r) ==
  /\ Enter(r, "deref") /\ inside' = inside \cup {r}
  /\ UNCHANGED <<p_scomm, allocated, fields, base, comms_lock, node, oldp, regs,
                 pending, should_stop, unload>>

Dereference(r) ==
  /\ Goto(r, "deref", "x") /\ node' = [node EXCEPT ![r] = p_scomm]
  /\ UNCHANGED <<p_scomm, allocated, fields, base, comms_lock, oldp, regs, inside,
                 pending, should_stop, unload>>

\* x = p->a1, then y = p->a2; the reader may sleep before z = p->a3.
ReadField(r) ==
  /\ \E i \in 1..3 :
       /\ Goto(r, <<"x", "y", "z">>[i], <<"y", "z", "check">>[i])
       /\ regs' = [regs EXCEPT ![r][i] = fields[node[r]][i]]
  /\ UNCHANGED <<p_scomm, allocated, fields, base, comms_lock, node, oldp, inside,
                 pending, should_stop, unload>>

\* Mutant of ReadUnlock: a way out of the loop body without the unlock.
ForgetUnlock(r) ==
  /\ Goto(r, "check", "top")
  /\ UNCHANGED <<p_scomm, allocated, fields, base, comms_lock, node, oldp, regs,
                 inside, pending, should_stop, unload>>

\* After the comparison of x, y and z; srcu_read_unlock ends the critical
\* section for everyone waiting for it.
ReadUnlock(r) ==
  /\ Goto(r, "check", "top")
  /\ inside' = inside \ {r}
  /\ pending' = [t \in Waiters |-> pending[t] \ {r}]
  /\ UNCHANGED <<p_scomm, allocated, fields, base, comms_lock, node, oldp, regs,
                 should_stop, unload>>

-----------------------------------------------------------------------------
\* rcu_writer
Allocate(w) ==
  /\ Enter(w, "lock")
  /\ \E n \in Nodes \ allocated :
       /\ allocated' = allocated \cup {n}
       /\ node' = [node EXCEPT ![w] = n]
       /\ fields' = [fields EXCEPT ![n] = Zeros]
  /\ UNCHANGED <<p_scomm, base, comms_lock, oldp, regs, inside, pending,
                 should_stop, unload>>

\* Mutant of SpinLock: the writers do not exclude each other.
NoLock(w) ==
  /\ comms_lock' = comms_lock \cup {w}
  /\ Goto(w, "lock", "fill")
  /\ UNCHANGED <<p_scomm, allocated, fields, base, node, oldp, regs, inside,
                 pending, should_stop, unload>>

SpinLock(w) ==
  /\ comms_lock = {} /\ comms_lock' = {w}
  /\ Goto(w, "lock", "fill")
  /\ UNCHANGED <<p_scomm, allocated, fields, base, node, oldp, regs, inside, pending,
                 should_stop, unload>>

\* The three stores and ++base, to an object no other thread can see yet.
Fill(w) ==
  /\ Goto(w, "fill", "swap")
  /\ base' = (base + 1) % IntMod
  /\ fields' = [fields EXCEPT ![node[w]] = [i \in 1..3 |-> base']]
  /\ UNCHANGED <<p_scomm, allocated, comms_lock, node, oldp, regs, inside,
                 pending, should_stop, unload>>

\* oldp = p_scomm
TakeOld(w) ==
  /\ Goto(w, "swap", "publish")
  /\ oldp' = [oldp EXCEPT ![w] = p_scomm]
  /\ UNCHANGED <<p_scomm, allocated, fields, base, comms_lock, node, regs,
                 inside, pending, should_stop, unload>>

\* Mutant of Publish: synchronize_srcu is forgotten.
PublishNoSync(w) ==
  /\ Goto(w, "publish", "free")
  /\ p_scomm' = node[w]
  /\ node' = [node EXCEPT ![w] = oldp[w]]
  /\ comms_lock' = comms_lock \ {w}
  /\ UNCHANGED <<allocated, fields, base, oldp, regs, inside, pending,
                 should_stop, unload>>

\* rcu_assign_pointer and the unlock.
Publish(w) ==
  /\ Goto(w, "publish", "sync")
  /\ p_scomm' = node[w]
  /\ node' = [node EXCEPT ![w] = oldp[w]]
  /\ comms_lock' = comms_lock \ {w}
  /\ UNCHANGED <<allocated, fields, base, oldp, regs, inside, pending,
                 should_stop, unload>>

Free(w) ==
  /\ Goto(w, "free", "top")
  /\ allocated' = allocated \ {node[w]}
  /\ UNCHANGED <<p_scomm, fields, base, comms_lock, node, oldp, regs, inside, pending,
                 should_stop, unload>>

-----------------------------------------------------------------------------
\* synchronize_srcu, called by a writer with an object to free and by rcu_sync.
SyncStart(t) ==
  /\ \/ t \in Writers /\ Goto(t, "sync", "wait")
     \/ t \in Syncers /\ Enter(t, "wait")
  /\ pending' = [pending EXCEPT ![t] = inside]
  /\ UNCHANGED <<p_scomm, allocated, fields, base, comms_lock, node, oldp, regs,
                 inside, should_stop, unload>>

SyncEnd(t) ==
  /\ pending[t] = {}
  /\ Goto(t, "wait", IF t \in Writers THEN "free" ELSE "top")
  /\ UNCHANGED <<p_scomm, allocated, fields, base, comms_lock, node, oldp, regs,
                 inside, pending, should_stop, unload>>

-----------------------------------------------------------------------------
\* rcu_stop: kthread_stop for the syncers, the readers, the writers; each call
\* waits for its thread.
Stopped(S) == \A t \in S : t \in should_stop /\ pc[t] = "done"

Unload ==
  /\ unload = "no" /\ unload' = "running"
  /\ UNCHANGED <<pc, p_scomm, allocated, fields, base, comms_lock, node, oldp, regs,
                 inside, pending, should_stop>>

KthreadStop(t) ==
  /\ unload = "running" /\ t \notin should_stop /\ Stopped(should_stop)
  /\ t \in Readers => Stopped(Syncers)
  /\ t \in Writers => Stopped(Syncers \cup Readers)
  /\ should_stop' = should_stop \cup {t}
  /\ UNCHANGED <<pc, p_scomm, allocated, fields, base, comms_lock, node, oldp, regs,
                 inside, pending, unload>>

Unloaded ==
  /\ unload = "running" /\ Stopped(Threads) /\ unload' = "done"
  /\ UNCHANGED <<pc, p_scomm, allocated, fields, base, comms_lock, node, oldp, regs,
                 inside, pending, should_stop>>

-----------------------------------------------------------------------------
Reader(r) == ReadLock(r) \/ Dereference(r) \/ ReadField(r) \/ ReadUnlock(r)
             \/ Leave(r)
Writer(w) == Allocate(w) \/ SpinLock(w) \/ Fill(w) \/ TakeOld(w) \/ Publish(w)
             \/ SyncStart(w) \/ SyncEnd(w) \/ Free(w) \/ Leave(w)
Syncer(s) == SyncStart(s) \/ SyncEnd(s) \/ Leave(s)
Stop == Unloaded \/ \E t \in Threads : KthreadStop(t)

Next ==
  \/ \E r \in Readers : Reader(r)
  \/ \E w \in Writers : Writer(w)
  \/ \E s \in Syncers : Syncer(s)
  \/ Unload \/ Stop

Spec == Init /\ [][Next]_vars

\* The kernel runs every thread and the unloading process, and its spin locks
\* are queued: no writer is passed over for ever.  Nobody has to unload.
FairSpec ==
  /\ Spec /\ WF_vars(Stop)
  /\ \A r \in Readers : WF_vars(Reader(r))
  /\ \A w \in Writers : WF_vars(Writer(w)) /\ SF_vars(SpinLock(w))
  /\ \A s \in Syncers : WF_vars(Syncer(s))

-----------------------------------------------------------------------------
\* The types of the variables.
TypeOK ==
  /\ pc \in [Threads -> {"top", "deref", "x", "y", "z", "check", "lock", "fill",
                         "swap", "publish", "sync", "wait", "free", "done"}]
  /\ p_scomm \in Nodes /\ allocated \subseteq Nodes
  /\ fields \in [Nodes -> [1..3 -> Value]] /\ base \in Value
  /\ comms_lock \subseteq Writers
  /\ node \in [Readers \cup Writers -> Nodes] /\ oldp \in [Writers -> Nodes]
  /\ regs \in [Readers -> [1..3 -> Value]]
  /\ inside \subseteq Readers
  /\ pending \in [Waiters -> SUBSET Readers]
  /\ should_stop \subseteq Threads /\ unload \in {"no", "running", "done"}

Reading(r) == pc[r] \in {"x", "y", "z", "check"}
Preparing(w) == pc[w] \in {"lock", "fill", "swap", "publish"}
Retiring(w) == pc[w] \in {"sync", "wait", "free"}
Holding(w) == Preparing(w) \/ Retiring(w)

\* A reader never holds a pointer to memory that is back with the allocator,
\* although it sleeps between its loads while writers free what they replaced.
NoUseAfterFree == \A r \in Readers : Reading(r) => node[r] \in allocated

\* The branch that logs "ERR rcu read" (srcu.c:49) is never taken: no reader
\* sees the fields of two updates, of an unfinished or of a reused object.
NoTornRead ==
  \A r \in Readers : pc[r] = "check" =>
    regs[r][1] = regs[r][2] /\ regs[r][2] = regs[r][3]

\* Every object is published or in the hands of exactly one writer: none leaks
\* while the module runs, none is freed twice or freed while published.
SoleOwner ==
  /\ p_scomm \in allocated
  /\ \A n \in allocated \ {p_scomm} : \E w \in Writers : Holding(w) /\ node[w] = n
  /\ \A w \in Writers : Holding(w) =>
       /\ node[w] \in allocated /\ node[w] # p_scomm
       /\ \A v \in Writers \ {w} : Holding(v) => node[v] # node[w]

\* Why no reader is left with a freed object: what it reads is published, or
\* its writer has not begun to wait or is waiting for this very reader.
Protected ==
  \A r \in Readers : Reading(r) =>
    /\ r \in inside
    /\ \/ node[r] = p_scomm
       \/ \E w \in Writers :
            /\ node[w] = node[r]
            /\ pc[w] = "sync" \/ (pc[w] = "wait" /\ r \in pending[w])

InsideOK == \A r \in Readers : r \in inside <=> pc[r] = "deref" \/ Reading(r)

\* Why nothing is freed twice: two writers never take the same oldp.
Locked ==
  /\ \A w \in Writers : w \in comms_lock <=> pc[w] \in {"fill", "swap", "publish"}
  /\ \A v, w \in comms_lock : v = w
  /\ \A w \in Writers : pc[w] = "publish" => oldp[w] = p_scomm

\* Why no read is torn: an object others can see is whole and stays as it is.
Uniform(n) == fields[n][1] = fields[n][2] /\ fields[n][2] = fields[n][3]

Loaded(r, i) ==
  \/ pc[r] = "y" /\ i = 1
  \/ pc[r] = "z" /\ i < 3
  \/ pc[r] = "check"

WholeObjects ==
  /\ Uniform(p_scomm)
  /\ \A w \in Writers : Retiring(w) \/ pc[w] \in {"swap", "publish"} => Uniform(node[w])
  /\ \A r \in Readers, i \in 1..3 :
       Loaded(r, i) => regs[r][i] = fields[node[r]][i]

IInv ==
  TypeOK /\ SoleOwner /\ Protected /\ InsideOK /\ Locked /\ WholeObjects

\* What a writer replaced is freed in the end, however the readers sleep.
ReplacedIsFreed ==
  \A w \in Writers : Retiring(w) ~> ~Retiring(w)

\* rcu_stop comes to an end: no kthread_stop waits for ever for a thread that
\* is itself waiting for a lock, a grace period or a reader.
UnloadEnds == unload = "running" ~> unload = "done"
=============================================================================
