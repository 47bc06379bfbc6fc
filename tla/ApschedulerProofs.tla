------------------------- MODULE ApschedulerProofs --------------------------
(***************************************************************************)
(* Proofs about the vendored APScheduler.                                   *)
(*                                                                         *)
(* ThreadPool, for any number of callers, of calls of shutdown, of tasks    *)
(* and any limits: the pool keeps to its limits, and when shutdown(wait =   *)
(* True) has returned no task runs.                                         *)
(*                                                                         *)
(* JobStores, for any jobs, options, kinds of store, deaths of the process  *)
(* and refusals: what is stored of a job is what another process has to go  *)
(* on with.  It always tells the run times submitted from those that are    *)
(* not, up to the submissions that were cut off from their update; between  *)
(* a submission and its update it is one submission behind, and what the    *)
(* process has in memory is right already.                                  *)
(*                                                                         *)
(* Cron, for any calendar, expressions and start dates: the trigger fires   *)
(* at the first date that matches.  The search has never stepped over one:  *)
(* no date before the one it is at matches, which a step keeps because what *)
(* it skips has a field that an expression rules out.                       *)
(***************************************************************************)
EXTENDS ThreadPool, JobStores, Cron, Sums, SequenceTheorems

-----------------------------------------------------------------------------
(* ThreadPool.                                                              *)

\* A set of threads is finite and as large as a number.
LEMMA FiniteThreads ==
  ASSUME NEW T \in SUBSET Tasks
  PROVE  IsFiniteSet(T) /\ Cardinality(T) \in Nat
<1>1. IsFiniteSet(Tasks)
  BY ThreadPoolAssumption, FS_Interval DEF Tasks
<1> QED BY <1>1, FS_Subset, FS_CardinalityType

-----------------------------------------------------------------------------
(* The types of the variables.                                              *)

LEMMA TypeInit == Init => TypeOK
<1> SUFFICES ASSUME Init PROVE TypeOK
  OBVIOUS
<1>1. queue \in Seq(0..MaxTasks)
  BY DEF Init
<1>2. submitted \in 0..MaxTasks /\ faults \in 0..MaxFaults
  BY ThreadPoolAssumption DEF Init
<1>3. hand \in [Tasks -> 0..MaxTasks]
  BY ThreadPoolAssumption DEF Init, None
<1>4. /\ worker \in [Tasks -> {"new", "get", "check", "run", "leave", "gone"}]
      /\ joining \in [Stoppers -> SUBSET Tasks]
  BY DEF Init
<1> QED BY <1>1, <1>2, <1>3, <1>4 DEF Init, TypeOK

LEMMA TypeNext ==
  ASSUME TypeOK, NoneMeansDown, [Next]_vars
  PROVE  TypeOK'
<1> USE ThreadPoolAssumption
<1>1. ASSUME NEW c \in Callers, SubmitCheck(c) PROVE TypeOK'
  BY <1>1 DEF TypeOK, SubmitCheck
<1>2. ASSUME NEW c \in Callers, Put(c) PROVE TypeOK'
  <2>1. submitted' \in 0..MaxTasks
    BY <1>2 DEF TypeOK, Put
  <2>2. queue' \in Seq(0..MaxTasks)
    BY <1>2, <2>1, AppendProperties DEF TypeOK, Put
  <2> QED BY <1>2, <2>1, <2>2 DEF TypeOK, Put
<1>3. ASSUME NEW c \in Callers, AdjustThreadcount(c) PROVE TypeOK'
  <2>1. CASE UNCHANGED <<threads, core, worker, late, faults>>
    BY <1>3, <2>1 DEF TypeOK, AdjustThreadcount
  <2>2. CASE \E w \in Tasks : AddThread(w)
    BY <1>3, <2>2 DEF TypeOK, AdjustThreadcount, AddThread
  <2>3. CASE faults < MaxFaults /\ faults' = faults + 1
             /\ UNCHANGED <<threads, core, worker, late>>
    BY <1>3, <2>3 DEF TypeOK, AdjustThreadcount
  <2> QED BY <1>3, <2>1, <2>2, <2>3 DEF AdjustThreadcount
<1>4. ASSUME NEW w \in Tasks, Get(w) PROVE TypeOK'
  <2>1. Head(queue) \in 0..MaxTasks /\ Tail(queue) \in Seq(0..MaxTasks)
    BY <1>4, HeadTailProperties DEF TypeOK, Get
  <2> QED BY <1>4, <2>1 DEF TypeOK, Get
<1>5. ASSUME NEW w \in Tasks, GiveUp(w) PROVE TypeOK'
  BY <1>5 DEF TypeOK, GiveUp
<1>6. ASSUME NEW w \in Tasks, Check(w) PROVE TypeOK'
  <2>1. dropped' \subseteq Tasks
    <3>1. CASE down /\ hand[w] # None
      <4>1. hand[w] \in Tasks
        BY <3>1 DEF TypeOK, None, Tasks
      <4> QED BY <1>6, <3>1, <4>1 DEF TypeOK, Check
    <3>2. CASE ~(down /\ hand[w] # None)
      BY <1>6, <3>2 DEF TypeOK, Check
    <3> QED BY <3>1, <3>2
  <2>2. worker' \in [Tasks -> {"new", "get", "check", "run", "leave", "gone"}]
    BY <1>6 DEF TypeOK, Check
  <2>3. hand' \in [Tasks -> 0..MaxTasks]
    BY <1>6 DEF TypeOK, Check, None
  <2> QED BY <1>6, <2>1, <2>2, <2>3 DEF TypeOK, Check
<1>7. ASSUME NEW w \in Tasks, RunTask(w) PROVE TypeOK'
  <2>1. hand[w] \in Tasks
    BY <1>7 DEF TypeOK, RunTask, NoneMeansDown, None, Tasks
  <2>2. finished' \subseteq Tasks
    BY <1>7, <2>1 DEF TypeOK, RunTask
  <2>3. hand' \in [Tasks -> 0..MaxTasks]
    BY <1>7 DEF TypeOK, RunTask, None
  <2> QED BY <1>7, <2>2, <2>3 DEF TypeOK, RunTask
<1>8. ASSUME NEW w \in Tasks, Leave(w) PROVE TypeOK'
  BY <1>8 DEF TypeOK, Leave
<1>9. ASSUME NEW s \in Stoppers, StopCheck(s) PROVE TypeOK'
  BY <1>9 DEF TypeOK, StopCheck
<1>10. ASSUME NEW s \in Stoppers, StopSet(s) PROVE TypeOK'
  BY <1>10 DEF TypeOK, StopSet
<1>11. ASSUME NEW s \in Stoppers, StopPoison(s) PROVE TypeOK'
  <2>1. Cardinality(threads) \in Nat
    BY FiniteThreads DEF TypeOK
  <2>2. [i \in 1..Cardinality(threads) |-> None] \in Seq(0..MaxTasks)
    BY <2>1, IsASeq DEF None
  <2>3. queue' \in Seq(0..MaxTasks)
    BY <1>11, <2>2, ConcatProperties DEF TypeOK, StopPoison
  <2> QED BY <1>11, <2>3 DEF TypeOK, StopPoison
<1>12. ASSUME NEW s \in Stoppers, StopSnapshot(s) PROVE TypeOK'
  BY <1>12 DEF TypeOK, StopSnapshot
<1>13. ASSUME NEW s \in Stoppers, StopJoin(s) PROVE TypeOK'
  BY <1>13 DEF TypeOK, StopJoin
<1>14. CASE UNCHANGED vars
  BY <1>14 DEF TypeOK, vars
<1> QED
  BY <1>1, <1>2, <1>3, <1>4, <1>5, <1>6, <1>7, <1>8, <1>9, <1>10, <1>11, <1>12,
     <1>13, <1>14 DEF Next, Submit, Work, Shutdown

-----------------------------------------------------------------------------
(* The pool's limits.                                                       *)

LEMMA LimitsNext ==
  ASSUME TypeOK, WithinLimits, [Next]_vars
  PROVE  WithinLimits'
<1> USE ThreadPoolAssumption
<1>0. IsFiniteSet(threads) /\ IsFiniteSet(core \cap threads)
      /\ Cardinality(threads) \in Nat /\ Cardinality(core \cap threads) \in Nat
  BY FiniteThreads DEF TypeOK
<1>1. CASE UNCHANGED <<threads, core, worker>>
  BY <1>1 DEF WithinLimits
\* Steps that keep a thread alive.
<1>2. ASSUME NEW w \in Tasks, Get(w) \/ GiveUp(w) \/ Check(w) \/ RunTask(w)
      PROVE  WithinLimits'
  BY <1>2 DEF WithinLimits, TypeOK, Get, GiveUp, Check, RunTask
<1>3. ASSUME NEW w \in Tasks, AddThread(w), Cardinality(threads) < max_threads
      PROVE  WithinLimits'
  <2>1. w \notin threads /\ w \notin core /\ threads' = threads \cup {w}
    BY <1>3 DEF WithinLimits, AddThread
  <2>2. threads' = {v \in Tasks : worker'[v] \notin {"new", "gone"}}
    BY <1>3, <2>1 DEF WithinLimits, AddThread, TypeOK
  <2>3. Cardinality(threads') = Cardinality(threads) + 1
    BY <1>0, <2>1, FS_AddElement
  <2>4. Cardinality((core \cap threads)') <= core_threads
    <3>1. CASE Cardinality(threads) < core_threads
      <4>1. (core \cap threads)' \subseteq threads'
        OBVIOUS
      <4>2. IsFiniteSet(threads')
        BY <1>0, <2>1, FS_AddElement
      <4>3. Cardinality((core \cap threads)') <= Cardinality(threads')
        BY <4>1, <4>2, FS_Subset
      <4>4. Cardinality((core \cap threads)') \in Nat
        BY <4>1, <4>2, FS_Subset, FS_CardinalityType
      <4> QED BY <1>0, <2>3, <3>1, <4>3, <4>4
    <3>2. CASE ~(Cardinality(threads) < core_threads)
      <4>1. core' = core
        BY <1>3, <3>2 DEF AddThread
      <4>2. (core \cap threads)' = core \cap threads
        BY <2>1, <4>1
      <4> QED BY <4>2 DEF WithinLimits
    <3> QED BY <3>1, <3>2
  <2>5. \A v \in core' : worker'[v] # "new"
    BY <1>3 DEF WithinLimits, AddThread, TypeOK
  <2> QED BY <1>0, <1>3, <2>2, <2>3, <2>4, <2>5 DEF WithinLimits
<1>4. ASSUME NEW w \in Tasks, Leave(w) PROVE WithinLimits'
  <2>1. threads' = {v \in Tasks : worker'[v] \notin {"new", "gone"}}
    BY <1>4 DEF WithinLimits, Leave, TypeOK
  <2>2. Cardinality(threads') <= Cardinality(threads)
    BY <1>0, <1>4, FS_Subset DEF Leave
  <2>3. Cardinality((core \cap threads)') <= Cardinality(core \cap threads)
    <3>1. (core \cap threads)' \subseteq core \cap threads
      BY <1>4 DEF Leave
    <3> QED BY <1>0, <3>1, FS_Subset
  <2>4. Cardinality(threads') \in Nat /\ Cardinality((core \cap threads)') \in Nat
    <3>1. threads' \in SUBSET Tasks /\ (core \cap threads)' \in SUBSET Tasks
      BY <1>4 DEF TypeOK, Leave
    <3> QED BY <3>1, FiniteThreads
  <2>5. \A v \in core' : worker'[v] # "new"
    BY <1>4 DEF WithinLimits, Leave, TypeOK
  <2> QED BY <1>0, <2>1, <2>2, <2>3, <2>4, <2>5 DEF WithinLimits
<1>5. ASSUME NEW c \in Callers, AdjustThreadcount(c) PROVE WithinLimits'
  BY <1>1, <1>3, <1>5 DEF AdjustThreadcount
<1> QED
  BY <1>1, <1>2, <1>4, <1>5 DEF Next, Submit, Work, Shutdown, vars, SubmitCheck,
     Put, StopCheck, StopSet, StopPoison, StopSnapshot, StopJoin

-----------------------------------------------------------------------------
(* The Nones.                                                               *)

LEMMA NonesNext ==
  ASSUME TypeOK, NoneMeansDown, StopOrder, [Next]_vars
  PROVE  NoneMeansDown'
<1> USE ThreadPoolAssumption
<1>1. CASE UNCHANGED <<queue, worker, hand, down>>
  BY <1>1 DEF NoneMeansDown
<1>2. ASSUME NEW c \in Callers, Put(c) PROVE NoneMeansDown'
  <2>1. ASSUME NEW i \in DOMAIN queue', queue'[i] = None PROVE down'
    <3>1. submitted' # None
      BY <1>2 DEF TypeOK, Put, None
    <3>2. i \in DOMAIN queue /\ queue[i] = None
      BY <1>2, <2>1, <3>1, AppendProperties, LenProperties DEF TypeOK, Put
    <3> QED BY <1>2, <3>2 DEF NoneMeansDown, Put
  <2> QED BY <1>2, <2>1 DEF NoneMeansDown, Put
<1>3. ASSUME NEW w \in Tasks, AddThread(w), UNCHANGED <<queue, hand, down>>
      PROVE  NoneMeansDown'
  BY <1>3 DEF NoneMeansDown, AddThread, TypeOK
<1>4. ASSUME NEW w \in Tasks, Get(w) PROVE NoneMeansDown'
  <2>1. \A i \in DOMAIN queue' : queue'[i] = None => down'
    <3>1. \A i \in DOMAIN Tail(queue) : i + 1 \in DOMAIN queue
                                        /\ Tail(queue)[i] = queue[i + 1]
      BY <1>4, HeadTailProperties, LenProperties DEF Get, TypeOK
    <3> QED BY <1>4, <3>1 DEF NoneMeansDown, Get
  <2>2. Head(queue) = None => down
    <3>1. 1 \in DOMAIN queue /\ Head(queue) = queue[1]
      BY <1>4, HeadTailProperties, LenProperties, EmptySeq DEF Get, TypeOK
    <3> QED BY <3>1 DEF NoneMeansDown
  <2>3. \A v \in Tasks : worker'[v] = "check" /\ hand'[v] = None => down'
    BY <1>4, <2>2 DEF NoneMeansDown, Get, TypeOK
  <2>4. \A v \in Tasks : worker'[v] = "run" => hand'[v] # None
    BY <1>4 DEF NoneMeansDown, Get, TypeOK
  <2> QED BY <2>1, <2>3, <2>4 DEF NoneMeansDown
<1>5. ASSUME NEW w \in Tasks, GiveUp(w) \/ Leave(w) PROVE NoneMeansDown'
  BY <1>5 DEF NoneMeansDown, GiveUp, Leave, TypeOK
<1>6. ASSUME NEW w \in Tasks, Check(w) PROVE NoneMeansDown'
  BY <1>6 DEF NoneMeansDown, Check, TypeOK
<1>7. ASSUME NEW w \in Tasks, RunTask(w) PROVE NoneMeansDown'
  BY <1>7 DEF NoneMeansDown, RunTask, TypeOK
<1>8. ASSUME down' = TRUE, UNCHANGED <<worker, hand>> PROVE NoneMeansDown'
  BY <1>8 DEF NoneMeansDown
<1>9. ASSUME NEW c \in Callers, AdjustThreadcount(c) PROVE NoneMeansDown'
  BY <1>1, <1>3, <1>9 DEF AdjustThreadcount
<1>10. ASSUME NEW s \in Stoppers, StopSet(s) PROVE NoneMeansDown'
  BY <1>8, <1>10 DEF StopSet
<1>11. ASSUME NEW s \in Stoppers, StopPoison(s) PROVE NoneMeansDown'
  BY <1>8, <1>11 DEF StopPoison, StopOrder, TypeOK
<1> QED
  BY <1>1, <1>2, <1>4, <1>5, <1>6, <1>7, <1>9, <1>10, <1>11 DEF Next, Submit,
     Work, Shutdown, vars, SubmitCheck, StopCheck, StopSnapshot, StopJoin

-----------------------------------------------------------------------------
(* The end of a shutdown.                                                   *)

\* A step that begins no task and leaves the stoppers alone.
LEMMA NoNewRun ==
  ASSUME TypeOK, StopOrder, QuietAfterShutdown,
         UNCHANGED <<stopper, joining>>, down => down',
         down => \A w \in Tasks : worker'[w] = "run" => worker[w] = "run"
  PROVE  StopOrder' /\ QuietAfterShutdown'
<1>1. StopOrder'
  BY DEF StopOrder
<1>2. QuietAfterShutdown'
  BY DEF StopOrder, QuietAfterShutdown
<1> QED BY <1>1, <1>2

LEMMA StopNext ==
  ASSUME TypeOK, WithinLimits, StopOrder, QuietAfterShutdown, [Next]_vars
  PROVE  StopOrder' /\ QuietAfterShutdown'
<1> DEFINE Good == StopOrder' /\ QuietAfterShutdown'
<1>1. CASE UNCHANGED <<stopper, joining, down, worker>>
  BY <1>1, NoNewRun
<1>2. ASSUME NEW w \in Tasks, AddThread(w), UNCHANGED <<stopper, joining, down>>
      PROVE  Good
  <2>1. \A v \in Tasks : worker'[v] = "run" => worker[v] = "run"
    BY <1>2 DEF AddThread, TypeOK
  <2> QED BY <1>2, <2>1, NoNewRun
<1>3. ASSUME NEW w \in Tasks, Work(w) PROVE Good
  <2>1. UNCHANGED <<stopper, joining, down>>
    BY <1>3 DEF Work, Get, GiveUp, Check, RunTask, Leave
  <2>2. down => \A v \in Tasks : worker'[v] = "run" => worker[v] = "run"
    BY <1>3 DEF Work, Get, GiveUp, Check, RunTask, Leave, TypeOK
  <2> QED BY <2>1, <2>2, NoNewRun
<1>4. ASSUME NEW c \in Callers, AdjustThreadcount(c) PROVE Good
  BY <1>1, <1>2, <1>4 DEF AdjustThreadcount
<1>5. ASSUME NEW s \in Stoppers, StopCheck(s) \/ StopSet(s) \/ StopPoison(s)
      PROVE  Good
  <2>1. \A t \in Stoppers :
          /\ t # s => stopper'[t] = stopper[t]
          /\ stopper'[s] \notin {"join", "returned"}
    BY <1>5 DEF StopCheck, StopSet, StopPoison, TypeOK
  <2>2. UNCHANGED <<worker, joining>> /\ (down => down')
    BY <1>5 DEF StopCheck, StopSet, StopPoison
  <2>3. stopper'[s] \notin {"off", "skipped", "set"} => down'
    BY <1>5 DEF StopCheck, StopSet, StopPoison, StopOrder, TypeOK
  <2>4. StopOrder'
    BY <2>1, <2>2, <2>3 DEF StopOrder
  <2>5. QuietAfterShutdown'
    BY <2>1, <2>2 DEF QuietAfterShutdown
  <2> QED BY <2>4, <2>5
<1>6. ASSUME NEW s \in Stoppers, StopSnapshot(s) PROVE Good
  <2>1. /\ \A t \in Stoppers : t # s => stopper'[t] = stopper[t]
                                        /\ joining'[t] = joining[t]
        /\ stopper'[s] = "join" /\ joining'[s] = threads /\ down
    BY <1>6 DEF StopSnapshot, StopOrder, TypeOK
  <2>2. worker' = worker /\ down' = down
    BY <1>6 DEF StopSnapshot
  <2>3. \A w \in Tasks : worker[w] = "run" => w \in threads
    BY DEF WithinLimits
  <2>4. StopOrder'
    BY <2>1, <2>2, <2>3 DEF StopOrder
  <2>5. QuietAfterShutdown'
    BY <2>1, <2>2 DEF QuietAfterShutdown
  <2> QED BY <2>4, <2>5
<1>7. ASSUME NEW s \in Stoppers, StopJoin(s) PROVE Good
  <2>1. /\ \A t \in Stoppers : t # s => stopper'[t] = stopper[t]
        /\ stopper[s] = "join" /\ stopper'[s] = "returned"
        /\ \A w \in joining[s] : worker[w] = "gone"
    BY <1>7 DEF StopJoin, TypeOK
  <2>2. UNCHANGED <<worker, joining, down>>
    BY <1>7 DEF StopJoin
  <2>3. \A w \in Tasks : worker[w] # "run"
    BY <2>1 DEF StopOrder
  <2>4. StopOrder'
    BY <2>1, <2>2 DEF StopOrder
  <2> QED BY <2>2, <2>3, <2>4 DEF QuietAfterShutdown
<1> QED
  BY <1>1, <1>3, <1>4, <1>5, <1>6, <1>7 DEF Next, Submit, Shutdown, vars,
     SubmitCheck, Put

-----------------------------------------------------------------------------
\* The inductive invariant: the limits, what a None means, and who can still
\* run a task at each step of a shutdown.
THEOREM Invariance == Spec => []IInv
<1>1. Init => IInv
  <2> SUFFICES ASSUME Init PROVE IInv
    OBVIOUS
  <2>1. TypeOK
    BY TypeInit
  <2>2. WithinLimits
    BY FS_EmptySet, ThreadPoolAssumption DEF Init, WithinLimits
  <2>3. NoneMeansDown /\ StopOrder /\ QuietAfterShutdown
    BY DEF Init, NoneMeansDown, StopOrder, QuietAfterShutdown
  <2> QED BY <2>1, <2>2, <2>3 DEF IInv
<1>2. IInv /\ [Next]_vars => IInv'
  BY TypeNext, LimitsNext, NonesNext, StopNext DEF IInv
<1> QED BY <1>1, <1>2, PTL DEF Spec

\* However submits, timeouts and exits overlap, the pool never has more than
\* max_threads threads nor more than core_threads that stay.
THEOREM Limits == Spec => []WithinLimits
<1>1. IInv => WithinLimits
  BY DEF IInv
<1> QED BY <1>1, Invariance, PTL

\* Once the shutdown(wait = True) that joins has returned no task runs, late submits
\* included.
THEOREM Quiet == Spec => []QuietAfterShutdown
<1>1. IInv => QuietAfterShutdown
  BY DEF IInv
<1> QED BY <1>1, Invariance, PTL

-----------------------------------------------------------------------------
(* Every task is in one place.                                              *)

Queued(t) == \E i \in DOMAIN queue : queue[i] = t
Held(t) == \E w \in Tasks : hand[w] = t
Ended(t) == t \in finished \/ t \in dropped
Given == 1..submitted

\* A thread holds a task from the get to the end of the task only; a place holds
\* a task once, and no task that was not submitted; and the places are apart.
HandsFree == \A w \in Tasks : worker[w] \notin {"check", "run"} => hand[w] = None
OnceEach ==
  /\ \A i, j \in DOMAIN queue : queue[i] = queue[j] /\ queue[i] # None => i = j
  /\ \A v, w \in Tasks : hand[v] = hand[w] /\ hand[v] # None => v = w
OfGiven ==
  /\ \A i \in DOMAIN queue : queue[i] \in Given \cup {None}
  /\ \A w \in Tasks : hand[w] \in Given \cup {None}
  /\ finished \subseteq Given /\ dropped \subseteq Given
Apart ==
  /\ \A t \in Given : Queued(t) => ~Held(t) /\ ~Ended(t)
  /\ \A t \in Given : Held(t) => ~Ended(t)
  /\ finished \cap dropped = {}
Somewhere == \A t \in Given : Queued(t) \/ Held(t) \/ Ended(t)
DropsWhenDown == dropped # {} => down

Located == HandsFree /\ OnceEach /\ OfGiven /\ Apart /\ Somewhere /\ DropsWhenDown

LEMMA LocatedInit == Init => Located
<1> SUFFICES ASSUME Init PROVE Located
  OBVIOUS
<1>1. submitted = 0 /\ queue = <<>> /\ finished = {} /\ dropped = {}
      /\ \A w \in Tasks : hand[w] = None
  BY DEF Init
<1>2. Given = {} /\ DOMAIN queue = {}
  BY <1>1 DEF Given
<1> QED
  BY <1>1, <1>2 DEF Located, HandsFree, OnceEach, OfGiven, Apart, Somewhere, DropsWhenDown, Queued, Held

\* A step that moves no task, and leaves none with a thread that should have none.
LEMMA NothingMoves ==
  ASSUME Located, UNCHANGED <<submitted, queue, hand, finished, dropped>>, HandsFree', down => down'
  PROVE  Located'
  BY DEF Located, OnceEach, OfGiven, Apart, Somewhere, DropsWhenDown, Queued, Held, Ended, Given

\* More Nones in the queue.
LEMMA NonesAdded ==
  ASSUME Located, queue \in Seq(0..MaxTasks), NEW n \in Nat,
         queue' = queue \o [i \in 1..n |-> None],
         UNCHANGED <<submitted, hand, finished, dropped, worker, down>>
  PROVE  Located'
<1>1. /\ DOMAIN queue = 1..Len(queue) /\ Len(queue) \in Nat
      /\ DOMAIN queue' = 1..Len(queue) + n
      /\ \A i \in 1..Len(queue) : queue'[i] = queue[i]
      /\ \A i \in DOMAIN queue' : i \notin 1..Len(queue) => queue'[i] = None
  <2>1. [i \in 1..n |-> None] \in Seq({None}) /\ Len([i \in 1..n |-> None]) = n
    OBVIOUS
  <2> QED BY <2>1
<1>2. Given' = Given /\ None \notin Given /\ \A t : Held(t)' <=> Held(t)
  BY DEF Given, None, Held
<1>3. \A t \in Given : Queued(t)' <=> Queued(t)
  BY <1>1, <1>2 DEF Queued
<1>4. HandsFree' /\ DropsWhenDown'
  BY DEF Located, HandsFree, DropsWhenDown
<1>5. OnceEach'
  BY <1>1 DEF Located, OnceEach
<1>6. OfGiven'
  BY <1>1, <1>2 DEF Located, OfGiven
<1>7. Apart' /\ Somewhere'
  BY <1>2, <1>3 DEF Located, Apart, Somewhere, Ended
<1> QED BY <1>4, <1>5, <1>6, <1>7 DEF Located

LEMMA PutLocated ==
  ASSUME Located, TypeOK, NEW c \in Callers, Put(c)
  PROVE  Located'
<1> PICK t0 \in Nat : t0 = submitted + 1
  BY DEF TypeOK
<1>1. /\ submitted' = t0 /\ queue' = Append(queue, t0) /\ submitted \in Nat
      /\ queue \in Seq(0..MaxTasks)
      /\ UNCHANGED <<hand, finished, dropped, worker, down>>
  BY ThreadPoolAssumption DEF Put, TypeOK
<1>2. /\ DOMAIN queue = 1..Len(queue) /\ Len(queue) \in Nat
      /\ DOMAIN queue' = 1..Len(queue) + 1
      /\ \A i \in 1..Len(queue) : queue'[i] = queue[i]
      /\ queue'[Len(queue) + 1] = t0
  BY <1>1, AppendProperties
<1>3. Given' = Given \cup {t0} /\ t0 \notin Given /\ t0 # None /\ None \notin Given
  BY <1>1 DEF Given, None
<1>4. ~Queued(t0) /\ ~Held(t0) /\ ~Ended(t0)
  BY <1>3 DEF Located, OfGiven, Queued, Held, Ended
<1>5. Queued(t0)' /\ ~Held(t0)' /\ ~Ended(t0)'
  BY <1>1, <1>2, <1>4 DEF Queued, Held, Ended
<1>6. \A t \in Given : (Queued(t)' <=> Queued(t)) /\ (Held(t)' <=> Held(t)) /\ (Ended(t)' <=> Ended(t))
  <2>1. \A t \in Given : Queued(t)' <=> Queued(t)
    BY <1>2, <1>3 DEF Queued
  <2>2. \A t \in Given : (Held(t)' <=> Held(t)) /\ (Ended(t)' <=> Ended(t))
    BY <1>1 DEF Held, Ended
  <2> QED BY <2>1, <2>2
<1>7. HandsFree' /\ DropsWhenDown'
  BY <1>1 DEF Located, HandsFree, DropsWhenDown
<1>8. OnceEach'
  <2>1. \A i \in DOMAIN queue : queue[i] # t0
    BY <1>4 DEF Queued
  <2>2. ASSUME NEW i \in DOMAIN queue', NEW j \in DOMAIN queue', queue'[i] = queue'[j],
               queue'[i] # None
        PROVE  i = j
    <3>1. CASE i \in DOMAIN queue /\ j \in DOMAIN queue
      BY <1>2, <2>2, <3>1 DEF Located, OnceEach
    <3>2. CASE i \notin DOMAIN queue \/ j \notin DOMAIN queue
      BY <1>2, <2>1, <2>2, <3>2
    <3> QED BY <3>1, <3>2
  <2> QED BY <1>1, <2>2 DEF Located, OnceEach
<1>9. OfGiven'
  BY <1>1, <1>2, <1>3 DEF Located, OfGiven
<1>10. Apart'
  <2>1. \A t \in Given' : Queued(t)' => ~Held(t)' /\ ~Ended(t)'
    BY <1>3, <1>5, <1>6 DEF Located, Apart
  <2>2. \A t \in Given' : Held(t)' => ~Ended(t)'
    BY <1>3, <1>5, <1>6 DEF Located, Apart
  <2> QED BY <1>1, <2>1, <2>2 DEF Located, Apart
<1>11. Somewhere'
  BY <1>3, <1>5, <1>6 DEF Located, Somewhere
<1> QED BY <1>7, <1>8, <1>9, <1>10, <1>11 DEF Located

LEMMA GetLocated ==
  ASSUME Located, TypeOK, NEW w \in Tasks, Get(w)
  PROVE  Located'
<1> DEFINE h == Head(queue)
<1>1. /\ queue' = Tail(queue) /\ queue # <<>> /\ queue \in Seq(0..MaxTasks)
      /\ hand' = [hand EXCEPT ![w] = h] /\ worker[w] = "get"
      /\ UNCHANGED <<submitted, finished, dropped, down>>
      /\ DOMAIN hand = Tasks /\ DOMAIN worker = Tasks
      /\ worker' = [worker EXCEPT ![w] = "check"]
  BY DEF Get, TypeOK
<1>2. /\ DOMAIN queue = 1..Len(queue) /\ Len(queue) \in Nat \ {0}
      /\ DOMAIN queue' = 1..Len(queue) - 1
      /\ \A i \in 1..Len(queue) - 1 : queue'[i] = queue[i + 1]
      /\ h = queue[1]
  BY <1>1, HeadTailProperties
<1>3. hand[w] = None
  BY <1>1 DEF Located, HandsFree
<1>4. Given' = Given /\ None \notin Given /\ h \in Given \cup {None} /\ Queued(h)
  BY <1>1, <1>2 DEF Given, None, Located, OfGiven, Queued
<1> HIDE DEF h
<1>5. \A t \in Given : Held(t)' <=> Held(t) \/ t = h
  BY <1>1, <1>3, <1>4 DEF Held
<1>6. \A t \in Given : Queued(t)' <=> Queued(t) /\ t # h
  <2> SUFFICES ASSUME NEW t \in Given PROVE Queued(t)' <=> Queued(t) /\ t # h
    OBVIOUS
  <2>1. ASSUME NEW i \in DOMAIN queue', queue'[i] = t PROVE Queued(t) /\ t # h
    <3>1. i + 1 \in DOMAIN queue /\ queue[i + 1] = t /\ i + 1 # 1 /\ 1 \in DOMAIN queue
      BY <1>2, <2>1
    <3> QED BY <3>1, <1>2, <1>4 DEF Located, OnceEach, Queued
  <2>2. ASSUME NEW i \in DOMAIN queue, queue[i] = t, t # h PROVE Queued(t)'
    <3>1. i - 1 \in DOMAIN queue' /\ queue'[i - 1] = t
      BY <1>2, <2>2
    <3> QED BY <3>1 DEF Queued
  <2> QED BY <2>1, <2>2 DEF Queued
<1>7. HandsFree' /\ DropsWhenDown'
  BY <1>1 DEF Located, HandsFree, DropsWhenDown
<1>8. OnceEach'
  <2>1. \A i, j \in DOMAIN queue' : queue'[i] = queue'[j] /\ queue'[i] # None => i = j
    <3> SUFFICES ASSUME NEW i \in DOMAIN queue', NEW j \in DOMAIN queue',
                        queue'[i] = queue'[j], queue'[i] # None
                 PROVE  i = j
      OBVIOUS
    <3>1. i + 1 \in DOMAIN queue /\ j + 1 \in DOMAIN queue /\ queue[i + 1] = queue[j + 1]
          /\ queue[i + 1] # None /\ i \in Int /\ j \in Int
      BY <1>2
    <3>2. i + 1 = j + 1
      BY <3>1 DEF Located, OnceEach
    <3> QED BY <3>1, <3>2
  <2>2. \A u, v \in Tasks : hand'[u] = hand'[v] /\ hand'[u] # None => u = v
    <3>1. h # None => ~Held(h)
      BY <1>4 DEF Located, Apart
    <3> QED BY <1>1, <1>3, <3>1 DEF Located, OnceEach, Held
  <2> QED BY <2>1, <2>2 DEF OnceEach
<1>9. OfGiven'
  <2>1. \A i \in DOMAIN queue' : queue'[i] \in Given \cup {None}
    BY <1>2 DEF Located, OfGiven
  <2> QED BY <1>1, <1>4, <2>1 DEF Located, OfGiven
<1>10. Apart'
  <2>1. h \in Given => ~Held(h) /\ ~Ended(h)
    BY <1>4 DEF Located, Apart
  <2>2. \A t \in Given : Ended(t)' <=> Ended(t)
    BY <1>1 DEF Ended
  <2>3. \A t \in Given : Queued(t)' => ~Held(t)' /\ ~Ended(t)'
    BY <1>5, <1>6, <2>2 DEF Located, Apart
  <2>4. \A t \in Given : Held(t)' => ~Ended(t)'
    BY <1>5, <2>1, <2>2 DEF Located, Apart
  <2> QED BY <1>1, <1>4, <2>3, <2>4 DEF Located, Apart
<1>11. Somewhere'
  BY <1>1, <1>4, <1>5, <1>6 DEF Located, Somewhere, Ended
<1> QED BY <1>7, <1>8, <1>9, <1>10, <1>11 DEF Located

\* A task leaves its thread, and is run or thrown away.
LEMMA EndLocated ==
  ASSUME Located, TypeOK, NEW w \in Tasks, NEW b,
         hand[w] # None,
         hand' = [hand EXCEPT ![w] = None], worker' = [worker EXCEPT ![w] = b],
         b \notin {"check", "run"},
         \/ finished' = finished \cup {hand[w]} /\ dropped' = dropped
         \/ dropped' = dropped \cup {hand[w]} /\ finished' = finished /\ down,
         UNCHANGED <<submitted, queue, down>>
  PROVE  Located'
<1> DEFINE h == hand[w]
<1>1. /\ Given' = Given /\ None \notin Given /\ h \in Given
      /\ DOMAIN hand = Tasks /\ DOMAIN worker = Tasks
  BY DEF Given, None, Located, OfGiven, TypeOK
<1>2. Held(h) /\ ~Queued(h) /\ ~Ended(h)
  BY <1>1 DEF Located, Apart, Held
<1>3. \A t \in Given : Held(t)' <=> Held(t) /\ t # h
  BY <1>1 DEF Held, Located, OnceEach
<1>4. \A t \in Given : (Ended(t)' <=> Ended(t) \/ t = h) /\ (Queued(t)' <=> Queued(t))
  BY DEF Ended, Queued
<1>5. HandsFree' /\ DropsWhenDown'
  BY <1>1 DEF Located, HandsFree, DropsWhenDown
<1>6. OnceEach'
  BY <1>1 DEF Located, OnceEach
<1>7. OfGiven'
  BY <1>1 DEF Located, OfGiven
<1>8. Apart'
  <2>1. \A t \in Given : Queued(t)' => ~Held(t)' /\ ~Ended(t)'
    BY <1>2, <1>3, <1>4 DEF Located, Apart
  <2>2. \A t \in Given : Held(t)' => ~Ended(t)'
    BY <1>3, <1>4 DEF Located, Apart
  <2>3. (finished \cap dropped)' = {}
    BY <1>2 DEF Located, Apart, Ended
  <2> QED BY <1>1, <2>1, <2>2, <2>3 DEF Apart
<1>9. Somewhere'
  BY <1>1, <1>3, <1>4 DEF Located, Somewhere
<1> QED BY <1>5, <1>6, <1>7, <1>8, <1>9 DEF Located

LEMMA LocatedNext ==
  ASSUME Located, IInv, [Next]_vars
  PROVE  Located'
<1>0. TypeOK /\ NoneMeansDown /\ DOMAIN worker = Tasks /\ HandsFree
  BY DEF IInv, TypeOK, Located
<1> USE <1>0
<1>1. ASSUME NEW c \in Callers, SubmitCheck(c) \/ AdjustThreadcount(c) PROVE Located'
  <2>1. UNCHANGED <<submitted, queue, hand, finished, dropped, down>>
    BY <1>1 DEF SubmitCheck, AdjustThreadcount
  <2>2. worker' = worker \/ \E w \in Tasks : worker' = [worker EXCEPT ![w] = "get"] /\ worker[w] = "new"
    BY <1>1 DEF SubmitCheck, AdjustThreadcount, AddThread
  <2>3. HandsFree'
    BY <2>1, <2>2 DEF HandsFree
  <2> QED BY <2>1, <2>3, NothingMoves
<1>2. ASSUME NEW c \in Callers, Put(c) PROVE Located'
  BY <1>2, PutLocated
<1>3. ASSUME NEW w \in Tasks, Get(w) PROVE Located'
  BY <1>3, GetLocated
<1>4. ASSUME NEW w \in Tasks, GiveUp(w) \/ Leave(w) PROVE Located'
  <2>1. UNCHANGED <<submitted, queue, hand, finished, dropped, down>>
    BY <1>4 DEF GiveUp, Leave
  <2>2. HandsFree'
    BY <1>4 DEF GiveUp, Leave, HandsFree
  <2> QED BY <2>1, <2>2, NothingMoves
<1>5. ASSUME NEW w \in Tasks, Check(w) PROVE Located'
  <2>1. CASE down /\ hand[w] # None
    <3>1. /\ worker' = [worker EXCEPT ![w] = "leave"] /\ dropped' = dropped \cup {hand[w]}
          /\ hand' = [hand EXCEPT ![w] = None] /\ UNCHANGED <<submitted, queue, finished, down>>
      BY <1>5, <2>1 DEF Check
    <3>2. "leave" \notin {"check", "run"}
      OBVIOUS
    <3> HIDE DEF TypeOK
    <3> QED BY <2>1, <3>1, <3>2, EndLocated
  <2>2. CASE ~(down /\ hand[w] # None)
    <3>1. UNCHANGED <<submitted, queue, finished, dropped, down>> /\ hand' = hand
      BY <1>5, <2>2 DEF Check, TypeOK
    <3>2. HandsFree'
      BY <1>5, <2>2, <3>1 DEF Check, HandsFree, NoneMeansDown
    <3> QED BY <3>1, <3>2, NothingMoves
  <2> QED BY <2>1, <2>2
<1>6. ASSUME NEW w \in Tasks, RunTask(w) PROVE Located'
  <2>1. hand[w] # None
    BY <1>6 DEF RunTask, NoneMeansDown
  <2>2. /\ worker' = [worker EXCEPT ![w] = "get"] /\ finished' = finished \cup {hand[w]}
        /\ hand' = [hand EXCEPT ![w] = None] /\ UNCHANGED <<submitted, queue, dropped, down>>
    BY <1>6 DEF RunTask
  <2>3. "get" \notin {"check", "run"}
    OBVIOUS
  <2> QED BY <2>1, <2>2, <2>3, EndLocated
<1>7. ASSUME NEW s \in Stoppers, StopCheck(s) \/ StopSet(s) \/ StopSnapshot(s) \/ StopJoin(s)
      PROVE Located'
  <2>1. UNCHANGED <<submitted, queue, hand, finished, dropped, worker>> /\ (down => down')
    BY <1>7 DEF StopCheck, StopSet, StopSnapshot, StopJoin
  <2>2. HandsFree'
    BY <2>1 DEF HandsFree
  <2> QED BY <2>1, <2>2, NothingMoves
<1>8. ASSUME NEW s \in Stoppers, StopPoison(s) PROVE Located'
  <2>1. queue \in Seq(0..MaxTasks) /\ Cardinality(threads) \in Nat
    BY FiniteThreads DEF TypeOK
  <2>2. queue' = queue \o [i \in 1..Cardinality(threads) |-> None]
        /\ UNCHANGED <<submitted, hand, finished, dropped, worker, down>>
    BY <1>8 DEF StopPoison
  <2> QED BY <2>1, <2>2, NonesAdded
<1>9. CASE UNCHANGED vars
  BY <1>9, NothingMoves DEF vars, HandsFree
<1> QED
  BY <1>1, <1>2, <1>3, <1>4, <1>5, <1>6, <1>7, <1>8, <1>9 DEF Next, Submit, Work, Shutdown

\* One place that is not empty has one entry, the others have none.
LEMMA LocatedOnePlace ==
  ASSUME Located, TypeOK
  PROVE  OnePlace
<1> SUFFICES ASSUME NEW t \in Given
             PROVE  Cardinality(Places(t).queue) + Cardinality(Places(t).hand)
                    + Cardinality(Places(t).ended) = 1
  BY DEF Located, DropsWhenDown, OnePlace, Given
<1> DEFINE q == {i \in DOMAIN queue : queue[i] = t}
           h == {w \in Tasks : hand[w] = t}
           e == {x \in {"finished", "dropped"} : t \in IF x = "finished" THEN finished ELSE dropped}
<1>1. Places(t).queue = q /\ Places(t).hand = h /\ Places(t).ended = e
  BY DEF Places
<1>2. t # None
  BY DEF Given, None
<1>3. (q = {} <=> ~Queued(t)) /\ (h = {} <=> ~Held(t)) /\ (e = {} <=> ~Ended(t))
  <2>1. e = {} <=> ~Ended(t)
    BY DEF Ended
  <2> QED BY <2>1 DEF Queued, Held
<1>4. Queued(t) => \E i : q = {i}
  BY <1>2 DEF Queued, Located, OnceEach
<1>5. Held(t) => \E w : h = {w}
  BY <1>2 DEF Held, Located, OnceEach
<1>6. Ended(t) => \E x : e = {x}
  <2>1. CASE t \in finished
    BY <2>1 DEF Located, Apart
  <2>2. CASE t \in dropped
    BY <2>2 DEF Located, Apart
  <2> QED BY <2>1, <2>2 DEF Ended
<1>7. Cardinality({}) = 0 /\ \A x : Cardinality({x}) = 1
  BY FS_EmptySet, FS_Singleton
<1> HIDE DEF q, h, e
<1>8. (Queued(t) => ~Held(t) /\ ~Ended(t)) /\ (Held(t) => ~Ended(t)) /\ (Queued(t) \/ Held(t) \/ Ended(t))
  BY DEF Located, Apart, Somewhere
<1>9. Cardinality(q) + Cardinality(h) + Cardinality(e) = 1
  <2>1. CASE Queued(t)
    <3>1. h = {} /\ e = {} /\ Cardinality(q) = 1
      BY <1>3, <1>4, <1>7, <1>8, <2>1
    <3> QED BY <1>7, <3>1
  <2>2. CASE Held(t)
    <3>1. q = {} /\ e = {} /\ Cardinality(h) = 1
      BY <1>3, <1>5, <1>7, <1>8, <2>2
    <3> QED BY <1>7, <3>1
  <2>3. CASE Ended(t)
    <3>1. q = {} /\ h = {} /\ Cardinality(e) = 1
      BY <1>3, <1>6, <1>7, <1>8, <2>3
    <3> QED BY <1>7, <3>1
  <2> QED BY <1>8, <2>1, <2>2, <2>3
<1> QED BY <1>1, <1>9

\* A task that was submitted is in the queue once, or with one thread, or was run or
\* thrown away once, the latter only by a shutdown: nothing is lost or run twice.
THEOREM TasksConserved == Spec => []OnePlace
<1>1. Located /\ IInv => OnePlace
  BY LocatedOnePlace DEF IInv
<1> QED BY <1>1, LocatedInit, LocatedNext, Invariance, PTL DEF Spec

-----------------------------------------------------------------------------
(* JobStores.                                                               *)

OptionRecords == [interval : {i \in Nat : i % 2 = 0}, coalesce : BOOLEAN, max_runs : Nat]
Entries == [next : Nat, runs : Nat]

\* FireTime, of a given option and first run time.
FireAt(o, first, t) ==
  IF t <= first THEN first
  ELSE IF o.interval = 0 THEN Never
  ELSE first + o.interval * ((t - first + o.interval - 1) \div o.interval)

\* The run times before next were submitted, and those from next on were not.
Once(o, first, s, run, c, next) ==
  \A t \in Times : s <= t /\ FireAt(o, first, t) = t =>
    /\ t < next => run[t] \in 1..1 + c
    /\ t >= next => run[t] <= c

-----------------------------------------------------------------------------
(* The triggers.                                                            *)

LEMMA FireTimeAt == \A j, t : FireTime(j, t) = FireAt(opt[j], trigger[j], t)
BY DEF FireTime, SimpleFire, IntervalFire, FireAt

LEMMA Multiples ==
  ASSUME NEW i \in Nat, NEW m \in Nat, NEW q \in Nat, q <= m
  PROVE  i * q <= i * m
<1>1. PICK d \in Nat : m = q + d
  BY m - q \in Nat
<1>2. i * m = i * q + i * d /\ i * d \in Nat /\ i * q \in Nat
  BY <1>1
<1> QED BY <1>2

LEMMA QuotientUp ==
  ASSUME NEW i \in Nat \ {0}, NEW a \in Nat
  PROVE  LET q == (a + i - 1) \div i IN
         q \in Nat /\ i * q \in Nat /\ a <= i * q /\ i * q < a + i
<1> DEFINE n == a + i - 1
<1>1. n \in Nat
  OBVIOUS
<1> HIDE DEF n
<1>2. n \div i \in Nat /\ i * (n \div i) <= n /\ n < i * (n \div i) + i /\ i * (n \div i) \in Nat
  BY <1>1
<1> QED BY <1>2 DEF n

LEMMA NoMultipleBetween ==
  ASSUME NEW i \in Nat \ {0}, NEW a \in Nat, NEW m \in Nat, NEW q \in Nat,
         i * q < a + i, a <= i * m
  PROVE  i * q <= i * m
<1> SUFFICES ASSUME m < q PROVE FALSE
  BY Multiples
<1>1. i * (m + 1) <= i * q
  BY Multiples
<1>2. i * (m + 1) = i * m + i /\ i * m \in Nat /\ i * q \in Nat
  OBVIOUS
<1> QED BY <1>1, <1>2

\* A trigger answers with a run time that is not before u, and there is none between.
LEMMA FireAtFirst ==
  ASSUME NEW o \in OptionRecords, NEW first \in Nat, NEW u \in Nat
  PROVE  /\ FireAt(o, first, u) \in Nat
         /\ FireAt(o, first, u) # Never => u <= FireAt(o, first, u)
         /\ \A t \in Nat : u <= t /\ FireAt(o, first, t) = t /\ t # 0 => FireAt(o, first, u) <= t
<1> DEFINE i == o.interval
           q(t) == (t - first + i - 1) \div i
<1>1. i \in Nat
  BY DEF OptionRecords
<1>2. CASE u <= first
  <2>1. FireAt(o, first, u) = first
    BY <1>2 DEF FireAt
  <2>2. ASSUME NEW t \in Nat, FireAt(o, first, t) = t, t # 0 PROVE first <= t
    <3>1. CASE t <= first
      BY <2>2, <3>1 DEF FireAt
    <3> QED BY <3>1
  <2> QED BY <1>2, <2>1, <2>2
<1>3. CASE first < u /\ i = 0
  BY <1>3 DEF FireAt, Never
<1>4. CASE first < u /\ i # 0
  <2>1. i \in Nat \ {0}
    BY <1>1, <1>4
  <2>2. ASSUME NEW t \in Nat, first < t
        PROVE  /\ q(t) \in Nat /\ i * q(t) \in Nat /\ t - first \in Nat
               /\ t - first <= i * q(t) /\ i * q(t) < t - first + i
               /\ FireAt(o, first, t) = first + i * q(t)
    <3>1. t - first \in Nat
      BY <2>2
    <3>2. LET r == (t - first + i - 1) \div i IN
          r \in Nat /\ i * r \in Nat /\ t - first <= i * r /\ i * r < t - first + i
      BY <2>1, <3>1, QuotientUp
    <3>3. ~(t <= first)
      BY <2>2
    <3>4. FireAt(o, first, t) = first + i * q(t)
      BY <1>4, <3>3 DEF FireAt
    <3> QED BY <3>1, <3>2, <3>4
  <2> HIDE DEF i, q
  <2>3. FireAt(o, first, u) \in Nat /\ u <= FireAt(o, first, u)
    BY <1>4, <2>2
  <2>4. ASSUME NEW t \in Nat, u <= t, FireAt(o, first, t) = t PROVE FireAt(o, first, u) <= t
    <3>1. /\ q(t) \in Nat /\ t = first + i * q(t) /\ i * q(t) \in Nat
          /\ q(u) \in Nat /\ i * q(u) < u - first + i /\ i * q(u) \in Nat
          /\ FireAt(o, first, u) = first + i * q(u) /\ u - first \in Nat
      BY <1>4, <2>2, <2>4
    <3>2. u - first <= i * q(t)
      BY <2>4, <3>1
    <3>3. i * q(u) <= i * q(t)
      BY <2>1, <3>1, <3>2, NoMultipleBetween
    <3> QED BY <3>1, <3>3
  <2> QED BY <2>3, <2>4
<1> QED BY <1>1, <1>2, <1>3, <1>4

\* What a trigger answers with is one of its run times.
LEMMA FireAtFires ==
  ASSUME NEW o \in OptionRecords, NEW first \in Nat, NEW u \in Nat, FireAt(o, first, u) # Never
  PROVE  FireAt(o, first, FireAt(o, first, u)) = FireAt(o, first, u)
<1> DEFINE i == o.interval
<1>1. CASE u <= first
  BY <1>1 DEF FireAt
<1>2. CASE ~(u <= first)
  <2>1. i \in Nat \ {0} /\ u - first \in Nat
    BY <1>2 DEF FireAt, OptionRecords, Never
  <2> DEFINE q == (u - first + i - 1) \div i
  <2>2. FireAt(o, first, u) = first + i * q
    BY <1>2, <2>1 DEF FireAt
  <2> HIDE DEF i
  <2>3. q \in Nat /\ i * q \in Nat /\ u - first <= i * q
    BY <2>1, QuotientUp
  <2> HIDE DEF q
  <2> DEFINE r == (i * q + i - 1) \div i
  <2>4. r \in Nat /\ i * r \in Nat /\ i * q <= i * r /\ i * r < i * q + i
    BY <2>1, <2>3, QuotientUp
  <2>5. i * r = i * q
    <3> HIDE DEF r
    <3>1. i * r <= i * q
      BY <2>1, <2>3, <2>4, NoMultipleBetween
    <3> QED BY <2>3, <2>4, <3>1
  <2> DEFINE f == first + i * q
  <2>6. f - first = i * q /\ ~(f <= first) /\ f \in Nat
    BY <1>2, <2>1, <2>3
  <2>7. FireAt(o, first, f) = first + i * r
    <3>1. o.interval # 0
      BY <2>1 DEF i
    <3> HIDE DEF f
    <3> QED BY <2>6, <3>1 DEF FireAt, i
  <2> QED BY <2>2, <2>5, <2>7
<1> QED BY <1>1, <1>2

\* Two run times are a second apart at least.
LEMMA FiresApart ==
  ASSUME NEW o \in OptionRecords, NEW first \in Nat, NEW t \in Nat, FireAt(o, first, t) = t
  PROVE  FireAt(o, first, t + 1) # t + 1
<1> SUFFICES ASSUME FireAt(o, first, t + 1) = t + 1 PROVE FALSE
  OBVIOUS
<1> DEFINE i == o.interval
<1>1. first <= t
  BY DEF FireAt
<1>2. i \in Nat \ {0, 1}
  BY <1>1 DEF FireAt, OptionRecords, Never
<1> DEFINE r == (t + 1 - first + i - 1) \div i
<1>3. t + 1 = first + i * r
  BY <1>1, <1>2 DEF FireAt
<1> HIDE DEF i
<1>4. t + 1 - first \in Nat
  BY <1>1
<1>5. r \in Nat /\ i * r \in Nat
  BY <1>2, <1>4, QuotientUp
<1> HIDE DEF r
<1>6. CASE t = first
  <2>1. i * r = 1
    BY <1>3, <1>5, <1>6
  <2>2. CASE r = 0
    BY <1>2, <2>1, <2>2
  <2>3. CASE r # 0
    <3>1. i * 1 <= i * r
      BY <1>2, <1>5, <2>3, Multiples
    <3> QED BY <1>2, <2>1, <3>1
  <2> QED BY <2>2, <2>3
<1>7. CASE first < t
  <2> DEFINE q == (t - first + i - 1) \div i
  <2>1. t = first + i * q
    BY <1>2, <1>7 DEF FireAt, i
  <2>2. t - first \in Nat
    BY <1>7
  <2>3. q \in Nat /\ i * q \in Nat
    BY <1>2, <2>2, QuotientUp
  <2> HIDE DEF q
  <2>4. i * r = i * q + 1
    BY <1>3, <1>5, <2>1, <2>3
  <2>5. CASE r <= q
    <3>1. i * r <= i * q
      BY <1>2, <1>5, <2>3, <2>5, Multiples
    <3> QED BY <1>5, <2>3, <2>4, <3>1
  <2>6. CASE q + 1 <= r
    <3>1. i * (q + 1) <= i * r
      BY <1>2, <1>5, <2>3, <2>6, Multiples
    <3>2. i * (q + 1) = i * q + i
      BY <1>2, <2>3
    <3> QED BY <1>2, <2>3, <2>4, <3>1, <3>2
  <2> QED BY <1>5, <2>3, <2>5, <2>6
<1> QED BY <1>1, <1>6, <1>7

\* What MongoDB keeps of a time.
LEMMA MillisecondsOf ==
  ASSUME NEW t \in Nat
  PROVE  /\ Milliseconds(t) \in Nat /\ (Milliseconds(t) = t \/ Milliseconds(t) + 1 = t)
         /\ Milliseconds(Milliseconds(t)) = Milliseconds(t)
<1>1. PICK h \in Nat : t = 2 * h \/ t = 2 * h + 1
  <2>1. t = 2 * (t \div 2) \/ t = 2 * (t \div 2) + 1
    OBVIOUS
  <2>2. t \div 2 \in Nat
    OBVIOUS
  <2> QED BY <2>1, <2>2
<1>2. CASE t = 2 * h
  <2>1. t % 2 = 0
    BY <1>2
  <2> QED BY <2>1 DEF Milliseconds
<1>3. CASE t = 2 * h + 1
  <2>1. t % 2 = 1 /\ (t - 1) % 2 = 0 /\ t - 1 \in Nat
    BY <1>3
  <2>2. Milliseconds(t) = t - 1
    BY <2>1 DEF Milliseconds
  <2>3. Milliseconds(t - 1) = t - 1
    BY <2>1 DEF Milliseconds
  <2> QED BY <2>1, <2>2, <2>3
<1> QED BY <1>1, <1>2, <1>3

LEMMA KeptOf ==
  ASSUME NEW t \in Nat
  PROVE  /\ Kept(t) \in Nat /\ (Kept(t) = t \/ Kept(t) + 1 = t) /\ Kept(Kept(t)) = Kept(t)
         /\ kind # "mongodb" => Kept(t) = t
BY MillisecondsOf DEF Kept

-----------------------------------------------------------------------------
(* The history of one job.                                                  *)

\* A job that is new has no run time before its next one.
LEMMA OnceNew ==
  ASSUME NEW o, NEW first, NEW s \in Nat, NEW run, NEW c \in Nat, NEW next \in Nat, next <= s,
         \A t \in Times : run[t] = 0
  PROVE  Once(o, first, s, run, c, next)
BY StoresAssumption DEF Once, Times

\* What is kept of a run time tells the run times before it from the others.
LEMMA OnceKept ==
  ASSUME NEW o \in OptionRecords, NEW first \in Nat, NEW s, NEW run, NEW c, NEW next \in Nat,
         FireAt(o, first, next) = next \/ Kept(next) = next
  PROVE  Once(o, first, s, run, c, next) <=> Once(o, first, s, run, c, Kept(next))
<1>1. CASE Kept(next) = next
  BY <1>1
<1>2. CASE Kept(next) # next
  <2> DEFINE k == Kept(next)
  <2>1. k \in Nat /\ k + 1 = next
    BY <1>2, KeptOf
  <2> HIDE DEF k
  <2>2. FireAt(o, first, k) # k
    BY <1>2, <2>1, FiresApart
  <2>3. ASSUME NEW t \in Times, FireAt(o, first, t) = t
        PROVE  (t < next <=> t < k) /\ (t >= next <=> t >= k)
    <3>1. t \in Nat /\ t # k
      BY <2>2, <2>3, StoresAssumption DEF Times
    <3> QED BY <2>1, <3>1
  <2>4. Once(o, first, s, run, c, next) <=> Once(o, first, s, run, c, k)
    BY <2>3 DEF Once
  <2> QED BY <2>4 DEF k
<1> QED BY <1>1, <1>2

LEMMA OnceCut ==
  ASSUME NEW o, NEW first, NEW s, NEW run \in [Times -> Nat], NEW c \in Nat, NEW next,
         Once(o, first, s, run, c, next)
  PROVE  Once(o, first, s, run, c + 1, next)
<1> SUFFICES ASSUME NEW t \in Times, s <= t, FireAt(o, first, t) = t
             PROVE  /\ t < next => run[t] \in 1..1 + (c + 1)
                    /\ t >= next => run[t] <= c + 1
  BY DEF Once
<1>1. /\ t < next => run[t] \in 1..1 + c
      /\ t >= next => run[t] <= c
  BY DEF Once
<1>2. run[t] \in Nat
  OBVIOUS
<1> QED BY <1>1, <1>2

\* A submission of the run times that are due: what was stored is one behind, and the
\* next time is right.
LEMMA OnceSubmitted ==
  ASSUME NEW o \in OptionRecords, NEW first \in Nat, NEW s \in Nat, NEW run \in [Times -> Nat],
         NEW c \in Nat, NEW next \in Nat, NEW n \in Nat, next <= n,
         Once(o, first, s, run, c, next),
         NEW ran,
         \A t \in Times : FireAt(o, first, t) = t =>
           ran[t] = IF t \in next..n THEN run[t] + 1 ELSE run[t]
  PROVE  /\ Once(o, first, s, ran, c + 1, next)
         /\ FireAt(o, first, n + 1) # Never => Once(o, first, s, ran, c, FireAt(o, first, n + 1))
<1> DEFINE f == FireAt(o, first, n + 1)
<1>1. n + 1 \in Nat
  OBVIOUS
<1>2. /\ f \in Nat /\ (f # Never => n + 1 <= f)
      /\ \A t \in Nat : n + 1 <= t /\ FireAt(o, first, t) = t /\ t # 0 => f <= t
  BY <1>1, FireAtFirst
<1> HIDE DEF f
<1>3. \A t \in Times : t \in Nat /\ t # 0
  BY StoresAssumption DEF Times
<1>4. ASSUME NEW t \in Times, s <= t, FireAt(o, first, t) = t
      PROVE  /\ t < next => ran[t] \in 1..1 + (c + 1)
             /\ t >= next => ran[t] <= c + 1
             /\ f # Never => /\ t < f => ran[t] \in 1..1 + c
                             /\ t >= f => ran[t] <= c
  <2>1. /\ t < next => run[t] \in 1..1 + c
        /\ t >= next => run[t] <= c
    BY <1>4 DEF Once
  <2>2. run[t] \in Nat /\ t \in Nat /\ t # 0
    BY <1>3
  <2>3. ran[t] = IF next <= t /\ t <= n THEN run[t] + 1 ELSE run[t]
    BY <1>4, <2>2
  <2>4. n + 1 <= t => f <= t
    BY <1>2, <1>4, <2>2
  <2> QED BY <1>2, <2>1, <2>2, <2>3, <2>4
<1> QED BY <1>4 DEF Once, f

-----------------------------------------------------------------------------
(* The invariant.                                                           *)

TypesOK ==
  /\ kind \in Kinds /\ opt \in [Jobs -> OptionRecords]
  /\ clock \in Nat \ {0} /\ now \in Nat
  /\ trigger \in [Jobs -> Nat] /\ since \in [Jobs -> Nat]
  /\ times_run \in [Jobs -> [Times -> Nat]] /\ cut \in [Jobs -> Nat] /\ loads \in Nat

\* What is in memory is stored too (with a RAM store: would be).
EntriesOK ==
  /\ DOMAIN disk \subseteq Jobs /\ DOMAIN jobs \subseteq DOMAIN disk
  /\ \A j \in DOMAIN disk : disk[j] \in Entries
  /\ \A j \in DOMAIN jobs : jobs[j] \in Entries

\* A round has the store, and works on one job at a time.
StagesOK ==
  /\ scheduler \in {"down", "off", "running", "stopping", "dead"}
  /\ attached \in BOOLEAN /\ (~attached => DOMAIN jobs = {})
  /\ pending \subseteq Jobs /\ (pending # {} => scheduler \in {"off", "dead"})
  /\ round \subseteq DOMAIN jobs /\ updating \subseteq round
  /\ round # {} => scheduler \in {"running", "stopping"}
  /\ \A i, j \in updating : i = j

\* A job that the program may still give to the store was never submitted.
FreshOK ==
  \A j \in Jobs :
    /\ j \notin added => j \notin pending
    /\ j \notin added \/ (scheduler = "off" /\ j \in pending) =>
         j \notin DOMAIN disk /\ \A t \in Times : times_run[j][t] = 0

\* The submission that has its update still to come.
Open(j) == IF j \in updating THEN 1 ELSE 0

StoredOK ==
  \A j \in DOMAIN disk :
    Once(opt[j], trigger[j], since[j], times_run[j], cut[j] + Open(j), disk[j].next)

\* MongoDB counts an update as one run.
CountKept(j) == kind = "mongodb" => opt[j].coalesce

MemoryOK ==
  \A j \in DOMAIN jobs : j \notin updating /\ (kind = "ram" \/ scheduler # "dead") =>
    Kept(jobs[j].next) = disk[j].next /\ (CountKept(j) => jobs[j].runs = disk[j].runs)

\* A next time is a run time of the trigger or what MongoDB kept of one; the latter is
\* submitted once for each time the store was attached.
Fires(j, t) == FireAt(opt[j], trigger[j], t) = t

DiskTimesOK ==
  \A j \in DOMAIN disk :
    /\ Kept(disk[j].next) = disk[j].next
    /\ disk[j].next = Never \/ Fires(j, disk[j].next) \/ kind = "mongodb"

Early(j, t) ==
  kind = "mongodb" /\ Kept(t) = t /\ (t \in Times => times_run[j][t] + 1 <= loads)

JobTimesOK ==
  \A j \in DOMAIN jobs :
    jobs[j].next = Never \/ Fires(j, jobs[j].next) \/ Early(j, jobs[j].next)

OthersOK ==
  \A j \in Jobs, t \in Times : ~Fires(j, t) =>
    times_run[j][t] <= IF kind = "mongodb" THEN loads ELSE 0

UpdatingOK ==
  \A j \in updating :
    /\ jobs[j].next # Never =>
         /\ Once(opt[j], trigger[j], since[j], times_run[j], cut[j], jobs[j].next)
         /\ Fires(j, jobs[j].next)
    /\ kind = "mongodb" /\ opt[j].coalesce => jobs[j].runs = disk[j].runs + 1

StoreInv ==
  /\ TypesOK /\ EntriesOK /\ StagesOK /\ FreshOK /\ StoredOK /\ MemoryOK /\ UpdatingOK
  /\ DiskTimesOK /\ JobTimesOK /\ OthersOK

LEMMA StoresInitial == StoresInit => StoreInv
<1> SUFFICES ASSUME StoresInit PROVE StoreInv
  OBVIOUS
<1>1. DOMAIN jobs = {} /\ DOMAIN disk = {} /\ round = {} /\ updating = {} /\ pending = {}
  BY DEF StoresInit
<1>2. TypesOK
  <2>1. opt \in [Jobs -> OptionRecords]
    BY StoresAssumption DEF StoresInit, OptionRecords
  <2> QED BY <2>1 DEF StoresInit, TypesOK, Never
<1>3. EntriesOK /\ StagesOK /\ StoredOK /\ MemoryOK /\ UpdatingOK /\ DiskTimesOK /\ JobTimesOK
  BY <1>1 DEF StoresInit, EntriesOK, StagesOK, StoredOK, MemoryOK, UpdatingOK, DiskTimesOK, JobTimesOK
<1>4. FreshOK /\ OthersOK
  BY <1>1 DEF StoresInit, FreshOK, OthersOK
<1> QED BY <1>2, <1>3, <1>4 DEF StoreInv

\* The submissions and what is stored stay as they are.
LEMMA Steady ==
  ASSUME StoreInv, UNCHANGED <<kind, opt, trigger, since, times_run, cut, updating>>,
         clock' \in Nat \ {0}, now' \in Nat, loads' \in {loads, loads + 1},
         EntriesOK', StagesOK', FreshOK',
         \A j \in DOMAIN disk' : j \in DOMAIN disk /\ disk'[j] = disk[j],
         \A j \in DOMAIN jobs' : (j \in DOMAIN disk /\ jobs'[j] = disk[j] /\ loads' = loads + 1) \/
            (j \in DOMAIN jobs /\ jobs'[j] = jobs[j] /\ (scheduler = "dead" => scheduler' = "dead")),
         \A j \in updating : jobs'[j] = jobs[j]
  PROVE  StoreInv'
<1> USE DEF StoreInv
<1>1. TypesOK'
  BY DEF TypesOK
<1>2. StoredOK'
  BY DEF StoredOK, Open, Once, FireAt
<1>3. MemoryOK'
  BY DEF MemoryOK, EntriesOK, CountKept, Kept, DiskTimesOK
<1>4. UpdatingOK'
  BY DEF UpdatingOK, Once, FireAt, EntriesOK, StagesOK, Fires
<1>5. loads \in Nat /\ loads <= loads'
  BY DEF TypesOK
<1>6. DiskTimesOK'
  BY DEF DiskTimesOK, Kept, Fires, FireAt
<1>7. \A j \in Jobs, t \in Times : times_run[j][t] \in Nat
  BY DEF TypesOK
<1>8. OthersOK'
  <2> SUFFICES ASSUME NEW j \in Jobs, NEW t \in Times, ~Fires(j, t)
               PROVE  times_run[j][t] <= IF kind = "mongodb" THEN loads' ELSE 0
    BY DEF OthersOK, Fires, FireAt
  <2>1. times_run[j][t] <= IF kind = "mongodb" THEN loads ELSE 0
    BY DEF OthersOK
  <2> QED BY <1>5, <1>7, <2>1
<1>9. JobTimesOK'
  <2> SUFFICES ASSUME NEW j \in DOMAIN jobs', jobs'[j].next # Never, ~Fires(j, jobs'[j].next)
               PROVE  /\ kind = "mongodb" /\ Kept(jobs'[j].next) = jobs'[j].next
                      /\ jobs'[j].next \in Times => times_run[j][jobs'[j].next] + 1 <= loads'
    BY DEF JobTimesOK, Early, Fires, FireAt, Kept
  <2> DEFINE x == jobs'[j].next
  <2>1. CASE j \in DOMAIN disk /\ jobs'[j] = disk[j] /\ loads' = loads + 1
    <3>1. kind = "mongodb" /\ Kept(x) = x /\ j \in Jobs /\ ~Fires(j, x)
      BY <2>1 DEF DiskTimesOK, EntriesOK
    <3> HIDE DEF x
    <3>2. x \in Times => times_run[j][x] \in Nat /\ times_run[j][x] <= loads
      BY <1>7, <3>1 DEF OthersOK
    <3>3. x \in Times => times_run[j][x] + 1 <= loads'
      BY <1>5, <2>1, <3>2
    <3> QED BY <3>1, <3>3 DEF x
  <2>2. CASE j \in DOMAIN jobs /\ jobs'[j] = jobs[j]
    <3>1. Early(j, x) /\ j \in Jobs
      BY <2>2 DEF JobTimesOK, EntriesOK
    <3> HIDE DEF x
    <3>2. x \in Times => times_run[j][x] + 1 <= loads'
      BY <1>5, <1>7, <3>1 DEF Early
    <3> QED BY <3>1, <3>2 DEF Early, x
  <2> QED BY <2>1, <2>2
<1> QED BY <1>1, <1>2, <1>3, <1>4, <1>6, <1>8, <1>9

\* The clock, the ends of a round and of the thread, start and stop of the process.
LEMMA StageSteps ==
  ASSUME StoreInv,
         Tick \/ StopScheduler \/ RoundBegins \/ ThreadEnds \/ BeginAgain \/ UNCHANGED storeVars
           \/ (\E j \in Jobs : NothingDue(j) \/ SubmitRaises(j))
  PROVE  StoreInv'
<1> USE DEF StoreInv
<1>1. /\ UNCHANGED <<kind, opt, trigger, since, times_run, cut, updating, disk, jobs, attached,
                    pending, added, loads>>
      /\ scheduler' = "off" => scheduler \in {"off", "down"}
      /\ scheduler = "dead" => scheduler' = "dead"
  BY DEF Tick, StopScheduler, RoundBegins, ThreadEnds, BeginAgain, NothingDue, SubmitRaises,
         storeVars, given, history, bounds, loopState, Ends, Idle
<1>2. clock' \in Nat \ {0} /\ now' \in Nat
  BY DEF Tick, StopScheduler, RoundBegins, ThreadEnds, BeginAgain, NothingDue, SubmitRaises,
         storeVars, given, history, bounds, loopState, Ends, Idle, TypesOK
<1>3. EntriesOK'
  BY <1>1 DEF EntriesOK
<1>4. StagesOK'
  BY <1>1 DEF Tick, StopScheduler, RoundBegins, ThreadEnds, BeginAgain, NothingDue, SubmitRaises,
         storeVars, given, history, bounds, loopState, Ends, Idle, StagesOK
<1>5. FreshOK'
  BY <1>1 DEF FreshOK, StagesOK
<1>6. \A j \in DOMAIN jobs : jobs'[j] = jobs[j]
  BY <1>1
<1> QED BY <1>1, <1>2, <1>3, <1>4, <1>5, <1>6, Steady

\* What is loaded is part of what is stored.
LEMMA LoadedStored ==
  ASSUME TypesOK
  PROVE  DOMAIN Loaded \subseteq DOMAIN disk /\ \A j \in DOMAIN Loaded : Loaded[j] = disk[j]
<1>1. kind \in {"ram", "shelve", "sqlalchemy", "mongodb", "redis"}
  BY StoresAssumption DEF TypesOK
<1> QED BY <1>1 DEF Loaded, LoadRAM, LoadShelve, LoadSQLAlchemy, LoadMongoDB, LoadRedis

LEMMA AttachSteps ==
  ASSUME StoreInv, AddJobstore \/ RemoveJobstore \/ (\E S \in SUBSET Jobs : RemoveJobs(S))
  PROVE  StoreInv'
<1> USE DEF StoreInv
<1>1. /\ UNCHANGED <<kind, opt, clock, now, trigger, since, times_run, cut, updating, round,
                    scheduler, pending, added>>
      /\ updating = {} /\ round = {}
      /\ loads' \in {loads, loads + 1}
  BY DEF AddJobstore, RemoveJobstore, RemoveJobs, given, history, bounds, loopState, Idle
<1>2. CASE AddJobstore
  <2>1. attached' = TRUE /\ jobs' = Loaded /\ disk' = disk /\ loads' = loads + 1
    BY <1>2 DEF AddJobstore
  <2>2. EntriesOK'
    BY <2>1, LoadedStored DEF EntriesOK
  <2>3. StagesOK' /\ FreshOK'
    BY <1>1, <2>1 DEF StagesOK, FreshOK
  <2> QED BY <1>1, <2>1, <2>2, <2>3, LoadedStored, Steady DEF TypesOK
<1>3. CASE RemoveJobstore
  <2>1. /\ attached' = FALSE /\ DOMAIN jobs' = {} /\ DOMAIN disk' \subseteq DOMAIN disk
        /\ \A j \in DOMAIN disk' : disk'[j] = disk[j]
    BY <1>3 DEF RemoveJobstore
  <2>2. EntriesOK' /\ StagesOK' /\ FreshOK'
    BY <1>1, <2>1 DEF EntriesOK, StagesOK, FreshOK
  <2> QED BY <1>1, <2>1, <2>2, Steady DEF TypesOK
<1>4. ASSUME NEW S \in SUBSET Jobs, RemoveJobs(S) PROVE StoreInv'
  <2>1. /\ attached' = attached
        /\ DOMAIN jobs' = DOMAIN jobs \ S /\ DOMAIN disk' = DOMAIN disk \ S
        /\ \A j \in DOMAIN disk' : disk'[j] = disk[j]
        /\ \A j \in DOMAIN jobs' : jobs'[j] = jobs[j]
    BY <1>4 DEF RemoveJobs, Drop
  <2>2. EntriesOK' /\ StagesOK' /\ FreshOK'
    BY <1>1, <2>1 DEF EntriesOK, StagesOK, FreshOK
  <2> QED BY <1>1, <2>1, <2>2, Steady DEF TypesOK
<1> QED BY <1>2, <1>3, <1>4

\* A job that is given to the store: nothing else changes.
LEMMA Added ==
  ASSUME StoreInv, UNCHANGED <<kind, opt, times_run, cut, updating, loads>>, updating = {},
         TypesOK', EntriesOK', StagesOK', FreshOK', scheduler # "dead",
         NEW S \in SUBSET Jobs, DOMAIN disk' = DOMAIN disk \union S, DOMAIN jobs' = DOMAIN jobs \union S,
         \A j \in DOMAIN disk \ S :
           disk'[j] = disk[j] /\ trigger'[j] = trigger[j] /\ since'[j] = since[j],
         \A j \in DOMAIN jobs \ S : jobs'[j] = jobs[j],
         \A j \in S : /\ since'[j] = Never \/ FireAt(opt[j], trigger'[j], since'[j]) = since'[j]
                      /\ jobs'[j].next = since'[j] /\ disk'[j].next = Kept(since'[j])
                      /\ jobs'[j].runs = disk'[j].runs,
         \A j \in Jobs : trigger'[j] # trigger[j] \/ j \in S =>
           \A t \in Times : times_run[j][t] = 0
  PROVE  StoreInv'
<1> USE DEF StoreInv
<1>1. StoredOK'
  <2> SUFFICES ASSUME NEW j \in DOMAIN disk'
               PROVE  Once(opt[j], trigger'[j], since'[j], times_run[j], cut[j], disk'[j].next)
    BY DEF StoredOK, Open, Once, FireAt, TypesOK, EntriesOK
  <2>1. CASE j \in S
    <3>1. since'[j] \in Nat /\ cut[j] \in Nat
      BY <2>1 DEF TypesOK
    <3>2. Kept(since'[j]) \in Nat /\ Kept(since'[j]) <= since'[j]
      BY <3>1, KeptOf
    <3>3. Once(opt[j], trigger'[j], since'[j], times_run[j], cut[j], Kept(since'[j]))
      BY <2>1, <3>1, <3>2, OnceNew
    <3> QED BY <2>1, <3>3
  <2>2. CASE j \notin S
    <3>1. j \in DOMAIN disk /\ disk'[j] = disk[j] /\ trigger'[j] = trigger[j] /\ since'[j] = since[j]
      BY <2>2
    <3>2. cut[j] + Open(j) = cut[j]
      BY <3>1 DEF Open, TypesOK, EntriesOK
    <3>3. Once(opt[j], trigger[j], since[j], times_run[j], cut[j], disk[j].next)
      BY <3>1, <3>2 DEF StoredOK
    <3> QED BY <3>1, <3>3
  <2> QED BY <2>1, <2>2
<1>2. MemoryOK'
  BY DEF MemoryOK, EntriesOK, CountKept, Kept
<1>3. UpdatingOK'
  BY DEF UpdatingOK
<1>4. DiskTimesOK'
  <2> SUFFICES ASSUME NEW j \in DOMAIN disk'
               PROVE  /\ Kept(disk'[j].next) = disk'[j].next
                      /\ \/ disk'[j].next = Never
                         \/ FireAt(opt[j], trigger'[j], disk'[j].next) = disk'[j].next
                         \/ kind = "mongodb"
    BY DEF DiskTimesOK, Kept, Fires, FireAt
  <2>1. CASE j \in S
    <3>1. since'[j] \in Nat
      BY <2>1 DEF TypesOK
    <3> QED BY <2>1, <3>1, KeptOf
  <2>2. CASE j \notin S
    BY <2>2 DEF DiskTimesOK, Fires
  <2> QED BY <2>1, <2>2
<1>5. JobTimesOK'
  <2> SUFFICES ASSUME NEW j \in DOMAIN jobs'
               PROVE  \/ jobs'[j].next = Never
                      \/ FireAt(opt[j], trigger'[j], jobs'[j].next) = jobs'[j].next
                      \/ Early(j, jobs'[j].next)
    BY DEF JobTimesOK, Early, Kept, Fires, FireAt
  <2>1. CASE j \in S
    BY <2>1
  <2>2. CASE j \notin S
    BY <2>2 DEF JobTimesOK, Fires, EntriesOK
  <2> QED BY <2>1, <2>2
<1>6. OthersOK'
  <2> SUFFICES ASSUME NEW j \in Jobs, NEW t \in Times, FireAt(opt[j], trigger'[j], t) # t
               PROVE  times_run[j][t] <= IF kind = "mongodb" THEN loads ELSE 0
    BY DEF OthersOK, Fires, FireAt
  <2>1. CASE trigger'[j] # trigger[j]
    BY <2>1 DEF TypesOK
  <2>2. CASE trigger'[j] = trigger[j]
    BY <2>2 DEF OthersOK, Fires
  <2> QED BY <2>1, <2>2
<1> QED BY <1>1, <1>2, <1>3, <1>4, <1>5, <1>6

LEMMA AddJobInv ==
  ASSUME StoreInv, NEW j \in Jobs, NEW first \in Nat, AddJob(j, first),
         opt[j].interval # 0 => clock <= first
  PROVE  StoreInv'
<1> USE DEF StoreInv
<1>1. /\ UNCHANGED <<kind, opt, clock, now, scheduler, attached, round, updating, times_run, cut,
                    loads>>
      /\ j \notin added /\ added' = added \union {j} /\ trigger' = [trigger EXCEPT ![j] = first]
      /\ updating = {} /\ round = {} /\ scheduler \in {"off", "running"}
  BY DEF AddJob, given, bounds, loopState, Idle
<1>2. /\ j \notin pending /\ j \notin DOMAIN disk /\ j \notin DOMAIN jobs
      /\ \A t \in Times : times_run[j][t] = 0
  BY <1>1 DEF FreshOK, EntriesOK
<1>3. /\ \A i \in Jobs : trigger'[i] # trigger[i] => i = j
      /\ \A i \in DOMAIN disk : trigger'[i] = trigger[i]
      /\ trigger'[j] = first
  BY <1>1, <1>2 DEF TypesOK, EntriesOK
<1>4. ASSUME UNCHANGED <<jobs, disk, since>>, pending' = pending \/ pending' = pending \union {j},
             scheduler = "running" => pending' = pending
      PROVE  StoreInv'
  <2>1. TypesOK' /\ EntriesOK' /\ StagesOK' /\ FreshOK'
    BY <1>1, <1>2, <1>4 DEF TypesOK, EntriesOK, StagesOK, FreshOK
  <2> QED BY <1>1, <1>2, <1>3, <1>4, <2>1, Added
<1>5. CASE scheduler = "off"
  BY <1>4, <1>5 DEF AddJob
<1>6. CASE scheduler = "running" /\ (opt[j].interval = 0 /\ first < clock)
  BY <1>4, <1>6 DEF AddJob, RealAddJob
<1>7. CASE scheduler = "running" /\ ~(opt[j].interval = 0 /\ first < clock)
  <2> DEFINE new == [next |-> first, runs |-> 0]
             kept == [next |-> Kept(first), runs |-> 0]
  <2>1. /\ attached /\ pending' = pending /\ jobs' = With(jobs, j, new) /\ disk' = With(disk, j, kept)
        /\ since' = [since EXCEPT ![j] = first]
    BY <1>7 DEF AddJob, RealAddJob
  <2>2. /\ new \in Entries /\ new.next = first /\ new.runs = kept.runs
        /\ kept \in Entries /\ kept.next = Kept(first)
    BY KeptOf DEF Entries
  <2> HIDE DEF new, kept
  <2>3. /\ DOMAIN jobs' = DOMAIN jobs \union {j} /\ DOMAIN disk' = DOMAIN disk \union {j}
        /\ jobs'[j] = new /\ disk'[j] = kept
        /\ \A i \in DOMAIN jobs \ {j} : jobs'[i] = jobs[i]
        /\ \A i \in DOMAIN disk \ {j} : disk'[i] = disk[i]
    BY <2>1 DEF With
  <2>4. TypesOK' /\ since'[j] = first /\ \A i \in DOMAIN disk : since'[i] = since[i]
    BY <1>1, <1>2, <2>1 DEF TypesOK, EntriesOK
  <2>5. EntriesOK'
    BY <2>2, <2>3 DEF EntriesOK
  <2>6. StagesOK' /\ FreshOK'
    BY <1>1, <1>2, <1>7, <2>1, <2>3 DEF StagesOK, FreshOK
  <2>7. /\ {j} \in SUBSET Jobs /\ scheduler # "dead"
        /\ FireAt(opt[j], first, first) = first
    BY <1>7 DEF FireAt
  <2>8. \A i \in {j} : /\ FireAt(opt[i], trigger'[i], since'[i]) = since'[i]
                       /\ jobs'[i].next = since'[i] /\ disk'[i].next = Kept(since'[i])
                       /\ jobs'[i].runs = disk'[i].runs
    BY <1>3, <2>2, <2>3, <2>4, <2>7
  <2> DEFINE S == {j}
  <2>9. /\ S \in SUBSET Jobs /\ scheduler # "dead"
        /\ DOMAIN disk' = DOMAIN disk \union S /\ DOMAIN jobs' = DOMAIN jobs \union S
        /\ \A i \in DOMAIN jobs \ S : jobs'[i] = jobs[i]
    BY <2>3, <2>7
  <2>10. \A i \in DOMAIN disk \ S :
           disk'[i] = disk[i] /\ trigger'[i] = trigger[i] /\ since'[i] = since[i]
    BY <1>3, <2>3, <2>4
  <2>11. \A i \in Jobs : trigger'[i] # trigger[i] \/ i \in S =>
           \A t \in Times : times_run[i][t] = 0
    BY <1>2, <1>3
  <2>12. \A i \in S : /\ since'[i] = Never \/ FireAt(opt[i], trigger'[i], since'[i]) = since'[i]
                      /\ jobs'[i].next = since'[i] /\ disk'[i].next = Kept(since'[i])
                      /\ jobs'[i].runs = disk'[i].runs
    BY <2>8
  <2> HIDE DEF S
  <2> QED BY <1>1, <2>4, <2>5, <2>6, <2>9, <2>10, <2>11, <2>12, Added
<1> QED BY <1>1, <1>5, <1>6, <1>7

LEMMA AddSteps ==
  ASSUME StoreInv, NEW j \in Jobs, AddDateJob(j) \/ AddIntervalJob(j)
  PROVE  StoreInv'
<1>1. CASE AddDateJob(j)
  BY <1>1, AddJobInv, StoresAssumption DEF AddDateJob
<1>2. CASE AddIntervalJob(j)
  <2>1. clock \in Nat /\ opt[j].interval \in Nat
    BY DEF StoreInv, TypesOK, OptionRecords
  <2>2. clock + opt[j].interval \in Nat /\ clock <= clock + opt[j].interval
    BY <2>1
  <2> QED BY <1>2, <2>2, AddJobInv DEF AddIntervalJob
<1> QED BY <1>1, <1>2

LEMMA StartInv == ASSUME StoreInv, Start PROVE StoreInv'
<1> USE DEF StoreInv
<1>1. PICK S \in SUBSET {j \in pending : ~Over(j)} :
        /\ IF \E j \in pending : Over(j)
           THEN scheduler' = "dead" /\ UNCHANGED pending
           ELSE scheduler' = "running" /\ S = pending /\ pending' = {}
        /\ since' = [j \in Jobs |-> IF j \in S THEN FireTime(j, clock) ELSE since[j]]
        /\ jobs' = WithFirst(jobs, S, since')
        /\ disk' = WithFirst(disk, S, [j \in S |-> Kept(since'[j])])
  BY DEF Start
<1>2. /\ UNCHANGED <<kind, opt, clock, now, attached, added, trigger, round, updating, times_run, cut,
                    loads>>
      /\ scheduler = "off" /\ attached /\ round = {} /\ updating = {}
  BY DEF Start, given, bounds, loopState, StagesOK
<1>3. S \subseteq Jobs /\ S \subseteq pending
  BY DEF StagesOK
<1>4. \A j \in S : /\ j \notin DOMAIN disk /\ FireTime(j, clock) \in Nat
                   /\ FireTime(j, clock) = Never \/ Fires(j, FireTime(j, clock))
                   /\ \A t \in Times : times_run[j][t] = 0
  <2> SUFFICES ASSUME NEW j \in S
               PROVE  /\ j \notin DOMAIN disk /\ FireTime(j, clock) \in Nat
                      /\ FireTime(j, clock) = Never \/ Fires(j, FireTime(j, clock))
                      /\ \A t \in Times : times_run[j][t] = 0
    OBVIOUS
  <2>1. opt[j] \in OptionRecords /\ trigger[j] \in Nat /\ clock \in Nat
    BY <1>3 DEF TypesOK
  <2>2. FireTime(j, clock) \in Nat
    BY <2>1, FireAtFirst, FireTimeAt
  <2>3. FireTime(j, clock) = Never \/ Fires(j, FireTime(j, clock))
    BY <2>1, FireAtFires, FireTimeAt DEF Fires
  <2> QED BY <1>2, <1>3, <2>2, <2>3 DEF FreshOK
<1>5. /\ DOMAIN jobs' = DOMAIN jobs \union S /\ DOMAIN disk' = DOMAIN disk \union S
      /\ \A j \in S : /\ jobs'[j] = [next |-> since'[j], runs |-> 0]
                     /\ disk'[j] = [next |-> Kept(since'[j]), runs |-> 0]
      /\ \A j \in DOMAIN jobs \ S : jobs'[j] = jobs[j]
      /\ \A j \in DOMAIN disk \ S : disk'[j] = disk[j]
  BY <1>1 DEF WithFirst
<1>6. /\ \A j \in S : since'[j] = FireTime(j, clock)
      /\ \A j \in DOMAIN disk \ S : since'[j] = since[j]
      /\ since' \in [Jobs -> Nat]
  BY <1>1, <1>3, <1>4 DEF TypesOK, EntriesOK
<1>9. \A j \in S : jobs'[j] \in Entries /\ disk'[j] \in Entries
  <2> SUFFICES ASSUME NEW j \in S PROVE jobs'[j] \in Entries /\ disk'[j] \in Entries
    OBVIOUS
  <2>1. since'[j] \in Nat
    BY <1>4, <1>6
  <2>2. Kept(since'[j]) \in Nat
    BY <2>1, KeptOf
  <2> QED BY <1>5, <2>1, <2>2 DEF Entries
<1>10. \A j \in S :
         /\ since'[j] = Never \/ FireAt(opt[j], trigger'[j], since'[j]) = since'[j]
         /\ jobs'[j].next = since'[j] /\ disk'[j].next = Kept(since'[j])
         /\ jobs'[j].runs = disk'[j].runs
  BY <1>2, <1>4, <1>5, <1>6 DEF Fires
<1>7. TypesOK' /\ EntriesOK'
  BY <1>2, <1>3, <1>5, <1>6, <1>9 DEF TypesOK, EntriesOK
<1>8. StagesOK' /\ FreshOK'
  BY <1>1, <1>2, <1>3, <1>5 DEF StagesOK, FreshOK
<1> QED BY <1>2, <1>3, <1>4, <1>5, <1>6, <1>7, <1>8, <1>10, Added

LEMMA SubmitInv == ASSUME StoreInv, NEW j \in Jobs, SubmitRuns(j) PROVE StoreInv'
<1> USE DEF StoreInv
<1> DEFINE o == opt[j]
           first == trigger[j]
           next == jobs[j].next
           n == jobs[j].runs + (IF opt[j].coalesce THEN 1 ELSE Cardinality(RunTimes(j)))
<1>1. /\ UNCHANGED <<kind, opt, clock, scheduler, attached, pending, added, trigger, disk, round, now,
                    since, cut, loads>>
      /\ j \in round /\ updating = {} /\ updating' = {j} /\ scheduler = "running" /\ RunTimes(j) # {}
      /\ times_run' = [times_run EXCEPT ![j] =
                         [t \in Times |-> IF t \in RunTimes(j) THEN times_run[j][t] + 1
                                         ELSE times_run[j][t]]]
      /\ jobs' = [jobs EXCEPT ![j] = [next |-> NextTime(j, n, now + 1), runs |-> n]]
  BY DEF SubmitRuns, given, bounds
<1>2. /\ j \in DOMAIN jobs /\ j \in DOMAIN disk /\ jobs[j] \in Entries /\ o \in OptionRecords
      /\ first \in Nat /\ now \in Nat /\ cut[j] \in Nat /\ since[j] \in Nat
      /\ times_run[j] \in [Times -> Nat] /\ next \in Nat /\ jobs[j].runs \in Nat
  BY <1>1 DEF StagesOK, EntriesOK, TypesOK, Entries
<1>3. RunTimes(j) = {t \in next..now : t = next \/ FireAt(o, first, t) = t} /\ next <= now
  <2>1. RunTimes(j) = {t \in next..now : t = next \/ FireTime(j, t) = t}
    BY <1>1 DEF RunTimes
  <2>2. next <= now
    BY <1>1, <1>2, <2>1
  <2> QED BY <2>1, <2>2, FireTimeAt
<1>4. n \in Nat
  <2>1. IsFiniteSet(next..now)
    <3>1. next \in Int /\ now \in Int
      BY <1>2
    <3> HIDE DEF next
    <3> QED BY <3>1, FS_Interval
  <2>2. RunTimes(j) \subseteq next..now
    BY <1>3
  <2>3. Cardinality(RunTimes(j)) \in Nat
    BY <2>1, <2>2, FS_Subset, FS_CardinalityType
  <2> QED BY <1>2, <2>3
<1>5. disk[j].next = Kept(next) /\ (CountKept(j) => jobs[j].runs = disk[j].runs)
  BY <1>1, <1>2 DEF MemoryOK
<1>18. FireAt(o, first, next) = next \/ Kept(next) = next
  <2>1. Kept(0) = 0
    BY KeptOf
  <2> QED BY <1>2, <2>1 DEF JobTimesOK, Fires, Early, Never
<1>6. Once(o, first, since[j], times_run[j], cut[j], next)
  <2>1. cut[j] + Open(j) = cut[j]
    BY <1>1, <1>2 DEF Open
  <2>2. Once(o, first, since[j], times_run[j], cut[j], Kept(next))
    BY <1>2, <1>5, <2>1 DEF StoredOK
  <2> HIDE DEF o, first, next
  <2> QED BY <1>2, <1>18, <2>2, OnceKept
<1> DEFINE ran == [t \in Times |-> IF t \in RunTimes(j) THEN times_run[j][t] + 1 ELSE times_run[j][t]]
           f == FireAt(o, first, now + 1)
           nx == NextTime(j, n, now + 1)
<1>7. /\ ran \in [Times -> Nat]
      /\ Once(o, first, since[j], ran, cut[j] + 1, next)
      /\ f # Never => Once(o, first, since[j], ran, cut[j], f)
  <2> DEFINE run == times_run[j]
             c == cut[j]
             s == since[j]
  <2>1. \A t \in Times : FireAt(o, first, t) = t =>
          ran[t] = IF t \in next..now THEN run[t] + 1 ELSE run[t]
    BY <1>3
  <2>2. /\ o \in OptionRecords /\ first \in Nat /\ s \in Nat /\ run \in [Times -> Nat]
        /\ c \in Nat /\ next \in Nat /\ now \in Nat /\ next <= now
    BY <1>2, <1>3
  <2>3. Once(o, first, s, run, c, next)
    BY <1>6
  <2>4. ran \in [Times -> Nat]
    BY <1>2
  <2> HIDE DEF ran, o, first, next, run, c, s
  <2>5. /\ Once(o, first, s, ran, c + 1, next)
        /\ f # Never => Once(o, first, s, ran, c, f)
    BY <2>1, <2>2, <2>3, OnceSubmitted
  <2> QED BY <2>4, <2>5 DEF s, c
<1>8. nx \in {Never, f} /\ f \in Nat /\ (f # Never => FireAt(o, first, f) = f)
  <2>1. nx \in {Never, f}
    BY FireTimeAt DEF NextTime
  <2>2. f \in Nat
    <3>1. now + 1 \in Nat
      BY <1>2
    <3> HIDE DEF o, first
    <3> QED BY <1>2, <3>1, FireAtFirst, Zenon
  <2>3. f # Never => FireAt(o, first, f) = f
    <3>1. now + 1 \in Nat
      BY <1>2
    <3> HIDE DEF o, first
    <3> QED BY <1>2, <3>1, FireAtFires, Zenon
  <2> QED BY <2>1, <2>2, <2>3
<1>9. times_run' = [times_run EXCEPT ![j] = ran] /\ jobs' = [jobs EXCEPT ![j] = [next |-> nx, runs |-> n]]
  BY <1>1
<1>10. o.coalesce => n = jobs[j].runs + 1
  OBVIOUS
<1> HIDE DEF n, ran, nx, f
<1>11. TypesOK'
  BY <1>1, <1>7, <1>9 DEF TypesOK
<1>12. /\ DOMAIN jobs' = DOMAIN jobs /\ jobs'[j].next = nx /\ jobs'[j].runs = n /\ jobs'[j] \in Entries
       /\ \A i \in DOMAIN jobs \ {j} : jobs'[i] = jobs[i]
       /\ times_run'[j] = ran /\ \A i \in Jobs \ {j} : times_run'[i] = times_run[i]
  <2>1. nx \in Nat
    BY <1>8 DEF Never
  <2> QED BY <1>2, <1>4, <1>9, <2>1 DEF Entries, TypesOK
<1>13. EntriesOK' /\ StagesOK'
  BY <1>1, <1>12 DEF EntriesOK, StagesOK
<1>14. FreshOK'
  BY <1>1, <1>2, <1>12 DEF FreshOK
<1>15. StoredOK'
  <2> SUFFICES ASSUME NEW i \in DOMAIN disk
               PROVE  Once(opt[i], trigger[i], since[i], times_run'[i], cut[i] + (IF i = j THEN 1 ELSE 0),
                           disk[i].next)
    BY <1>1 DEF StoredOK, Open, Once, FireAt
  <2>1. CASE i = j
    <3>1. Once(o, first, since[j], ran, cut[j] + 1, Kept(next))
      <4> HIDE DEF o, first, next
      <4> QED BY <1>2, <1>7, <1>18, OnceKept
    <3> QED BY <1>5, <1>12, <2>1, <3>1
  <2>2. CASE i # j
    <3>1. Once(opt[i], trigger[i], since[i], times_run[i], cut[i] + 0, disk[i].next)
      BY <1>1 DEF StoredOK, Open
    <3>2. times_run'[i] = times_run[i]
      BY <1>12, <2>2 DEF EntriesOK
    <3> QED BY <2>2, <3>1, <3>2
  <2> QED BY <2>1, <2>2
<1>16. MemoryOK'
  BY <1>1, <1>12 DEF MemoryOK, CountKept, Kept
<1>17. UpdatingOK'
  <2>1. jobs'[j].next # Never =>
          /\ Once(opt[j], trigger[j], since[j], times_run'[j], cut[j], jobs'[j].next)
          /\ Fires(j, jobs'[j].next)
    BY <1>7, <1>8, <1>12 DEF Fires
  <2>2. kind = "mongodb" /\ opt[j].coalesce => jobs'[j].runs = disk[j].runs + 1
    BY <1>5, <1>10, <1>12 DEF CountKept
  <2> QED BY <1>1, <2>1, <2>2 DEF UpdatingOK, Once, FireAt, Fires
<1>19. DiskTimesOK'
  BY <1>1 DEF DiskTimesOK, Kept, Fires, FireAt
<1>20. JobTimesOK'
  <2> SUFFICES ASSUME NEW i \in DOMAIN jobs
               PROVE  \/ jobs'[i].next = Never \/ Fires(i, jobs'[i].next)
                      \/ /\ kind = "mongodb" /\ Kept(jobs'[i].next) = jobs'[i].next
                         /\ jobs'[i].next \in Times => times_run'[i][jobs'[i].next] + 1 <= loads
    BY <1>1, <1>12 DEF JobTimesOK, Early, Kept, Fires, FireAt
  <2>1. CASE i = j
    BY <1>8, <1>12, <2>1 DEF Fires
  <2>2. CASE i # j
    BY <1>12, <2>2 DEF JobTimesOK, Early, EntriesOK
  <2> QED BY <2>1, <2>2
<1>21. OthersOK'
  <2> SUFFICES ASSUME NEW i \in Jobs, NEW t \in Times, ~Fires(i, t)
               PROVE  times_run'[i][t] <= IF kind = "mongodb" THEN loads ELSE 0
    BY <1>1 DEF OthersOK, Fires, FireAt
  <2>1. times_run[i][t] <= IF kind = "mongodb" THEN loads ELSE 0
    BY DEF OthersOK
  <2>2. CASE i = j /\ t \in RunTimes(j)
    <3>1. t = next /\ t # Never
      BY <1>3, <2>2, StoresAssumption DEF Fires, Times, Never
    <3>2. Early(j, t)
      BY <1>2, <2>2, <3>1 DEF JobTimesOK
    <3> QED BY <1>12, <2>2, <3>2 DEF Early, ran
  <2>3. CASE ~(i = j /\ t \in RunTimes(j))
    <3>1. times_run'[i][t] = times_run[i][t]
      BY <1>12, <2>3 DEF ran
    <3> QED BY <2>1, <3>1
  <2> QED BY <2>2, <2>3
<1> QED BY <1>11, <1>13, <1>14, <1>15, <1>16, <1>17, <1>19, <1>20, <1>21

LEMMA WrittenEntry ==
  ASSUME StoreInv, NEW j \in updating
  PROVE  LET w == Written(j, jobs[j], disk[j].runs) IN
         w \in Entries /\ w.next = Kept(jobs[j].next) /\ (CountKept(j) => w.runs = jobs[j].runs)
<1>1. /\ j \in DOMAIN disk /\ j \in DOMAIN jobs /\ jobs[j] \in Entries /\ disk[j] \in Entries
      /\ kind = "mongodb" /\ opt[j].coalesce => jobs[j].runs = disk[j].runs + 1
      /\ kind \in {"ram", "shelve", "sqlalchemy", "mongodb", "redis"}
  BY StoresAssumption DEF StoreInv, StagesOK, EntriesOK, UpdatingOK, TypesOK
<1>2. disk[j].runs + 1 \in Nat
  BY <1>1 DEF Entries
<1>3. CASE kind = "mongodb"
  <2>3. jobs[j].next \in Nat
    BY <1>1 DEF Entries
  <2>4. Milliseconds(jobs[j].next) \in Nat
    BY <2>3, MillisecondsOf
  <2>1. UpdateMongoDB(jobs[j], disk[j].runs) \in Entries
    BY <1>1, <1>2, <2>4 DEF UpdateMongoDB, Entries
  <2>2. /\ UpdateMongoDB(jobs[j], disk[j].runs).next = Kept(jobs[j].next)
        /\ UpdateMongoDB(jobs[j], disk[j].runs).runs = disk[j].runs + 1
    BY <1>1, <1>2, <1>3 DEF UpdateMongoDB, Entries, Kept
  <2> QED BY <1>1, <1>3, <2>1, <2>2 DEF Written, CountKept
<1>4. CASE kind # "mongodb"
  BY <1>1, <1>4 DEF Written, UpdateShelve, UpdateSQLAlchemy, UpdateRedis, Kept
<1> QED BY <1>3, <1>4

\* The update is over, whatever it did, if what is stored then is right.
LEMMA Updated ==
  ASSUME StoreInv, NEW j \in updating,
         UNCHANGED <<kind, opt, clock, now, trigger, since, times_run, loads>>,
         updating' = {}, EntriesOK', StagesOK', FreshOK',
         cut' \in [Jobs -> Nat], \A i \in Jobs \ {j} : cut'[i] = cut[i],
         \A i \in DOMAIN disk' \ {j} : i \in DOMAIN disk /\ disk'[i] = disk[i],
         j \in DOMAIN disk' =>
           /\ Once(opt[j], trigger[j], since[j], times_run[j], cut'[j], disk'[j].next)
           /\ disk'[j] = disk[j] \/ disk'[j].next = Kept(jobs[j].next),
         j \in DOMAIN jobs' => jobs'[j] = jobs[j],
         scheduler' = "dead" => kind # "ram",
         \A i \in DOMAIN jobs' \ {j} : jobs'[i] = jobs[i] /\ scheduler # "dead",
         j \in DOMAIN jobs' /\ scheduler' # "dead" =>
           Kept(jobs'[j].next) = disk'[j].next /\ (CountKept(j) => jobs'[j].runs = disk'[j].runs),
         DOMAIN jobs' \subseteq DOMAIN jobs
  PROVE  StoreInv'
<1> USE DEF StoreInv
<1>1. TypesOK'
  BY DEF TypesOK
<1>2. \A i \in updating : i = j
  BY DEF StagesOK
<1>3. StoredOK'
  <2> SUFFICES ASSUME NEW i \in DOMAIN disk'
               PROVE  Once(opt[i], trigger[i], since[i], times_run[i], cut'[i], disk'[i].next)
    BY <1>1 DEF StoredOK, Open, Once, FireAt, TypesOK, EntriesOK
  <2>1. CASE i = j
    BY <2>1
  <2>2. CASE i # j
    <3>1. i \in DOMAIN disk /\ disk'[i] = disk[i] /\ cut'[i] = cut[i] /\ cut[i] \in Nat
      BY <2>2 DEF EntriesOK, TypesOK
    <3>2. cut[i] + Open(i) = cut[i]
      BY <1>2, <2>2, <3>1 DEF Open
    <3>3. Once(opt[i], trigger[i], since[i], times_run[i], cut[i], disk[i].next)
      BY <3>1, <3>2 DEF StoredOK
    <3> QED BY <3>1, <3>3
  <2> QED BY <2>1, <2>2
<1>4. MemoryOK'
  <2> SUFFICES ASSUME NEW i \in DOMAIN jobs', kind = "ram" \/ scheduler' # "dead"
               PROVE  Kept(jobs'[i].next) = disk'[i].next /\ (CountKept(i) => jobs'[i].runs = disk'[i].runs)
    BY DEF MemoryOK, CountKept, Kept
  <2>1. CASE i = j
    BY <2>1
  <2>2. CASE i # j
    BY <1>2, <2>2 DEF MemoryOK, EntriesOK
  <2> QED BY <2>1, <2>2
<1>5. UpdatingOK'
  BY DEF UpdatingOK
<1>6. \A i \in DOMAIN jobs' : i \in DOMAIN jobs /\ jobs'[i] = jobs[i]
  OBVIOUS
<1>7. JobTimesOK' /\ OthersOK'
  BY <1>6 DEF JobTimesOK, OthersOK, Early, Kept, Fires, FireAt
<1>8. DiskTimesOK'
  <2> SUFFICES ASSUME NEW i \in DOMAIN disk'
               PROVE  /\ Kept(disk'[i].next) = disk'[i].next
                      /\ \/ disk'[i].next = Never \/ Fires(i, disk'[i].next) \/ kind = "mongodb"
    BY DEF DiskTimesOK, Kept, Fires, FireAt
  <2>1. CASE i = j /\ disk'[i] # disk[i]
    <3>1. jobs[j] \in Entries /\ j \in DOMAIN jobs
      BY DEF StagesOK, EntriesOK
    <3>2. jobs[j].next \in Nat
      BY <3>1 DEF Entries
    <3>3. jobs[j].next = Never \/ Fires(j, jobs[j].next)
      BY DEF UpdatingOK
    <3> QED BY <2>1, <3>2, <3>3, KeptOf
  <2>2. CASE i # j \/ disk'[i] = disk[i]
    <3>1. i \in DOMAIN disk /\ disk'[i] = disk[i]
      BY <2>2 DEF StagesOK, EntriesOK
    <3> QED BY <3>1 DEF DiskTimesOK
  <2> QED BY <2>1, <2>2
<1> QED BY <1>1, <1>3, <1>4, <1>5, <1>7, <1>8

LEMMA UpdateInv == ASSUME StoreInv, NEW j \in Jobs, Update(j) PROVE StoreInv'
<1> USE DEF StoreInv
<1>1. /\ UNCHANGED <<kind, opt, clock, scheduler, attached, pending, added, trigger, now, since,
                    times_run, cut, loads>>
      /\ j \in updating /\ updating' = {} /\ round' = round \ {j} /\ scheduler \in {"running", "stopping"}
  BY DEF Update, given, history, bounds
<1>2. j \in DOMAIN jobs /\ j \in DOMAIN disk /\ cut \in [Jobs -> Nat]
  BY <1>1 DEF StagesOK, EntriesOK, TypesOK
<1>3. CASE jobs[j].next = Never
  <2>1. jobs' = Drop(jobs, {j}) /\ disk' = Drop(disk, {j})
    BY <1>3 DEF Update
  <2>2. /\ DOMAIN jobs' = DOMAIN jobs \ {j} /\ DOMAIN disk' = DOMAIN disk \ {j}
        /\ \A i \in DOMAIN jobs' : jobs'[i] = jobs[i]
        /\ \A i \in DOMAIN disk' : disk'[i] = disk[i]
    BY <2>1 DEF Drop
  <2>3. EntriesOK' /\ StagesOK' /\ FreshOK'
    BY <1>1, <2>2 DEF EntriesOK, StagesOK, FreshOK
  <2> QED BY <1>1, <1>2, <2>2, <2>3, Updated
<1>4. CASE jobs[j].next # Never
  <2> DEFINE w == Written(j, jobs[j], disk[j].runs)
  <2>1. jobs' = jobs /\ disk' = With(disk, j, w)
    BY <1>4 DEF Update
  <2>2. w \in Entries /\ w.next = Kept(jobs[j].next) /\ (CountKept(j) => w.runs = jobs[j].runs)
    BY <1>1, WrittenEntry
  <2> HIDE DEF w
  <2>3. /\ DOMAIN disk' = DOMAIN disk /\ disk'[j] = w
        /\ \A i \in DOMAIN disk \ {j} : disk'[i] = disk[i]
    BY <1>2, <2>1 DEF With
  <2>4. EntriesOK' /\ StagesOK' /\ FreshOK'
    BY <1>1, <2>1, <2>2, <2>3 DEF EntriesOK, StagesOK, FreshOK
  <2>5. Once(opt[j], trigger[j], since[j], times_run[j], cut[j], Kept(jobs[j].next))
    <3> DEFINE next == jobs[j].next
    <3>1. /\ Once(opt[j], trigger[j], since[j], times_run[j], cut[j], next)
          /\ FireAt(opt[j], trigger[j], next) = next
      BY <1>1, <1>4 DEF UpdatingOK, Fires
    <3>2. next \in Nat /\ opt[j] \in OptionRecords /\ trigger[j] \in Nat
      BY <1>2 DEF EntriesOK, Entries, TypesOK
    <3> HIDE DEF next
    <3>3. Once(opt[j], trigger[j], since[j], times_run[j], cut[j], Kept(next))
      BY <3>1, <3>2, OnceKept
    <3> QED BY <3>3 DEF next
  <2> QED BY <1>1, <1>2, <2>1, <2>2, <2>3, <2>4, <2>5, Updated
<1> QED BY <1>3, <1>4

\* What is stored is one submission behind: the one that is counted as cut off.
LEMMA CutOff ==
  ASSUME StoreInv, NEW j \in updating
  PROVE  Once(opt[j], trigger[j], since[j], times_run[j], cut[j] + 1, disk[j].next)
BY DEF StoreInv, StoredOK, Open, StagesOK, EntriesOK

LEMMA UpdateRaisesInv == ASSUME StoreInv, NEW j \in Jobs, UpdateRaises(j) PROVE StoreInv'
<1> USE DEF StoreInv
<1>1. /\ UNCHANGED <<kind, opt, clock, attached, pending, added, trigger, jobs, disk, now, since,
                    times_run, loads>>
      /\ j \in updating /\ kind # "ram" /\ scheduler' = "dead" /\ scheduler # "dead"
      /\ round' = {} /\ updating' = {} /\ cut' = [cut EXCEPT ![j] = cut[j] + 1]
  BY DEF UpdateRaises, given, Ends
<1>2. /\ cut' \in [Jobs -> Nat] /\ cut'[j] = cut[j] + 1
      /\ \A i \in Jobs \ {j} : cut'[i] = cut[i]
  BY <1>1 DEF TypesOK
<1>3. EntriesOK' /\ StagesOK' /\ FreshOK'
  BY <1>1 DEF EntriesOK, StagesOK, FreshOK
<1>4. Once(opt[j], trigger[j], since[j], times_run[j], cut'[j], disk'[j].next)
  BY <1>1, <1>2, CutOff
<1> QED BY <1>1, <1>2, <1>3, <1>4, Updated

LEMMA CrashInv == ASSUME StoreInv, Crash PROVE StoreInv'
<1> USE DEF StoreInv
<1>1. /\ UNCHANGED <<kind, opt, clock, added, trigger, now, since, times_run, loads>>
      /\ scheduler' = "down" /\ attached' = FALSE /\ pending' = {} /\ DOMAIN jobs' = {}
      /\ round' = {} /\ updating' = {}
      /\ cut' = [j \in Jobs |-> IF j \in updating THEN cut[j] + 1 ELSE cut[j]]
      /\ DOMAIN disk' \subseteq DOMAIN disk /\ \A j \in DOMAIN disk' : disk'[j] = disk[j]
  BY DEF Crash, given
<1>2. TypesOK'
  BY <1>1 DEF TypesOK
<1>3. EntriesOK' /\ StagesOK' /\ FreshOK' /\ MemoryOK' /\ UpdatingOK' /\ JobTimesOK'
  BY <1>1 DEF EntriesOK, StagesOK, FreshOK, MemoryOK, UpdatingOK, JobTimesOK
<1>5. DiskTimesOK' /\ OthersOK'
  BY <1>1 DEF DiskTimesOK, OthersOK, Kept, Fires, FireAt
<1>4. StoredOK'
  <2> SUFFICES ASSUME NEW j \in DOMAIN disk'
               PROVE  Once(opt[j], trigger[j], since[j], times_run[j], cut'[j], disk[j].next)
    BY <1>1, <1>2, <1>3 DEF StoredOK, Open, Once, FireAt, TypesOK, EntriesOK
  <2>1. j \in DOMAIN disk /\ j \in Jobs /\ cut[j] \in Nat
    BY <1>1 DEF EntriesOK, TypesOK
  <2>2. cut'[j] = cut[j] + Open(j)
    BY <1>1, <2>1 DEF Open
  <2> QED BY <2>1, <2>2 DEF StoredOK
<1> QED BY <1>2, <1>3, <1>4, <1>5

LEMMA StoresStep == StoreInv /\ [StoresNext]_storeVars => StoreInv'
<1> SUFFICES ASSUME StoreInv, [StoresNext]_storeVars PROVE StoreInv'
  OBVIOUS
<1>1. CASE Round
  BY <1>1, StageSteps, SubmitInv, UpdateInv, UpdateRaisesInv DEF Round
<1>2. CASE \E j \in Jobs : UnscheduleJob(j)
  BY <1>2, AttachSteps DEF UnscheduleJob
<1>3. CASE \E S \in SUBSET Jobs : UnscheduleFunc(S)
  BY <1>3, AttachSteps DEF UnscheduleFunc
<1> QED BY <1>1, <1>2, <1>3, StageSteps, AttachSteps, AddSteps, StartInv, CrashInv DEF StoresNext

LEMMA StoresAlways == StoresSpec => []StoreInv
BY StoresInitial, StoresStep, PTL DEF StoresSpec

-----------------------------------------------------------------------------
(* The theorem.                                                             *)

\* No run time is left out and none submitted twice but for submissions cut off from
\* their update; other times are not submitted, but for those MongoDB keeps of a run
\* time, once whenever the store is attached; and what is stored of a job is what memory
\* has, with MongoDB without the microseconds: across deaths of the process, refusals of
\* the store, restarts and late rounds, for every kind of store.
THEOREM Resumable == StoresSpec => []StoreResumable
<1>1. ASSUME StoreInv PROVE SubmittedOnce
  <2> SUFFICES ASSUME NEW j \in DOMAIN Stored \ updating
               PROVE  Once(opt[j], trigger[j], since[j], times_run[j], cut[j], Stored[j].next)
    BY FireTimeAt DEF SubmittedOnce, Once
  <2>1. /\ j \in DOMAIN disk /\ j \in Jobs /\ cut[j] \in Nat
        /\ Stored[j].next = disk[j].next
    BY <1>1 DEF Stored, StoreInv, EntriesOK, MemoryOK, TypesOK, Kept
  <2>2. cut[j] + Open(j) = cut[j]
    BY <2>1 DEF Open
  <2> QED BY <1>1, <2>1, <2>2 DEF StoreInv, StoredOK
<1>2. ASSUME StoreInv PROVE StoreAgrees
  BY <1>2 DEF StoreAgrees, Stored, StoreInv, EntriesOK, MemoryOK, CountKept, Kept
<1>3. ASSUME StoreInv PROVE OnlyItsTimes
  BY <1>3, FireTimeAt DEF OnlyItsTimes, StoreInv, OthersOK, Fires
<1> QED BY <1>1, <1>2, <1>3, StoresAlways, PTL DEF StoreResumable

-----------------------------------------------------------------------------
(* Cron.                                                                    *)

-----------------------------------------------------------------------------
(* Numbers.                                                                 *)

LEMMA MaxOfTwo ==
  ASSUME NEW a \in Int, NEW b \in Int
  PROVE  Max({a, b}) = IF a >= b THEN a ELSE b
BY DEF Max

LEMMA MinOfTwo ==
  ASSUME NEW a \in Int, NEW b \in Int
  PROVE  Min({a, b}) = IF a <= b THEN a ELSE b
BY DEF Min

LEMMA LeastOf ==
  ASSUME NEW S, S \subseteq Nat, S # {}
  PROVE  Min(S) \in S /\ \A x \in S : Min(S) <= x
BY LeastNat DEF Min

LEMMA GreatestOf ==
  ASSUME NEW k \in Nat, NEW S, S \subseteq 0..k, S # {}
  PROVE  Max(S) \in S /\ \A x \in S : Max(S) >= x
<1> DEFINE T == {k - x : x \in S}
<1>1. T \subseteq Nat /\ T # {}
  <2>1. \A x \in S : x \in Int /\ 0 <= x /\ x <= k
    OBVIOUS
  <2>2. \A x \in S : k - x \in Nat
    BY <2>1
  <2> QED BY <2>2
<1>2. PICK t \in T : \A u \in T : t <= u
  <2> HIDE DEF T
  <2> QED BY <1>1, LeastNat
<1>3. PICK x \in S : t = k - x
  OBVIOUS
<1>4. \A y \in S : x >= y
  <2> TAKE y \in S
  <2>1. k - y \in T
    OBVIOUS
  <2>2. t <= k - y
    BY <2>1, <1>2
  <2>3. x \in Int /\ y \in Int
    OBVIOUS
  <2> QED BY <1>3, <2>2, <2>3
<1> QED BY <1>4 DEF Max

\* A number is written as a multiple and a rest in one way.
LEMMA RestIs ==
  ASSUME NEW w \in Nat \ {0}, NEW q \in Int, NEW r \in 0..w - 1
  PROVE  (w * q + r) % w = r
<1> DEFINE a == w * q + r
           p == a \div w
           u == a % w
<1>1. a \in Int
  OBVIOUS
<1>2. a = w * p + u /\ u \in 0..w - 1 /\ p \in Int
  <2> HIDE DEF a
  <2> QED BY <1>1
<1>3. w * p + u = w * q + r
  BY <1>2
<1> HIDE DEF p, u, a
<1>4. CASE p = q
  BY <1>2, <1>3, <1>4 DEF a, u
<1>5. CASE p < q
  <2>1. PICK k \in Nat \ {0} : q = p + k
    <3>1. q - p \in Nat \ {0} /\ q = p + (q - p)
      BY <1>2, <1>5
    <3> QED BY <3>1
  <2>2. w * q = w * p + w * k /\ w * k >= w
    BY <1>2, <2>1
  <2>3. w * q \in Int /\ w * p \in Int /\ w * k \in Int
    BY <1>2, <2>1
  <2> QED BY <1>2, <1>3, <2>2, <2>3
<1>6. CASE p > q
  <2>1. PICK k \in Nat \ {0} : p = q + k
    <3>1. p - q \in Nat \ {0} /\ p = q + (p - q)
      BY <1>2, <1>6
    <3> QED BY <3>1
  <2>2. w * p = w * q + w * k /\ w * k >= w
    BY <1>2, <2>1
  <2>3. w * q \in Int /\ w * p \in Int /\ w * k \in Int
    BY <1>2, <2>1
  <2> QED BY <1>2, <1>3, <2>2, <2>3
<1> QED BY <1>2, <1>4, <1>5, <1>6

LEMMA SmallRest ==
  ASSUME NEW w \in Nat \ {0}, NEW x \in 0..w - 1
  PROVE  x % w = x
<1>1. w * 0 + x = x
  OBVIOUS
<1>2. (w * 0 + x) % w = x
  BY RestIs
<1> QED BY <1>1, <1>2

LEMMA Divided ==
  ASSUME NEW w \in Nat \ {0}, NEW a \in Int
  PROVE  /\ a = w * (a \div w) + (a % w) /\ a % w \in 0..w - 1 /\ a \div w \in Int
         /\ a \in Nat => a \div w \in Nat
<1>1. a = w * (a \div w) + (a % w) /\ a % w \in 0..w - 1 /\ a \div w \in Int
  OBVIOUS
<1>2. ASSUME a \in Nat, a \div w < 0 PROVE FALSE
  <2> DEFINE q == a \div w
  <2>1. PICK k \in Nat \ {0} : q = 0 - k
    <3>1. 0 - q \in Nat \ {0} /\ q = 0 - (0 - q)
      BY <1>1, <1>2
    <3> QED BY <3>1
  <2> HIDE DEF q
  <2>2. w * q = 0 - (w * k) /\ w * k >= w /\ w * k \in Int
    BY <2>1
  <2>3. a = w * q + (a % w) /\ a % w \in 0..w - 1
    BY <1>1 DEF q
  <2> QED BY <2>2, <2>3, <1>2
<1> QED BY <1>1, <1>2

\* The steps from k numbers past one to the next.
LEMMA ToNext ==
  ASSUME NEW s \in Nat \ {0}, NEW k \in Int
  PROVE  /\ (s - (k % s)) % s = (s - k) % s
         /\ (s - k) % s \in 0..s - 1 /\ (k + ((s - k) % s)) % s = 0
         /\ \A j \in Int : j >= k /\ j % s = 0 => j >= k + ((s - k) % s)
<1> DEFINE q == k \div s
           r == k % s
<1>1. k = s * q + r /\ r \in 0..s - 1 /\ q \in Int
  BY Divided
<1> HIDE DEF q, r
<1>a. s * q \in Int
  BY <1>1
<1>2. CASE r = 0
  <2>1. s - k = s * (1 - q) + 0 /\ 1 - q \in Int /\ 0 \in 0..s - 1
    BY <1>1, <1>2
  <2>2. (s - k) % s = 0
    BY <2>1, RestIs
  <2>3. s - r = s * 1 + 0
    BY <1>1, <1>2
  <2>4. (s - r) % s = 0
    BY <2>3, <2>1, RestIs
  <2>5. k + 0 = s * q + 0
    BY <1>1, <1>2, <1>a
  <2>6. k % s = 0
    BY <1>2 DEF r
  <2>7. \A j \in Int : j >= k => j >= k + 0
    OBVIOUS
  <2>8. k + 0 = k
    OBVIOUS
  <2> QED BY <2>2, <2>4, <2>6, <2>7, <2>8 DEF r
<1>3. CASE r # 0
  <2>1. s - k = s * (0 - q) + (s - r) /\ 0 - q \in Int /\ s - r \in 0..s - 1
    BY <1>1, <1>3, <1>a
  <2>2. (s - k) % s = s - r
    BY <2>1, RestIs
  <2>4. (s - r) % s = s - r
    BY <2>1, SmallRest
  <2>5. k + (s - r) = s * (q + 1) + 0 /\ q + 1 \in Int /\ 0 \in 0..s - 1
    BY <1>1, <1>a
  <2>6. (k + (s - r)) % s = 0
    BY <2>5, RestIs
  <2>7. ASSUME NEW j \in Int, j >= k, j % s = 0 PROVE j >= k + (s - r)
    <3> DEFINE p == j \div s
    <3>1. j = s * p /\ p \in Int
      BY <2>7, Divided
    <3> HIDE DEF p
    <3>2. CASE p <= q
      <4>1. PICK i \in Nat : q = p + i
        <5>1. q - p \in Nat /\ q = p + (q - p)
          BY <3>1, <3>2, <1>1
        <5> QED BY <5>1
      <4>2. s * q = s * p + s * i /\ s * i >= 0 /\ s * i \in Int /\ s * p \in Int
        BY <4>1, <3>1
      <4> QED BY <4>2, <3>1, <1>1, <1>3, <2>7
    <3>3. CASE p > q
      <4>1. PICK i \in Nat : p = (q + 1) + i
        <5>1. p - (q + 1) \in Nat /\ p = (q + 1) + (p - (q + 1))
          BY <3>1, <3>3, <1>1
        <5> QED BY <5>1
      <4>2. s * p = s * (q + 1) + s * i /\ s * i >= 0 /\ s * i \in Int /\ s * (q + 1) \in Int
        BY <4>1, <1>1
      <4> QED BY <4>2, <3>1, <2>5, <1>1
    <3> QED BY <3>1, <3>2, <3>3, <1>1
  <2> QED BY <2>1, <2>2, <2>4, <2>6, <2>7 DEF r
<1> QED BY <1>2, <1>3

-----------------------------------------------------------------------------
(* Dates.                                                                   *)

LEMMA RealIs == Real = {1, 2, 3, 6, 7, 8} /\ Fields = 1..8
BY DEF Real, Fields, week, day_of_week

IsDate(d) ==
  /\ d \in [Real -> Nat]
  /\ d[1] \in 0..Years - 1 /\ d[2] \in 1..Months
  /\ d[3] \in 1..MonthDays[d[1]][d[2]]
  /\ d[6] \in 0..ClockMax[6] /\ d[7] \in 0..ClockMax[7] /\ d[8] \in 0..ClockMax[8]

LEMMA Calendar ==
  /\ Years \in Nat \ {0} /\ Months \in Nat \ {0} /\ WeekDays \in Nat \ {0}
  /\ MaxYear \in Nat /\ MaxYear >= Years /\ MaxWeek \in Nat
  /\ ClockMax[6] \in Nat /\ ClockMax[7] \in Nat /\ ClockMax[8] \in Nat
  /\ \A y \in 0..Years - 1, m \in 1..Months : MonthDays[y][m] \in Nat \ {0}
<1>1. \A y \in 0..Years - 1, m \in 1..Months : MonthDays[y][m] \in Nat \ {0}
  BY CronAssumption
<1>2. ClockMax[6] \in Nat /\ ClockMax[7] \in Nat /\ ClockMax[8] \in Nat
  BY OfferedAssumption DEF hour, minute, second
<1> QED BY <1>1, <1>2, CronAssumption

LEMMA DateParts ==
  ASSUME NEW y, NEW m, NEW d, NEW h, NEW mi, NEW s
  PROVE  LET t == Date(y, m, d, h, mi, s) IN
         /\ DOMAIN t = Real
         /\ t[1] = y /\ t[2] = m /\ t[3] = d /\ t[6] = h /\ t[7] = mi /\ t[8] = s
         /\ t = [f \in Real |-> t[f]]
BY RealIs DEF Date, year, month, day, hour, minute, second

LEMMA DatesAre == ASSUME NEW d PROVE d \in Dates <=> IsDate(d)
<1>1. ASSUME d \in Dates PROVE IsDate(d)
  <2>0. PICK p \in (0..Years - 1) \X (1..Months) :
               d \in {Date(p[1], p[2], q[1], q[2][1], q[2][2], q[2][3]) :
                        q \in (1..MonthDays[p[1]][p[2]]) \X ClockTimes}
    BY <1>1 DEF Dates
  <2>1. PICK q \in (1..MonthDays[p[1]][p[2]]) \X ClockTimes :
               d = Date(p[1], p[2], q[1], q[2][1], q[2][2], q[2][3])
    BY <2>0
  <2>2. /\ p[1] \in 0..Years - 1 /\ p[2] \in 1..Months
        /\ q[1] \in 1..MonthDays[p[1]][p[2]] /\ q[2] \in ClockTimes
    OBVIOUS
  <2>3. /\ q[2][1] \in 0..ClockMax[6] /\ q[2][2] \in 0..ClockMax[7]
        /\ q[2][3] \in 0..ClockMax[8]
    BY <2>2 DEF ClockTimes, hour, minute, second
  <2>4. /\ DOMAIN d = Real /\ d = [f \in Real |-> d[f]]
        /\ d[1] = p[1] /\ d[2] = p[2] /\ d[3] = q[1]
        /\ d[6] = q[2][1] /\ d[7] = q[2][2] /\ d[8] = q[2][3]
    BY <2>1, DateParts
  <2>5. \A f \in Real : d[f] \in Nat
    BY <2>2, <2>3, <2>4, RealIs, Calendar
  <2> QED BY <2>2, <2>3, <2>4, <2>5 DEF IsDate
<1>2. ASSUME IsDate(d) PROVE d \in Dates
  <2> DEFINE p == <<d[1], d[2]>>
             q == <<d[3], <<d[6], d[7], d[8]>>>>
  <2>1. p \in (0..Years - 1) \X (1..Months)
    BY <1>2 DEF IsDate
  <2>2. <<d[6], d[7], d[8]>> \in ClockTimes
    BY <1>2 DEF IsDate, ClockTimes, hour, minute, second
  <2>3. q \in (1..MonthDays[p[1]][p[2]]) \X ClockTimes
    BY <1>2, <2>2 DEF IsDate
  <2>4. d = Date(p[1], p[2], q[1], q[2][1], q[2][2], q[2][3])
    <3> DEFINE t == Date(d[1], d[2], d[3], d[6], d[7], d[8])
    <3>1. /\ DOMAIN t = Real /\ t = [f \in Real |-> t[f]]
          /\ t[1] = d[1] /\ t[2] = d[2] /\ t[3] = d[3] /\ t[6] = d[6] /\ t[7] = d[7] /\ t[8] = d[8]
      BY DateParts
    <3>2. d = [f \in Real |-> d[f]]
      BY <1>2 DEF IsDate
    <3> HIDE DEF t
    <3>3. \A f \in Real : t[f] = d[f]
      BY <3>1, RealIs
    <3>4. t = d
      BY <3>1, <3>2, <3>3
    <3> QED BY <3>4 DEF t
  <2> HIDE DEF p, q
  <2> QED BY <2>1, <2>3, <2>4 DEF Dates
<1> QED BY <1>1, <1>2

\* The order of dates.
Precedes(a, b) == \E g \in Real : a[g] < b[g] /\ \A k \in Real : k < g => a[k] = b[k]
Same(a, b, f) == \A g \in Real : g <= f => a[g] = b[g]

LEMMA OrderPrecedes ==
  ASSUME NEW a \in Dates, NEW b \in Dates
  PROVE  /\ Before(Order(a), Order(b)) <=> Precedes(a, b)
         /\ Before([i \in 1..6 |-> a[IF i < 4 THEN i ELSE i + 2]],
                   [i \in 1..6 |-> b[IF i < 4 THEN i ELSE i + 2]]) <=> Precedes(a, b)
<1> DEFINE at(i) == IF i < 4 THEN i ELSE i + 2
           fn(c) == [i \in 1..6 |-> c[at(i)]]
<1>1. \A c : Order(c) = fn(c)
  BY DEF Order
<1>2. /\ at(1) = 1 /\ at(2) = 2 /\ at(3) = 3 /\ at(4) = 6 /\ at(5) = 7 /\ at(6) = 8
  OBVIOUS
<1>3. Before(fn(a), fn(b)) <=> \E i \in 1..6 : a[at(i)] < b[at(i)] /\ \A k \in 1..6 : k < i => a[at(k)] = b[at(k)]
  BY DEF Before
<1>4. (\E i \in 1..6 : a[at(i)] < b[at(i)] /\ \A k \in 1..6 : k < i => a[at(k)] = b[at(k)]) <=> Precedes(a, b)
  <2> HIDE DEF at
  <2>1. \A i \in 1..6 : i = 1 \/ i = 2 \/ i = 3 \/ i = 4 \/ i = 5 \/ i = 6
    OBVIOUS
  <2> QED BY <1>2, <2>1, RealIs DEF Precedes
<1> QED BY <1>1, <1>3, <1>4

LEMMA Trichotomy ==
  ASSUME NEW a \in Dates, NEW b \in Dates
  PROVE  /\ a = b \/ Precedes(a, b) \/ Precedes(b, a)
         /\ ~(a = b /\ Precedes(a, b)) /\ ~(Precedes(a, b) /\ Precedes(b, a))
         /\ a = b <=> Same(a, b, 8)
<1>1. a \in [Real -> Nat] /\ b \in [Real -> Nat]
  BY DatesAre DEF IsDate
<1>2. a = b <=> Same(a, b, 8)
  BY <1>1, RealIs DEF Same
<1>3. Same(a, b, 8) \/ Precedes(a, b) \/ Precedes(b, a)
  BY <1>1, RealIs DEF Same, Precedes
<1>4. ~(Precedes(a, b) /\ Precedes(b, a)) /\ ~(Same(a, b, 8) /\ Precedes(a, b))
  BY <1>1, RealIs DEF Same, Precedes
<1> QED BY <1>2, <1>3, <1>4

LEMMA Transitive ==
  ASSUME NEW a \in Dates, NEW b \in Dates, NEW c \in Dates, Precedes(a, b), Precedes(b, c)
  PROVE  Precedes(a, c)
<1>1. a \in [Real -> Nat] /\ b \in [Real -> Nat] /\ c \in [Real -> Nat]
  BY DatesAre DEF IsDate
<1>2. PICK g \in Real : a[g] < b[g] /\ \A k \in Real : k < g => a[k] = b[k]
  BY DEF Precedes
<1>3. PICK h \in Real : b[h] < c[h] /\ \A k \in Real : k < h => b[k] = c[k]
  BY DEF Precedes
<1>4. CASE g <= h
  <2>1. a[g] < c[g] /\ \A k \in Real : k < g => a[k] = c[k]
    BY <1>1, <1>2, <1>3, <1>4, RealIs
  <2> QED BY <2>1 DEF Precedes
<1>5. CASE g > h
  <2>1. a[h] < c[h] /\ \A k \in Real : k < h => a[k] = c[k]
    BY <1>1, <1>2, <1>3, <1>5, RealIs
  <2> QED BY <2>1 DEF Precedes
<1>6. g \in Int /\ h \in Int
  BY RealIs
<1> QED BY <1>4, <1>5, <1>6

-----------------------------------------------------------------------------
(* Days and weeks.                                                          *)

LEMMA DaysBeforeNat ==
  ASSUME NEW y \in 0..Years, NEW m \in Nat, y < Years \/ m = 1
  PROVE  DaysBefore(y, m) \in Nat
<1> DEFINE S == MonthsBefore(y, m)
           g == [p \in S |-> MonthDays[p[1]][p[2]]]
<1>1. IsFiniteSet(S)
  <2>1. IsFiniteSet(0..y) /\ IsFiniteSet(1..Months)
    <3>1. y \in Int /\ Months \in Int
      BY Calendar
    <3> QED BY <3>1, FS_Interval
  <2>2. IsFiniteSet((0..y) \X (1..Months))
    BY <2>1, FS_Product
  <2> QED BY <2>2, FS_Subset DEF MonthsBefore
<1>2. \A p \in S : g[p] \in Nat
  <2> TAKE p \in S
  <2>1. p[1] \in 0..y /\ p[2] \in 1..Months /\ (p[1] < y \/ p[2] < m)
    BY DEF MonthsBefore
  <2>2. p[1] \in 0..Years - 1
    BY <2>1, Calendar
  <2> QED BY <2>1, <2>2, Calendar
<1>3. DaysBefore(y, m) = SumFunctionOnSet(g, S)
  BY DEF DaysBefore, SumFunction
<1> HIDE DEF S, g
<1> QED BY <1>1, <1>2, <1>3, SumNat

LEMMA FirstDay == FirstOfYear(0) = 0
<1>1. MonthsBefore(0, 1) = {}
  BY DEF MonthsBefore
<1> QED BY <1>1, SumEmpty DEF FirstOfYear, DaysBefore, SumFunction

LEMMA DayNumberIs ==
  ASSUME NEW d \in Dates
  PROVE  /\ DaysBefore(d[1], d[2]) \in Nat
         /\ DayNumber(d) = d[3] - 1 + DaysBefore(d[1], d[2]) /\ DayNumber(d) \in Nat
<1>1. d[1] \in 0..Years - 1 /\ d[2] \in 1..Months /\ d[3] \in 1..MonthDays[d[1]][d[2]]
  BY DatesAre DEF IsDate
<1>2. DaysBefore(d[1], d[2]) \in Nat
  BY <1>1, Calendar, DaysBeforeNat
<1>3. d[3] \in Nat /\ d[3] >= 1
  BY <1>1, Calendar
<1> QED BY <1>2, <1>3 DEF DayNumber, year, month, day

LEMMA WeekdayIs ==
  ASSUME NEW n \in Nat
  PROVE  Weekday(n) \in 0..WeekDays - 1 /\ Weekday(n) <= n
<1>0. WeekDays \in Nat \ {0}
  BY Calendar
<1>1. /\ n = WeekDays * (n \div WeekDays) + (n % WeekDays) /\ n % WeekDays \in 0..WeekDays - 1
      /\ n \div WeekDays \in Nat
  <2>1. n \in Int
    OBVIOUS
  <2>2. n = WeekDays * (n \div WeekDays) + (n % WeekDays) /\ n % WeekDays \in 0..WeekDays - 1
    BY <1>0, <2>1, Divided
  <2>3. n \div WeekDays \in Nat
    BY <1>0, <2>1, Divided
  <2> QED BY <2>2, <2>3
<1>2. WeekDays * (n \div WeekDays) \in Nat
  BY <1>1, Calendar
<1> QED BY <1>1, <1>2 DEF Weekday

LEMMA WeekIs == ASSUME NEW n \in Nat PROVE WeekOf(n) \in Nat /\ WeekOf(n) >= 1
<1> DEFINE half == WeekDays \div 2
           middle == n - Weekday(n) + half
           S == {z \in 0..Years : FirstOfYear(z) <= middle}
           y == Max(S)
<1>1. half \in Nat
  BY Calendar
<1>2. middle \in Nat
  BY <1>1, WeekdayIs
<1>3. S \subseteq 0..Years /\ 0 \in S
  BY <1>2, FirstDay, Calendar
<1>4. y \in S
  <2> HIDE DEF S
  <2> QED BY <1>3, GreatestOf, Calendar
<1>5. FirstOfYear(y) \in Nat /\ FirstOfYear(y) <= middle
  BY <1>4, DaysBeforeNat DEF FirstOfYear
<1>6. WeekOf(n) = 1 + (middle - FirstOfYear(y)) \div WeekDays
  BY DEF WeekOf
<1> HIDE DEF y, middle
<1>7. middle - FirstOfYear(y) \in Nat
  BY <1>2, <1>5
<1>8. (middle - FirstOfYear(y)) \div WeekDays \in Nat
  BY <1>7, Calendar
<1> QED BY <1>6, <1>8

-----------------------------------------------------------------------------
(* The fields' values.                                                      *)

LEMMA FieldNames ==
  /\ year = 1 /\ month = 2 /\ day = 3 /\ week = 4 /\ day_of_week = 5
  /\ hour = 6 /\ minute = 7 /\ second = 8 /\ Nothing = -1 /\ LastOption = 5
BY DEF year, month, day, week, day_of_week, hour, minute, second, Nothing, LastOption

LEMMA ValueIs ==
  ASSUME NEW d
  PROVE  /\ \A f \in Real : Value(d, f) = d[f]
         /\ Value(d, 4) = WeekOf(DayNumber(d)) /\ Value(d, 5) = Weekday(DayNumber(d))
BY FieldNames, RealIs DEF Value

LEMMA LimitsAre ==
  ASSUME NEW d
  PROVE  /\ MaxOf(d, 1) = MaxYear /\ MaxOf(d, 2) = Months /\ MaxOf(d, 3) = MonthDays[d[1]][d[2]]
         /\ MaxOf(d, 4) = MaxWeek /\ MaxOf(d, 5) = WeekDays - 1
         /\ \A f \in {6, 7, 8} : MaxOf(d, f) = ClockMax[f]
         /\ MinOf(1) = 0 /\ MinOf(2) = 1 /\ MinOf(3) = 1 /\ MinOf(4) = 1 /\ MinOf(5) = 0
         /\ MinOf(6) = 0 /\ MinOf(7) = 0 /\ MinOf(8) = 0
BY FieldNames DEF MaxOf, MinOf

LEMMA ValueInLimits ==
  ASSUME NEW d \in Dates, NEW f \in Fields
  PROVE  /\ Value(d, f) \in Nat /\ MinOf(f) \in Nat /\ MaxOf(d, f) \in Nat
         /\ MinOf(f) <= Value(d, f) /\ Value(d, f) <= MaxOf(d, f)
<1>1. IsDate(d)
  BY DatesAre
<1>2. DayNumber(d) \in Nat
  BY DayNumberIs
<1>3. CASE f \in {1, 2, 3}
  <2>1. MonthDays[d[1]][d[2]] \in Nat
    BY <1>1, Calendar DEF IsDate
  <2> QED BY <1>1, <1>3, <2>1, ValueIs, LimitsAre, Calendar, RealIs DEF IsDate
<1>4. CASE f = 4
  <2>1. Value(d, 4) \in Nat /\ Value(d, 4) >= 1
    BY <1>2, ValueIs, WeekIs
  <2>2. Value(d, 4) <= MaxWeek
    BY OfferedAssumption, ValueIs
  <2> QED BY <1>4, <2>1, <2>2, LimitsAre, Calendar
<1>5. CASE f = 5
  <2>1. Value(d, 5) \in 0..WeekDays - 1
    BY <1>2, ValueIs, WeekdayIs
  <2> QED BY <1>5, <2>1, LimitsAre, Calendar
<1>6. CASE f \in {6, 7, 8}
  BY <1>1, <1>6, ValueIs, LimitsAre, Calendar, RealIs DEF IsDate
<1> QED BY <1>3, <1>4, <1>5, <1>6, RealIs

\* A field's value depends on the real fields up to it, its maximum on those before it.
LEMMA ValueSame ==
  ASSUME NEW n \in Dates, NEW d \in Dates, NEW f \in Fields, Same(n, d, f)
  PROVE  Value(n, f) = Value(d, f)
<1>1. CASE f \in Real
  <2>1. n[f] = d[f]
    BY <1>1, RealIs DEF Same
  <2> QED BY <1>1, <2>1, ValueIs
<1>2. CASE f \in {4, 5}
  <2>1. n[1] = d[1] /\ n[2] = d[2] /\ n[3] = d[3]
    BY <1>2, RealIs DEF Same
  <2>2. DayNumber(n) = DayNumber(d)
    BY <2>1, DayNumberIs
  <2> QED BY <1>2, <2>2, ValueIs
<1> QED BY <1>1, <1>2, RealIs

LEMMA MaxSame ==
  ASSUME NEW n \in Dates, NEW d \in Dates, NEW f \in Fields, Same(n, d, f - 1)
  PROVE  MaxOf(n, f) = MaxOf(d, f)
<1>1. CASE f = 3
  <2>1. n[1] = d[1] /\ n[2] = d[2]
    BY <1>1, RealIs DEF Same
  <2> QED BY <1>1, <2>1, LimitsAre
<1>2. CASE f # 3
  BY <1>2, LimitsAre, RealIs
<1> QED BY <1>1, <1>2

-----------------------------------------------------------------------------
(* What an expression offers is the least value that fits it.               *)

LEMMA SteppingIs ==
  ASSUME NEW e, e.step \in Nat, NEW start \in Nat, NEW minval \in Nat, NEW maxval \in Nat,
         NEW v, v = Stepping(e, start, minval, maxval)
  PROVE  /\ v # Nothing =>
              /\ v \in Nat /\ v >= start /\ v >= minval /\ v <= maxval
              /\ e.step = 0 \/ (v - minval) % e.step = 0
         /\ \A u \in Nat :
              u >= start /\ u >= minval /\ u <= maxval
                /\ (e.step = 0 \/ (u - minval) % e.step = 0) => v # Nothing /\ v <= u
<1> DEFINE from == IF start >= minval THEN start ELSE minval
           k == from - minval
           s == e.step
           next == IF s = 0 THEN from ELSE from + ((s - k) % s)
<1>1. Max({start, minval}) = from
  BY MaxOfTwo
<1>2. v = IF next <= maxval THEN next ELSE Nothing
  BY <1>1 DEF Stepping
<1>3. from \in Nat /\ from >= start /\ from >= minval /\ k \in Nat
  OBVIOUS
<1>4. \A u \in Nat : u >= start /\ u >= minval => u >= from
  OBVIOUS
<1>5. CASE s = 0
  <2>1. v = IF from <= maxval THEN from ELSE Nothing
    BY <1>2, <1>5
  <2> HIDE DEF from, k, s, next
  <2> QED BY <1>3, <1>4, <1>5, <2>1, FieldNames DEF s
<1>6. CASE s # 0
  <2> DEFINE r == (s - k) % s
  <2>1. s \in Nat \ {0} /\ k \in Int
    BY <1>3, <1>6
  <2>2. v = IF from + r <= maxval THEN from + r ELSE Nothing
    BY <1>2, <1>6
  <2>3. k = from - minval
    OBVIOUS
  <2> HIDE DEF from, k, s, next
  <2>4. /\ r \in 0..s - 1 /\ (k + r) % s = 0
        /\ \A j \in Int : j >= k /\ j % s = 0 => j >= k + r
    BY <2>1, ToNext
  <2> HIDE DEF r
  <2>5. r \in Nat
    BY <2>1, <2>4
  <2>6. (from + r) - minval = k + r
    BY <1>3, <2>3, <2>5
  <2>7. ASSUME NEW u \in Nat, u >= start, u >= minval, (u - minval) % s = 0
        PROVE  u >= from + r
    <3>1. u >= from
      BY <1>4, <2>7
    <3>2. u - minval \in Int /\ u - minval >= k
      BY <1>3, <2>3, <3>1
    <3>3. u - minval >= k + r
      BY <2>4, <2>7, <3>2
    <3> QED BY <1>3, <2>3, <2>5, <3>3
  <2>8. s # 0
    BY <2>1
  <2>9. from + r \in Nat /\ from + r >= start /\ from + r >= minval /\ from + r # Nothing
    BY <1>3, <2>5, FieldNames
  <2>10. ((from + r) - minval) % s = 0
    BY <2>4, <2>6
  <2> QED BY <2>2, <2>7, <2>8, <2>9, <2>10 DEF s
<1> QED BY <1>5, <1>6

OfferRight(e, n, f, v) ==
  /\ v # Nothing =>
       /\ v \in Nat /\ Value(n, f) <= v /\ v <= MaxOf(n, f)
       /\ \A d \in Dates : Same(n, d, f - 1) /\ Value(d, f) = v => Fits(e, d, f)
  /\ \A d \in Dates :
       Same(n, d, f - 1) /\ Value(n, f) <= Value(d, f) /\ Fits(e, d, f) =>
         v # Nothing /\ v <= Value(d, f)

LEMMA AllOffers ==
  ASSUME NEW n \in Dates, NEW f \in Fields, NEW e, e.kind = "all", e.step \in Nat
  PROVE  OfferRight(e, n, f, NextOfExpr(e, n, f))
<1> DEFINE v == NextOfExpr(e, n, f)
<1>1. v = Stepping(e, Value(n, f), MinOf(f), MaxOf(n, f))
  BY DEF NextOfExpr
<1>2. \A d \in Dates : Fits(e, d, f) <=> e.step = 0 \/ (Value(d, f) - MinOf(f)) % e.step = 0
  BY DEF Fits
<1> HIDE DEF v
<1>3. Value(n, f) \in Nat /\ MinOf(f) \in Nat /\ MaxOf(n, f) \in Nat
  BY ValueInLimits
<1>4. /\ v # Nothing =>
           /\ v \in Nat /\ v >= Value(n, f) /\ v >= MinOf(f) /\ v <= MaxOf(n, f)
           /\ e.step = 0 \/ (v - MinOf(f)) % e.step = 0
      /\ \A u \in Nat :
           u >= Value(n, f) /\ u >= MinOf(f) /\ u <= MaxOf(n, f)
             /\ (e.step = 0 \/ (u - MinOf(f)) % e.step = 0) => v # Nothing /\ v <= u
  BY <1>1, <1>3, SteppingIs
<1>5. \A d \in Dates : Value(d, f) \in Nat /\ Value(d, f) >= MinOf(f) /\ Value(d, f) <= MaxOf(d, f)
  BY <1>3, ValueInLimits
<1>6. \A d \in Dates : Same(n, d, f - 1) => MaxOf(d, f) = MaxOf(n, f)
  BY MaxSame
<1>7. v # Nothing => v \in Nat /\ Value(n, f) <= v /\ v <= MaxOf(n, f)
  BY <1>3, <1>4
<1>8. ASSUME v # Nothing, NEW d \in Dates, Value(d, f) = v PROVE Fits(e, d, f)
  BY <1>2, <1>4, <1>8
<1>9. ASSUME NEW d \in Dates, Same(n, d, f - 1), Value(n, f) <= Value(d, f), Fits(e, d, f)
      PROVE  v # Nothing /\ v <= Value(d, f)
  <2>1. Value(d, f) >= Value(n, f)
    BY <1>3, <1>5, <1>9
  <2>2. Value(d, f) <= MaxOf(n, f)
    BY <1>5, <1>6, <1>9
  <2> QED BY <1>2, <1>4, <1>5, <1>9, <2>1, <2>2
<1>10. OfferRight(e, n, f, v)
  BY <1>7, <1>8, <1>9 DEF OfferRight
<1> QED BY <1>10 DEF v

LEMMA RangeOffers ==
  ASSUME NEW n \in Dates, NEW f \in Fields, NEW e, e.kind = "range", e.step \in Nat,
         e.first \in Nat, e.last \in Nat \union {Nothing}
  PROVE  OfferRight(e, n, f, NextOfExpr(e, n, f))
<1> DEFINE v == NextOfExpr(e, n, f)
           first == IF MinOf(f) >= e.first THEN MinOf(f) ELSE e.first
           maxval == IF e.last = Nothing \/ MaxOf(n, f) <= e.last THEN MaxOf(n, f) ELSE e.last
<1>3. Value(n, f) \in Nat /\ MinOf(f) \in Nat /\ MaxOf(n, f) \in Nat
  BY ValueInLimits
<1>a. Max({MinOf(f), e.first}) = first /\ Max({e.first, MinOf(f)}) = first
  BY <1>3, MaxOfTwo
<1>b. (IF e.last = Nothing THEN MaxOf(n, f) ELSE Min({MaxOf(n, f), e.last})) = maxval
  BY <1>3, MinOfTwo
<1>1. v = Stepping(e, Value(n, f), first, maxval)
  <2>1. v = NextOfSpan(e, n, f)
    BY DEF NextOfExpr
  <2> HIDE DEF v, first, maxval
  <2> QED BY <2>1, <1>a, <1>b DEF NextOfSpan
<1>2. \A d \in Dates : Fits(e, d, f) <=>
        /\ Value(d, f) >= first /\ (e.last # Nothing => Value(d, f) <= e.last)
        /\ e.step = 0 \/ (Value(d, f) - first) % e.step = 0
  <2> HIDE DEF first
  <2> QED BY <1>a DEF Fits
<1>c. first \in Nat /\ maxval \in Nat
  BY <1>3
<1>d. /\ maxval <= MaxOf(n, f) /\ (e.last # Nothing => maxval <= e.last)
      /\ \A u \in Nat : u <= MaxOf(n, f) /\ (e.last # Nothing => u <= e.last) => u <= maxval
  BY <1>3
<1> HIDE DEF v, first, maxval
<1>4. /\ v # Nothing =>
           /\ v \in Nat /\ v >= Value(n, f) /\ v >= first /\ v <= maxval
           /\ e.step = 0 \/ (v - first) % e.step = 0
      /\ \A u \in Nat :
           u >= Value(n, f) /\ u >= first /\ u <= maxval
             /\ (e.step = 0 \/ (u - first) % e.step = 0) => v # Nothing /\ v <= u
  BY <1>1, <1>3, <1>c, SteppingIs
<1>5. \A d \in Dates : Value(d, f) \in Nat /\ Value(d, f) <= MaxOf(d, f)
  BY <1>3, ValueInLimits
<1>6. \A d \in Dates : Same(n, d, f - 1) => MaxOf(d, f) = MaxOf(n, f)
  BY MaxSame
<1>7. v # Nothing => v \in Nat /\ Value(n, f) <= v /\ v <= MaxOf(n, f)
  BY <1>3, <1>4, <1>c, <1>d
<1>8. ASSUME v # Nothing, NEW d \in Dates, Value(d, f) = v PROVE Fits(e, d, f)
  <2>1. v \in Nat /\ v >= first /\ v <= maxval /\ (e.step = 0 \/ (v - first) % e.step = 0)
    BY <1>4, <1>8
  <2>2. e.last # Nothing => v <= e.last
    BY <1>c, <1>d, <2>1
  <2> QED BY <1>2, <1>8, <2>1, <2>2
<1>9. ASSUME NEW d \in Dates, Same(n, d, f - 1), Value(n, f) <= Value(d, f), Fits(e, d, f)
      PROVE  v # Nothing /\ v <= Value(d, f)
  <2>1. Value(d, f) >= Value(n, f)
    BY <1>3, <1>5, <1>9
  <2>2. Value(d, f) <= MaxOf(n, f)
    BY <1>5, <1>6, <1>9
  <2>3. Value(d, f) >= first /\ (e.last # Nothing => Value(d, f) <= e.last)
        /\ (e.step = 0 \/ (Value(d, f) - first) % e.step = 0)
    BY <1>2, <1>9
  <2>4. Value(d, f) <= maxval
    BY <1>5, <1>d, <2>2, <2>3
  <2> QED BY <1>4, <1>5, <2>1, <2>3, <2>4
<1>10. OfferRight(e, n, f, v)
  BY <1>7, <1>8, <1>9 DEF OfferRight
<1> QED BY <1>10 DEF v

LEMMA LastOffers ==
  ASSUME NEW n \in Dates, NEW e, e.kind = "last"
  PROVE  OfferRight(e, n, 3, NextOfExpr(e, n, 3))
<1> DEFINE v == NextOfExpr(e, n, 3)
<1>1. v = MaxOf(n, 3)
  BY LimitsAre, FieldNames DEF NextOfExpr
<1> HIDE DEF v
<1>2. 3 \in Fields /\ 3 \in Real
  BY RealIs
<1>3. \A d \in Dates : Fits(e, d, 3) <=> Value(d, 3) = MaxOf(d, 3)
  BY <1>2, LimitsAre, FieldNames, ValueIs DEF Fits
<1>4. \A d \in Dates : Same(n, d, 3 - 1) => MaxOf(d, 3) = MaxOf(n, 3)
  BY <1>2, MaxSame
<1>5. Value(n, 3) \in Nat /\ MaxOf(n, 3) \in Nat /\ Value(n, 3) <= MaxOf(n, 3)
  BY <1>2, ValueInLimits
<1>6. v # Nothing
  BY <1>1, <1>5, FieldNames
<1>7. OfferRight(e, n, 3, v)
  BY <1>1, <1>3, <1>4, <1>5, <1>6 DEF OfferRight
<1> QED BY <1>7 DEF v

-----------------------------------------------------------------------------
(* The n-th of a weekday in a month.                                        *)

\* The first day of a month that is a weekday w, if day 1 is the day r of a week.
FirstHit(w, r) == IF w - r + 1 <= 0 THEN w - r + 1 + WeekDays ELSE w - r + 1

LEMMA HitsAre ==
  ASSUME NEW base \in Nat, NEW w \in 0..WeekDays - 1,
         NEW hit, hit = FirstHit(w, Weekday(base))
  PROVE  /\ hit \in 1..WeekDays
         /\ \A x \in Nat \ {0} : Weekday(x - 1 + base) = w <=> \E j \in Nat : x = hit + j * WeekDays
<1> DEFINE W == WeekDays
           q == base \div W
           r == base % W
           c == IF w - r + 1 <= 0 THEN 1 ELSE 0
<1>1. W \in Nat \ {0}
  BY Calendar
<1>2. base = W * q + r /\ r \in 0..W - 1 /\ q \in Nat
  <2>1. base \in Int /\ base \in Nat
    OBVIOUS
  <2> HIDE DEF W
  <2> QED BY <1>1, <2>1, Divided
<1>3. hit = w - r + 1 + c * W /\ c \in Nat
  BY <1>1, <1>2 DEF FirstHit, Weekday
<1>4. hit \in 1..W
  BY <1>1, <1>2 DEF FirstHit, Weekday
<1>w. w \in 0..W - 1
  OBVIOUS
<1>p. W * q \in Int /\ c * W \in Int
  BY <1>1, <1>2, <1>3
<1> HIDE DEF q, r, c
<1>5. ASSUME NEW j \in Nat, NEW x \in Nat, x = hit + j * WeekDays
      PROVE  Weekday(x - 1 + base) = w
  <2> HIDE DEF W
  <2>1. W * (q + j + c) = W * q + j * W + c * W /\ q + j + c \in Int /\ j * W \in Int
    BY <1>1, <1>2, <1>3
  <2>2. x - 1 + base = W * (q + j + c) + w
    <3>1. x = hit + j * W
      BY <1>5 DEF W
    <3> QED BY <1>1, <1>2, <1>3, <1>w, <1>p, <2>1, <3>1
  <2>3. (W * (q + j + c) + w) % W = w
    BY <1>1, <1>w, <2>1, RestIs
  <2> QED BY <2>2, <2>3 DEF W, Weekday
<1>6. ASSUME NEW x \in Nat \ {0}, Weekday(x - 1 + base) = w
      PROVE  \E j \in Nat : x = hit + j * WeekDays
  <2> DEFINE p == (x - 1 + base) \div W
             j == p - q - c
  <2>1. x - 1 + base = W * p + w /\ p \in Int
    <3>1. x - 1 + base \in Int
      OBVIOUS
    <3>2. (x - 1 + base) % W = w
      BY <1>6 DEF Weekday
    <3> HIDE DEF W
    <3> QED BY <1>1, <3>1, <3>2, Divided
  <2>2. j \in Int /\ p = j + q + c
    BY <2>1, <1>2, <1>3
  <2> HIDE DEF p, j, W
  <2>3. W * p = W * j + W * q + c * W /\ W * j \in Int
    <3>1. W * (j + q + c) = W * j + W * q + c * W /\ W * j \in Int
      BY <1>1, <1>2, <1>3, <2>2
    <3> QED BY <2>2, <3>1
  <2>a. W * p \in Int
    BY <1>p, <2>3
  <2>4. x = hit + W * j
    <3> DEFINE A == W * p
               B == W * q
               C == c * W
               D == W * j
    <3>1. A \in Int /\ B \in Int /\ C \in Int /\ D \in Int /\ A = D + B + C
      BY <2>a, <2>3, <1>p
    <3>2. x - 1 + base = A + w /\ base = B + r /\ hit = w - r + 1 + C
      BY <1>2, <1>3, <2>1
    <3>3. w \in Int /\ r \in Int /\ x \in Int /\ base \in Int
      BY <1>1, <1>2, <1>w
    <3> HIDE DEF A, B, C, D
    <3>4. x = hit + D
      BY <3>1, <3>2, <3>3
    <3> QED BY <3>4 DEF D
  <2>5. j \in Nat
    <3> SUFFICES ASSUME j < 0 PROVE FALSE
      BY <2>2
    <3>1. PICK i \in Nat \ {0} : j = 0 - i
      <4>1. 0 - j \in Nat \ {0} /\ j = 0 - (0 - j)
        BY <2>2
      <4> QED BY <4>1
    <3>2. W * j = 0 - (W * i) /\ W * i >= W /\ W * i \in Int
      BY <1>1, <3>1
    <3> QED BY <1>1, <1>4, <2>4, <3>2
  <2>6. W * j = j * W
    BY <1>1, <2>5
  <2> QED BY <2>4, <2>5, <2>6 DEF W
<1> QED BY <1>4, <1>5, <1>6 DEF W

\* There are j of them before the one j weeks after the first.
LEMMA CountHits ==
  ASSUME NEW w \in Nat \ {0}, NEW hit \in Int, NEW j \in Nat,
         NEW S, \A x : x \in S <=> \E i \in 0..j - 1 : x = hit + i * w
  PROVE  Cardinality(S) = j
<1> DEFINE I == 0..j - 1
           g == [i \in I |-> hit + i * w]
<1>1. IsFiniteSet(I) /\ Cardinality(I) = j
  <2>1. j - 1 \in Int /\ 0 \in Int
    OBVIOUS
  <2>2. IsFiniteSet(0..j - 1) /\ Cardinality(0..j - 1) = IF 0 > j - 1 THEN 0 ELSE j - 1 - 0 + 1
    BY <2>1, FS_Interval
  <2> QED BY <2>2
<1>2. g \in Surjection(I, S)
  BY DEF Surjection
<1>3. \A i, k \in I : g[i] = g[k] => i = k
  <2> SUFFICES ASSUME NEW i \in I, NEW k \in I, g[i] = g[k] PROVE i = k
    OBVIOUS
  <2>1. hit + i * w = hit + k * w /\ i \in Int /\ k \in Int
    OBVIOUS
  <2>2. i * w \in Int /\ k * w \in Int
    BY <2>1
  <2>3. i * w = k * w
    BY <2>1, <2>2
  <2> QED BY <2>1, <2>3
<1>4. g \in Injection(I, S)
  BY <1>2, <1>3 DEF Surjection, Injection, IsInjective
<1> HIDE DEF g, I
<1> QED BY <1>1, <1>2, <1>4, FS_Surjection

\* The n-th or the last of a weekday, as the search computes it.
Target(e, d) ==
  LET last_day == MonthDays[d[1]][d[2]]
      hit == FirstHit(e.weekday, Weekday(DaysBefore(d[1], d[2]))) IN
  IF e.option < 5 THEN hit + e.option * WeekDays
  ELSE hit + ((last_day - hit) \div WeekDays) * WeekDays

LEMMA OtherDay ==
  ASSUME NEW d \in Dates, NEW n \in Nat \ {0}
  PROVE  DayNumber([d EXCEPT ![day] = n]) = n - 1 + DaysBefore(d[1], d[2])
<1> DEFINE t == [d EXCEPT ![3] = n]
<1>1. d \in [Real -> Nat]
  BY DatesAre DEF IsDate
<1>2. t[1] = d[1] /\ t[2] = d[2] /\ t[3] = n
  BY <1>1, RealIs
<1> QED BY <1>2, FieldNames DEF DayNumber

LEMMA PositionIs ==
  ASSUME NEW d \in Dates, NEW e
  PROVE  NextOfPosition(e, d) =
           IF Target(e, d) <= MonthDays[d[1]][d[2]] /\ Target(e, d) >= d[3]
           THEN Target(e, d) ELSE Nothing
<1> DEFINE wd == Weekday(DaysBefore(d[1], d[2]))
<1>1. DayNumber([d EXCEPT ![day] = 1]) = DaysBefore(d[1], d[2])
  <2>1. DayNumber([d EXCEPT ![day] = 1]) = 1 - 1 + DaysBefore(d[1], d[2])
    BY OtherDay
  <2> QED BY <2>1, DayNumberIs
<1>2. wd \in Nat
  BY DayNumberIs, WeekdayIs
<1>3. NextOfPosition(e, d) =
        LET last_day == MonthDays[d[1]][d[2]]
            ahead == e.weekday - wd + 1
            first_hit == IF ahead <= 0 THEN ahead + WeekDays ELSE ahead
            target == IF e.option < 5 THEN first_hit + e.option * WeekDays
                      ELSE first_hit + ((last_day - first_hit) \div WeekDays) * WeekDays
        IN IF target <= last_day /\ target >= d[3] THEN target ELSE Nothing
  BY <1>1, FieldNames DEF NextOfPosition
<1> QED BY <1>3 DEF Target, FirstHit

\* A date fits a position exactly on its target.
LEMMA PositionFits ==
  ASSUME NEW d \in Dates, NEW e, e.kind = "position", e.option \in 0..5,
         e.weekday \in 0..WeekDays - 1
  PROVE  Target(e, d) \in Int /\ (Fits(e, d, 3) <=> d[3] = Target(e, d))
<1> DEFINE last == MonthDays[d[1]][d[2]]
           base == DaysBefore(d[1], d[2])
           hit == FirstHit(e.weekday, Weekday(base))
           W == WeekDays
           same == {n \in 1..last : Weekday(DayNumber([d EXCEPT ![day] = n])) = e.weekday}
           x == d[3]
           T == Target(e, d)
<1>1. last \in Nat \ {0} /\ x \in 1..last /\ base \in Nat
  <2>1. IsDate(d)
    BY DatesAre
  <2> QED BY <2>1, Calendar, DayNumberIs DEF IsDate
<1>2. W \in Nat \ {0}
  BY Calendar
<1>3. /\ hit \in 1..W
      /\ \A n \in Nat \ {0} : Weekday(n - 1 + base) = e.weekday <=> \E j \in Nat : n = hit + j * W
  <2> HIDE DEF last, base, same, x, T
  <2> QED BY <1>1, HitsAre
<1>4. \A n : n \in same <=> n \in 1..last /\ \E j \in Nat : n = hit + j * W
  <2>1. ASSUME NEW n \in 1..last
        PROVE  Weekday(DayNumber([d EXCEPT ![day] = n])) = e.weekday <=> \E j \in Nat : n = hit + j * W
    <3>1. n \in Nat \ {0}
      BY <1>1
    <3>2. DayNumber([d EXCEPT ![day] = n]) = n - 1 + base
      BY <3>1, OtherDay
    <3> HIDE DEF last, base, hit, W, same, x, T
    <3>3. Weekday(n - 1 + base) = e.weekday <=> \E j \in Nat : n = hit + j * W
      BY <1>3, <3>1, Zenon
    <3> QED BY <3>2, <3>3
  <2> HIDE DEF last, base, hit, W, x, T
  <2> QED BY <2>1
<1>5. Fits(e, d, 3) <=>
        /\ x \in same
        /\ IF e.option = 5 THEN x = Max(same)
           ELSE Cardinality({n \in same : n < x}) = e.option
  BY FieldNames DEF Fits
<1>6. T = IF e.option < 5 THEN hit + e.option * W ELSE hit + ((last - hit) \div W) * W
  BY DEF Target
<1> HIDE DEF last, base, hit, W, same, x, T
<1>7. CASE e.option # 5
  <2> DEFINE k == e.option
  <2>1. k \in Nat /\ k < 5
    BY <1>7
  <2>2. T = hit + k * W
    BY <1>6, <2>1
  <2>3. ASSUME NEW j \in Nat, x = hit + j * W
        PROVE  Cardinality({n \in same : n < x}) = j
    <3> DEFINE S == {n \in same : n < x}
    <3>1. ASSUME NEW n \in S PROVE \E i \in 0..j - 1 : n = hit + i * W
      <4>1. PICK i \in Nat : n = hit + i * W
        BY <1>4
      <4>2. i < j
        <5> SUFFICES ASSUME i >= j PROVE FALSE
          OBVIOUS
        <5>1. i * W >= j * W /\ i * W \in Int /\ j * W \in Int
          <6>1. PICK m \in Nat : i = j + m
            <7>1. i - j \in Nat /\ i = j + (i - j)
              OBVIOUS
            <7> QED BY <7>1
          <6>2. (j + m) * W = j * W + m * W /\ m * W >= 0 /\ j * W \in Int /\ m * W \in Int
            BY <1>2
          <6> QED BY <6>1, <6>2
        <5>2. n < x
          OBVIOUS
        <5> QED BY <5>1, <5>2, <4>1, <2>3, <1>2, <1>3
      <4> QED BY <4>1, <4>2
    <3>2. ASSUME NEW i \in 0..j - 1 PROVE hit + i * W \in S
      <4>1. PICK m \in Nat \ {0} : j = i + m
        <5>1. j - i \in Nat \ {0} /\ j = i + (j - i)
          OBVIOUS
        <5> QED BY <5>1
      <4>2. /\ (i + m) * W = i * W + m * W /\ m * W >= 1 /\ i * W >= 0
            /\ i * W \in Int /\ m * W \in Int
        BY <1>2, <4>1
      <4>3. j * W = i * W + m * W
        BY <4>1, <4>2
      <4>4. hit + i * W < x /\ hit + i * W >= 1 /\ hit + i * W \in Int
        BY <4>2, <4>3, <2>3, <1>2, <1>3
      <4>5. hit + i * W \in 1..last
        BY <4>4, <1>1
      <4>6. i \in Nat
        OBVIOUS
      <4> QED BY <4>4, <4>5, <4>6, <1>4
    <3>3. \A n : n \in S <=> \E i \in 0..j - 1 : n = hit + i * W
      <4> HIDE DEF S
      <4> QED BY <3>1, <3>2
    <3>4. hit \in Int
      BY <1>2, <1>3
    <3> HIDE DEF S
    <3>5. Cardinality(S) = j
      BY <3>3, <3>4, <1>2, CountHits
    <3> QED BY <3>5 DEF S
  <2>4. T \in Int
    BY <2>1, <2>2, <1>2, <1>3
  <2>5. Fits(e, d, 3) <=> x \in same /\ Cardinality({n \in same : n < x}) = k
    BY <1>5, <1>7
  <2>6. ASSUME Fits(e, d, 3) PROVE x = T
    <3>1. PICK j \in Nat : x = hit + j * W
      BY <2>5, <2>6, <1>4
    <3>2. j = k
      BY <3>1, <2>3, <2>5, <2>6
    <3> QED BY <3>1, <3>2, <2>2
  <2>7. ASSUME x = T PROVE Fits(e, d, 3)
    <3>1. x \in same
      BY <2>1, <2>2, <2>7, <1>1, <1>4
    <3>2. Cardinality({n \in same : n < x}) = k
      BY <2>1, <2>2, <2>7, <2>3
    <3> QED BY <3>1, <3>2, <2>5
  <2> QED BY <2>4, <2>6, <2>7 DEF x, T
<1>8. CASE e.option = 5
  <2> DEFINE a == last - hit
             k == a \div W
  <2>1. hit \in Int /\ a \in Int
    BY <1>1, <1>2, <1>3
  <2>a. a = last - hit
    OBVIOUS
  <2>2. a = W * k + (a % W) /\ a % W \in 0..W - 1 /\ k \in Int
    <3> HIDE DEF a
    <3> QED BY <1>2, <2>1, Divided
  <2>3. T = hit + k * W
    BY <1>6, <1>8
  <2>4. W * k = k * W /\ k * W \in Int
    BY <1>2, <2>2
  <2> HIDE DEF a, k
  <2>5. T \in Int /\ T <= last /\ T + W > last
    BY <1>1, <1>2, <2>a, <2>1, <2>2, <2>3, <2>4
  <2>6. ASSUME NEW n \in same PROVE n <= T
    <3>1. PICK i \in Nat : n = hit + i * W
      BY <1>4
    <3>2. i <= k
      <4> SUFFICES ASSUME i > k PROVE FALSE
        BY <2>2
      <4>1. PICK m \in Nat : i = k + 1 + m
        <5>1. i - k - 1 \in Nat /\ i = k + 1 + (i - k - 1)
          BY <2>2
        <5> QED BY <5>1
      <4>2. (k + 1 + m) * W = k * W + W + m * W /\ m * W >= 0 /\ m * W \in Int
        BY <1>2, <2>2, <4>1
      <4>3. i * W >= k * W + W /\ i * W \in Int
        BY <1>2, <2>4, <4>1, <4>2
      <4>4. n >= T + W
        BY <1>2, <2>1, <2>3, <2>4, <3>1, <4>3
      <4>5. n \in Int /\ n <= last
        BY <1>1, <1>4
      <4> QED BY <1>1, <1>2, <2>5, <4>4, <4>5
    <3>3. PICK m \in Nat : k = i + m
      <4>1. k - i \in Nat /\ k = i + (k - i)
        BY <2>2, <3>2
      <4> QED BY <4>1
    <3>4. (i + m) * W = i * W + m * W /\ m * W >= 0 /\ i * W \in Int /\ m * W \in Int
      BY <1>2, <3>3
    <3> QED BY <2>1, <2>3, <3>1, <3>3, <3>4
  <2>7. ASSUME T >= 1 PROVE T \in same
    <3>1. k \in Nat
      <4> SUFFICES ASSUME k < 0 PROVE FALSE
        BY <2>2
      <4>1. PICK m \in Nat : k = (0 - 1) - m
        <5>1. (0 - 1) - k \in Nat /\ k = (0 - 1) - ((0 - 1) - k)
          BY <2>2
        <5> QED BY <5>1
      <4>2. ((0 - 1) - m) * W = (0 - W) - m * W /\ m * W >= 0 /\ m * W \in Int
        BY <1>2
      <4>3. k * W = (0 - W) - m * W
        BY <4>1, <4>2
      <4> QED BY <1>2, <1>3, <2>3, <2>7, <4>2, <4>3
    <3>2. T \in 1..last
      BY <1>1, <2>5, <2>7
    <3> QED BY <1>4, <2>3, <3>1, <3>2
  <2>8. same \subseteq 0..last
    BY <1>1, <1>4
  <2>9. ASSUME x \in same PROVE T \in same /\ T = Max(same)
    <3>1. x <= T /\ x >= 1
      BY <1>1, <2>6, <2>9
    <3>2. T \in same
      BY <1>1, <2>5, <2>7, <3>1
    <3>3. Max(same) \in same /\ \A n \in same : Max(same) >= n
      <4>1. last \in Nat
        BY <1>1
      <4>2. same # {}
        BY <2>9
      <4> QED BY <2>8, <4>1, <4>2, GreatestOf
    <3>4. Max(same) <= T /\ Max(same) >= T /\ Max(same) \in Int
      <4>1. Max(same) \in 0..last
        BY <2>8, <3>3
      <4>2. Max(same) \in Int
        BY <1>1, <4>1
      <4> QED BY <2>6, <3>2, <3>3, <4>2
    <3> QED BY <2>5, <3>2, <3>4
  <2>10. Fits(e, d, 3) <=> x \in same /\ x = Max(same)
    BY <1>5, <1>8
  <2>11. ASSUME x = T PROVE x \in same
    BY <1>1, <2>7, <2>11
  <2> QED BY <2>5, <2>9, <2>10, <2>11 DEF x, T
<1> QED BY <1>7, <1>8

LEMMA PositionOffers ==
  ASSUME NEW n \in Dates, NEW e, e.kind = "position", e.option \in 0..5,
         e.weekday \in 0..WeekDays - 1
  PROVE  OfferRight(e, n, 3, NextOfExpr(e, n, 3))
<1> DEFINE v == NextOfExpr(e, n, 3)
           last == MonthDays[n[1]][n[2]]
           T == Target(e, n)
<1>1. v = IF T <= last /\ T >= n[3] THEN T ELSE Nothing
  BY PositionIs DEF NextOfExpr
<1>2. T \in Int
  BY PositionFits
<1>3. 3 \in Fields /\ 3 \in Real
  BY RealIs
<1>4. \A d \in Dates : Value(d, 3) = d[3] /\ d[3] \in Nat
  BY <1>3, ValueIs, ValueInLimits
<1>5. MaxOf(n, 3) = last /\ last \in Nat
  BY <1>3, LimitsAre, ValueInLimits
<1>6. ASSUME NEW d \in Dates, Same(n, d, 3 - 1)
      PROVE  Target(e, d) = T /\ d[3] <= last
  <2>1. d[1] = n[1] /\ d[2] = n[2]
    BY <1>6, RealIs DEF Same
  <2>2. d[3] <= MaxOf(d, 3)
    BY <1>3, <1>4, ValueInLimits
  <2> QED BY <2>1, <2>2, LimitsAre DEF Target
<1>7. \A d \in Dates : Fits(e, d, 3) <=> d[3] = Target(e, d)
  BY PositionFits
<1> HIDE DEF v, last, T
<1>8. v # Nothing => v \in Nat /\ Value(n, 3) <= v /\ v <= MaxOf(n, 3)
  BY <1>1, <1>2, <1>4, <1>5
<1>9. ASSUME v # Nothing, NEW d \in Dates, Same(n, d, 3 - 1), Value(d, 3) = v
      PROVE  Fits(e, d, 3)
  BY <1>1, <1>4, <1>6, <1>7, <1>9
<1>10. ASSUME NEW d \in Dates, Same(n, d, 3 - 1), Value(n, 3) <= Value(d, 3), Fits(e, d, 3)
       PROVE  v # Nothing /\ v <= Value(d, 3)
  <2>1. d[3] = T /\ T <= last /\ T >= n[3] /\ T \in Nat /\ n[3] \in Nat
    BY <1>4, <1>6, <1>7, <1>10
  <2> QED BY <1>1, <1>4, <2>1, FieldNames
<1>11. OfferRight(e, n, 3, v)
  BY <1>8, <1>9, <1>10 DEF OfferRight
<1> QED BY <1>11 DEF v

LEMMA OffersRight ==
  ASSUME NEW n \in Dates, NEW f \in Fields, NEW e, WellFormed(e, f)
  PROVE  OfferRight(e, n, f, NextOfExpr(e, n, f))
BY AllOffers, RangeOffers, LastOffers, PositionOffers, FieldNames DEF WellFormed

-----------------------------------------------------------------------------
(* A field's next value is the least that fits it.                          *)

FitsField(d, f) == \E e \in exprs[f] : Fits(e, d, f)
FormedFields == \A f \in Fields : \A e \in exprs[f] : WellFormed(e, f)

LEMMA NextValueIs ==
  ASSUME FormedFields, NEW n \in Dates, NEW f \in Fields, NEW v, v = NextValue(n, f)
  PROVE  /\ v # Nothing =>
              /\ v \in Nat /\ Value(n, f) <= v /\ v <= MaxOf(n, f)
              /\ \A d \in Dates : Same(n, d, f - 1) /\ Value(d, f) = v => FitsField(d, f)
         /\ \A d \in Dates :
              Same(n, d, f - 1) /\ Value(n, f) <= Value(d, f) /\ FitsField(d, f) =>
                v # Nothing /\ v <= Value(d, f)
<1> DEFINE N(e) == NextOfExpr(e, n, f)
           offers == {N(e) : e \in exprs[f]} \ {Nothing}
<1>1. v = IF offers = {} THEN Nothing ELSE Min(offers)
  BY DEF NextValue
<1>2. \A e \in exprs[f] : OfferRight(e, n, f, N(e))
  BY OffersRight DEF FormedFields
<1>3. offers \subseteq Nat
  <2> SUFFICES ASSUME NEW x \in offers PROVE x \in Nat
    OBVIOUS
  <2>1. PICK e \in exprs[f] : x = N(e) /\ N(e) # Nothing
    OBVIOUS
  <2> HIDE DEF N, offers
  <2> QED BY <1>2, <2>1 DEF OfferRight
<1>4. offers # {} => v \in offers /\ \A x \in offers : v <= x
  <2> HIDE DEF offers
  <2> QED BY <1>1, <1>3, LeastOf
<1>5. ASSUME v # Nothing
      PROVE  \E e \in exprs[f] : v = N(e) /\ N(e) # Nothing
  BY <1>1, <1>4, <1>5
<1>6. ASSUME NEW e \in exprs[f], N(e) # Nothing
      PROVE  v # Nothing /\ v <= N(e)
  <2>1. N(e) \in offers
    BY <1>6
  <2>2. v \in offers /\ v <= N(e)
    BY <1>4, <2>1
  <2> QED BY <2>2
<1> HIDE DEF N, offers
<1>7. ASSUME v # Nothing
      PROVE  /\ v \in Nat /\ Value(n, f) <= v /\ v <= MaxOf(n, f)
             /\ \A d \in Dates : Same(n, d, f - 1) /\ Value(d, f) = v => FitsField(d, f)
  <2>1. PICK e \in exprs[f] : v = N(e) /\ N(e) # Nothing
    BY <1>5, <1>7
  <2> QED BY <1>2, <2>1 DEF OfferRight, FitsField
<1>8. ASSUME NEW d \in Dates, Same(n, d, f - 1), Value(n, f) <= Value(d, f), FitsField(d, f)
      PROVE  v # Nothing /\ v <= Value(d, f)
  <2>1. PICK e \in exprs[f] : Fits(e, d, f)
    BY <1>8 DEF FitsField
  <2>2. N(e) # Nothing /\ N(e) <= Value(d, f) /\ N(e) \in Nat
    BY <1>2, <1>8, <2>1 DEF OfferRight
  <2>3. v # Nothing /\ v <= N(e) /\ v \in Nat
    BY <1>6, <1>7, <2>2
  <2>4. Value(d, f) \in Nat
    BY ValueInLimits
  <2> QED BY <2>2, <2>3, <2>4
<1> QED BY <1>7, <1>8

\* What fits a field depends on the real fields up to it.
LEMMA FitsSame ==
  ASSUME FormedFields, NEW n \in Dates, NEW d \in Dates, NEW f \in Fields, Same(n, d, f),
         FitsField(n, f)
  PROVE  FitsField(d, f)
<1> DEFINE v == NextValue(n, f)
<1>1. Same(n, n, f - 1) /\ Same(n, d, f - 1)
  BY RealIs DEF Same
<1>2. Value(n, f) \in Nat /\ Value(n, f) = Value(d, f)
  BY ValueInLimits, ValueSame
<1> HIDE DEF v
<1>3. v # Nothing /\ v <= Value(n, f)
  BY <1>1, <1>2, NextValueIs DEF v
<1>4. v \in Nat /\ Value(n, f) <= v
  BY <1>3, NextValueIs DEF v
<1>5. Value(d, f) = v
  BY <1>2, <1>3, <1>4
<1> QED BY <1>1, <1>3, <1>5, NextValueIs DEF v

-----------------------------------------------------------------------------
(* The search skips only dates that agree with the one it is at.            *)

LEMMA ResetIs ==
  ASSUME NEW n \in Dates, NEW r \in Real, NEW v \in Nat,
         MinOf(r) <= v, v <= MaxOf(n, r), r = 1 => v < Years,
         NEW e, e = BelowReset(n, r, v)
  PROVE  /\ e \in Dates /\ e[r] = v
         /\ \A g \in Real : (g < r => e[g] = n[g]) /\ (g > r => e[g] = MinOf(g))
<1>1. IsDate(n)
  BY DatesAre
<1>2. e[r] = v /\ \A g \in Real : (g < r => e[g] = n[g]) /\ (g > r => e[g] = MinOf(g))
  <2>1. \A g \in Real : g \in Int
    BY RealIs
  <2> QED BY <2>1 DEF BelowReset
<1>3. e \in [Real -> Nat]
  BY <1>1, LimitsAre, RealIs DEF BelowReset, IsDate
<1>4. e[1] \in 0..Years - 1 /\ e[2] \in 1..Months
  BY <1>1, <1>2, LimitsAre, RealIs, Calendar DEF IsDate
<1>5. e[3] \in 1..MonthDays[e[1]][e[2]]
  <2>1. MonthDays[e[1]][e[2]] \in Nat \ {0}
    BY <1>4, Calendar
  <2>2. CASE r < 3
    BY <1>2, <2>1, <2>2, LimitsAre, RealIs
  <2>3. CASE r >= 3
    <3>1. e[1] = n[1] /\ e[2] = n[2]
      BY <1>2, <2>3, RealIs
    <3>2. CASE r = 3
      BY <1>2, <2>1, <3>1, <3>2, LimitsAre, RealIs
    <3>3. CASE r > 3
      BY <1>1, <1>2, <2>1, <3>1, <3>3, RealIs DEF IsDate
    <3> QED BY <2>3, <3>2, <3>3, RealIs
  <2> QED BY <2>2, <2>3, RealIs
<1>6. \A c \in {6, 7, 8} : e[c] \in 0..ClockMax[c]
  <2> TAKE c \in {6, 7, 8}
  <2>1. ClockMax[c] \in Nat /\ n[c] \in 0..ClockMax[c] /\ MinOf(c) = 0 /\ MaxOf(n, c) = ClockMax[c]
    BY <1>1, LimitsAre, Calendar DEF IsDate
  <2> QED BY <1>2, <2>1, RealIs
<1>7. e \in Dates
  BY <1>3, <1>4, <1>5, <1>6, DatesAre DEF IsDate
<1> QED BY <1>2, <1>7

\* What lies between a date and the same with a field raised agrees with it before that
\* field, and has less there.
LEMMA GapIs ==
  ASSUME NEW n \in Dates, NEW r \in Real, NEW v \in Nat,
         MinOf(r) <= v, v <= MaxOf(n, r), r = 1 => v < Years,
         NEW e, e = BelowReset(n, r, v)
  PROVE  /\ n[r] < v => Precedes(n, e)
         /\ \A d \in Dates : Precedes(d, e) /\ ~Precedes(d, n) =>
              Same(n, d, r - 1) /\ n[r] <= d[r] /\ d[r] < v
<1>1. /\ e \in Dates /\ e[r] = v
      /\ \A g \in Real : (g < r => e[g] = n[g]) /\ (g > r => e[g] = MinOf(g))
  BY ResetIs
<1>2. n[r] < v => Precedes(n, e)
  BY <1>1 DEF Precedes
<1>3. ASSUME NEW d \in Dates, Precedes(d, e), ~Precedes(d, n)
      PROVE  Same(n, d, r - 1) /\ n[r] <= d[r] /\ d[r] < v
  <2>1. PICK i \in Real : d[i] < e[i] /\ \A k \in Real : k < i => d[k] = e[k]
    BY <1>3 DEF Precedes
  <2>2. n \in [Real -> Nat] /\ d \in [Real -> Nat] /\ e \in [Real -> Nat]
    BY <1>1, DatesAre DEF IsDate
  <2>3. \A g \in Real : d[g] >= MinOf(g) /\ MinOf(g) \in Nat /\ d[g] \in Nat
    <3> TAKE g \in Real
    <3>1. Value(d, g) = d[g] /\ g \in Fields
      BY ValueIs, RealIs
    <3> QED BY <3>1, <2>2, ValueInLimits
  <2>4. \A g \in Real : g \in Int
    BY RealIs
  <2>5. ~(i > r)
    <3> SUFFICES ASSUME i > r PROVE FALSE
      OBVIOUS
    <3>1. e[i] = MinOf(i)
      BY <1>1
    <3> QED BY <2>1, <2>2, <2>3, <3>1
  <2>6. ~(i < r)
    <3> SUFFICES ASSUME i < r PROVE FALSE
      OBVIOUS
    <3>1. e[i] = n[i] /\ \A k \in Real : k < i => d[k] = n[k]
      BY <1>1, <2>1, <2>4
    <3> QED BY <1>3, <2>1, <3>1 DEF Precedes
  <2>7. i = r
    BY <2>4, <2>5, <2>6
  <2>8. \A k \in Real : k < r => d[k] = n[k]
    BY <1>1, <2>1, <2>7
  <2>9. ~(d[r] < n[r])
    BY <1>3, <2>8 DEF Precedes
  <2>10. Same(n, d, r - 1)
    BY <2>4, <2>8 DEF Same
  <2> QED BY <1>1, <2>1, <2>2, <2>7, <2>9, <2>10
<1> QED BY <1>2, <1>3

LEMMA RaisedIs ==
  ASSUME NEW n \in Dates, NEW f \in 0..8, NEW r, r = Raised(n, f)
  PROVE  /\ r = 0 => f = 0
         /\ r # 0 => /\ r \in Real /\ r <= f /\ n[r] # MaxOf(n, r)
                     /\ \A g \in Real : r < g /\ g <= f => n[g] = MaxOf(n, g)
<1> DEFINE S == CanRise(n, f)
<1>1. S \subseteq 0..8 /\ 0 \notin S
  BY RealIs DEF CanRise
<1>2. f # 0 => 1 \in S
  <2>1. n[1] < Years /\ n[1] \in Int
    BY DatesAre, Calendar DEF IsDate
  <2>2. n[1] # MaxOf(n, 1)
    BY <2>1, LimitsAre, Calendar
  <2> QED BY <2>2, RealIs DEF CanRise
<1>3. r = IF S = {} THEN 0 ELSE Max(S)
  BY DEF Raised
<1>4. S # {} => Max(S) \in S /\ \A x \in S : Max(S) >= x
  <2> HIDE DEF S
  <2>1. 8 \in Nat
    OBVIOUS
  <2> QED BY <1>1, <2>1, GreatestOf
<1>5. r = 0 => f = 0
  <2> HIDE DEF S
  <2> QED BY <1>1, <1>2, <1>3, <1>4
<1>6. ASSUME r # 0
      PROVE  /\ r \in Real /\ r <= f /\ n[r] # MaxOf(n, r)
             /\ \A g \in Real : r < g /\ g <= f => n[g] = MaxOf(n, g)
  <2>1. r \in S /\ \A x \in S : r >= x
    BY <1>3, <1>4, <1>6
  <2>2. r \in Int /\ \A g \in Real : g \in Int
    BY <2>1, RealIs DEF CanRise
  <2>3. ASSUME NEW g \in Real, r < g, g <= f PROVE n[g] = MaxOf(n, g)
    <3>1. g \notin S
      BY <2>1, <2>2, <2>3
    <3> QED BY <2>3, <3>1 DEF CanRise
  <2> QED BY <2>1, <2>3 DEF CanRise
<1> QED BY <1>5, <1>6

\* The fields between the raised one and the given one are at their maxima.
LEMMA AgreeFurther ==
  ASSUME NEW n \in Dates, NEW f \in 0..8, NEW r \in 0..8,
         \A g \in Real : r < g /\ g <= f => n[g] = MaxOf(n, g),
         NEW d \in Dates, ~Precedes(d, n), Same(n, d, r)
  PROVE  Same(n, d, f)
<1>1. CASE n = d
  BY <1>1 DEF Same
<1>2. CASE Precedes(n, d)
  <2>1. PICK i \in Real : n[i] < d[i] /\ \A k \in Real : k < i => n[k] = d[k]
    BY <1>2 DEF Precedes
  <2>2. i \in Fields /\ \A g \in Real : g \in Int
    BY RealIs
  <2>3. n[i] \in Nat /\ d[i] \in Nat
    BY DatesAre DEF IsDate
  <2>4. i > r
    <3> SUFFICES ASSUME i <= r PROVE FALSE
      BY <2>2
    <3>1. n[i] = d[i]
      BY DEF Same
    <3> QED BY <2>1, <2>3, <3>1
  <2>5. Same(n, d, i - 1)
    BY <2>1, <2>2 DEF Same
  <2>6. i > f
    <3> SUFFICES ASSUME i <= f PROVE FALSE
      BY <2>2
    <3>1. n[i] = MaxOf(n, i) /\ MaxOf(n, i) = MaxOf(d, i)
      BY <2>2, <2>4, <2>5, MaxSame
    <3>2. d[i] <= MaxOf(d, i) /\ MaxOf(d, i) \in Nat
      BY <2>2, ValueInLimits, ValueIs
    <3> QED BY <2>1, <2>3, <3>1, <3>2
  <2> QED BY <2>1, <2>2, <2>6 DEF Same
<1> QED BY <1>1, <1>2, Trichotomy

LEMMA IncrementIs ==
  ASSUME NEW n \in Dates, NEW f \in 0..8, NEW anew \in BOOLEAN, anew => f # 0,
         Increment(n, f, anew)
  PROVE  \/ cronPc' = "raised" /\ \A d \in Dates : ~Precedes(d, n) => Same(n, d, f)
         \/ cronPc' = "none" /\ f = 0
         \/ /\ cronPc' = "search" /\ next_date' \in Dates /\ Precedes(n, next_date')
            /\ \A d \in Dates : Precedes(d, next_date') /\ ~Precedes(d, n) => Same(n, d, f)
            /\ fieldnum' \in Real /\ (~anew => fieldnum' <= f) /\ (anew => fieldnum' = 1)
            /\ Same(n, next_date', fieldnum' - 1)
<1> DEFINE r == Raised(n, f)
<1>1. /\ r = 0 => f = 0
      /\ r # 0 => /\ r \in Real /\ r <= f /\ n[r] # MaxOf(n, r)
                  /\ \A g \in Real : r < g /\ g <= f => n[g] = MaxOf(n, g)
  BY RaisedIs
<1>2. IF r = 1 /\ n[1] = Years - 1
      THEN cronPc' = "raised"
      ELSE /\ next_date' = IF r = 0 THEN [g \in Real |-> MinOf(g)] ELSE BelowReset(n, r, n[r] + 1)
           /\ fieldnum' = IF anew THEN 1 ELSE r
           /\ cronPc' = IF r = 0 /\ ~anew THEN "none" ELSE "search"
  BY FieldNames DEF Increment
<1> HIDE DEF r
<1>3. CASE r = 0
  BY <1>1, <1>2, <1>3
<1>4. CASE r # 0
  <2>0. r \in Real /\ r \in 0..8 /\ r \in Fields /\ n[r] \in Nat
    <3>1. n \in [Real -> Nat]
      BY DatesAre DEF IsDate
    <3> QED BY <1>1, <1>4, <3>1, RealIs
  <2>1. ASSUME NEW d \in Dates, ~Precedes(d, n), Same(n, d, r) PROVE Same(n, d, f)
    BY <1>1, <1>4, <2>0, <2>1, AgreeFurther
  <2>2. CASE r = 1 /\ n[1] = Years - 1
    <3>1. ASSUME NEW d \in Dates, ~Precedes(d, n) PROVE Same(n, d, 1)
      <4>1. d[1] \in 0..Years - 1
        BY DatesAre DEF IsDate
      <4>2. ~(d[1] < n[1])
        BY <3>1, RealIs DEF Precedes
      <4>3. d[1] = n[1]
        BY <2>2, <4>1, <4>2, Calendar
      <4> QED BY <4>3, RealIs DEF Same
    <3> QED BY <1>2, <2>1, <2>2, <3>1
  <2>3. CASE ~(r = 1 /\ n[1] = Years - 1)
    <3> DEFINE v == n[r] + 1
    <3>1. next_date' = BelowReset(n, r, v) /\ fieldnum' = (IF anew THEN 1 ELSE r)
          /\ cronPc' = "search"
      BY <1>2, <1>4, <2>3
    <3>2. Value(n, r) = n[r] /\ MinOf(r) <= n[r] /\ n[r] <= MaxOf(n, r)
          /\ MinOf(r) \in Nat /\ MaxOf(n, r) \in Nat
      BY <2>0, ValueIs, ValueInLimits
    <3>3. v \in Nat /\ MinOf(r) <= v /\ v <= MaxOf(n, r) /\ n[r] < v
      BY <1>1, <1>4, <2>0, <3>2
    <3>4. r = 1 => v < Years
      <4>1. n[1] \in 0..Years - 1
        BY DatesAre DEF IsDate
      <4> QED BY <2>3, <4>1, Calendar
    <3>v. v = n[r] + 1
      OBVIOUS
    <3> HIDE DEF v
    <3>5. /\ next_date' \in Dates
          /\ \A g \in Real : g < r => next_date'[g] = n[g]
      BY <2>0, <3>1, <3>3, <3>4, ResetIs
    <3>6. /\ Precedes(n, next_date')
          /\ \A d \in Dates : Precedes(d, next_date') /\ ~Precedes(d, n) =>
               Same(n, d, r - 1) /\ n[r] <= d[r] /\ d[r] < v
      BY <2>0, <3>1, <3>3, <3>4, GapIs
    <3>7. ASSUME NEW d \in Dates, Precedes(d, next_date'), ~Precedes(d, n) PROVE Same(n, d, f)
      <4>1. Same(n, d, r - 1) /\ n[r] <= d[r] /\ d[r] < v
        BY <3>6, <3>7
      <4>2. d[r] \in Nat
        BY <2>0, DatesAre DEF IsDate
      <4>3. d[r] = n[r]
        BY <2>0, <3>v, <4>1, <4>2
      <4>4. Same(n, d, r)
        BY <2>0, <4>1, <4>3, RealIs DEF Same
      <4> QED BY <2>1, <3>7, <4>4
    <3>8. Same(n, next_date', fieldnum' - 1)
      BY <2>0, <3>1, <3>5, RealIs DEF Same
    <3>9. fieldnum' \in Real /\ (~anew => fieldnum' <= f) /\ (anew => fieldnum' = 1)
      BY <1>1, <1>4, <3>1, RealIs
    <3> QED BY <3>1, <3>5, <3>6, <3>7, <3>8, <3>9
  <2> QED BY <2>2, <2>3
<1> QED BY <1>3, <1>4

-----------------------------------------------------------------------------
(* The search is right at each of its steps: the date it is at is reached   *)
(* and fits the fields gone through, and no reached date before it fits all.*)

DateRecord(r) == r.date \in Dates /\ r.micro \in BOOLEAN
GivenRight == FormedFields /\ DateRecord(asked) /\ (start_date = NoDate \/ DateRecord(start_date))
NoneBefore(n) == \A d \in Dates : Precedes(d, n) /\ Reached(d) => ~Matches(d)
NoneAtAll == \A d \in Dates : Reached(d) => ~Matches(d)

CronInv ==
  /\ GivenRight
  /\ cronPc = "ask" => fieldnum = 1
  /\ cronPc = "search" => fieldnum \in 1..9 /\ \A g \in Fields : g < fieldnum => FitsField(next_date, g)
  /\ cronPc = "found" => Matches(next_date)
  /\ cronPc \in {"search", "found"} => next_date \in Dates /\ Reached(next_date) /\ NoneBefore(next_date)
  /\ cronPc \in {"none", "raised"} => NoneAtAll

LEMMA NoDateIsNone == ASSUME NEW r, DateRecord(r) PROVE r # NoDate
<1>1. <<>> \notin [Real -> Nat]
  BY RealIs
<1>2. r.date \in [Real -> Nat] /\ NoDate.date = <<>>
  BY DatesAre DEF DateRecord, IsDate, NoDate
<1> QED BY <1>1, <1>2

LEMMA LaterIs ==
  ASSUME GivenRight
  PROVE  /\ DateRecord(Later)
         /\ \A d \in Dates : Reached(d) <=> Precedes(Later.date, d) \/ (d = Later.date /\ ~Later.micro)
<1> DEFINE From(r, d) == Precedes(r.date, d) \/ (d = r.date /\ ~r.micro)
<1>1. DateRecord(asked) /\ asked # NoDate
  BY NoDateIsNone DEF GivenRight
<1>2. \A d \in Dates : Reached(d) <=> \A from \in {asked, start_date} \ {NoDate} : From(from, d)
  <2> SUFFICES ASSUME NEW d \in Dates, NEW from \in {asked, start_date} \ {NoDate}
               PROVE  Before(Order(from.date), Order(d)) <=> Precedes(from.date, d)
    BY DEF Reached
  <2>1. from.date \in Dates
    BY <1>1 DEF GivenRight, DateRecord
  <2> QED BY <2>1, OrderPrecedes
<1>3. CASE start_date = NoDate
  <2>1. Later = asked /\ {asked, start_date} \ {NoDate} = {asked}
    BY <1>1, <1>3 DEF Later
  <2> QED BY <1>1, <1>2, <2>1
<1>4. CASE start_date # NoDate
  <2> DEFINE a == asked.date
             s == start_date.date
  <2>1. DateRecord(start_date) /\ a \in Dates /\ s \in Dates
    BY <1>1, <1>4 DEF GivenRight, DateRecord
  <2>2. Later = IF Precedes(a, s) \/ (a = s /\ start_date.micro) THEN start_date ELSE asked
    BY <1>4, <2>1, OrderPrecedes DEF Later
  <2>3. \A d \in Dates : Reached(d) <=> From(asked, d) /\ From(start_date, d)
    BY <1>1, <1>2, <1>4
  <2>4. CASE Precedes(a, s) \/ (a = s /\ start_date.micro)
    <3>1. Later = start_date
      BY <2>2, <2>4
    <3>2. ASSUME NEW d \in Dates, From(start_date, d) PROVE From(asked, d)
      BY <2>1, <2>4, <3>2, Transitive
    <3> QED BY <2>1, <2>3, <3>1, <3>2
  <2>5. CASE ~(Precedes(a, s) \/ (a = s /\ start_date.micro))
    <3>1. Later = asked
      BY <2>2, <2>5
    <3>2. Precedes(s, a) \/ (a = s /\ ~start_date.micro)
      BY <2>1, <2>5, Trichotomy DEF DateRecord
    <3>3. ASSUME NEW d \in Dates, From(asked, d) PROVE From(start_date, d)
      BY <2>1, <3>2, <3>3, Transitive
    <3> QED BY <1>1, <2>3, <3>1, <3>3
  <2> QED BY <2>4, <2>5
<1> QED BY <1>3, <1>4

LEMMA ReachedLater ==
  ASSUME GivenRight, NEW n \in Dates, NEW d \in Dates, Reached(n), Precedes(n, d)
  PROVE  Reached(d)
BY LaterIs, Transitive DEF DateRecord

\* A step keeps what the search was given.
LEMMA SameGiven ==
  ASSUME UNCHANGED <<exprs, asked, start_date>>
  PROVE  /\ GivenRight' <=> GivenRight
         /\ \A d : (Reached(d)' <=> Reached(d)) /\ (Matches(d)' <=> Matches(d))
         /\ \A d, f : FitsField(d, f)' <=> FitsField(d, f)
BY DEF GivenRight, FormedFields, Reached, Matches, FitsField

LEMMA CronInitInv == CronInit => CronInv
<1> SUFFICES ASSUME CronInit PROVE CronInv
  OBVIOUS
<1>1. PICK chosen \in SUBSET Fields :
        \E pick \in [chosen -> UNION {Offered[f] : f \in chosen}] :
          /\ \A f \in chosen : pick[f] \in Offered[f]
          /\ exprs = [f \in Fields |-> IF f \in chosen THEN pick[f] ELSE DefaultOf(f, chosen)]
  BY DEF CronInit
<1>2. PICK pick \in [chosen -> UNION {Offered[f] : f \in chosen}] :
          /\ \A f \in chosen : pick[f] \in Offered[f]
          /\ exprs = [f \in Fields |-> IF f \in chosen THEN pick[f] ELSE DefaultOf(f, chosen)]
  BY <1>1
<1>3. ASSUME NEW f \in Fields, NEW e \in exprs[f] PROVE WellFormed(e, f)
  <2>1. CASE f \in chosen
    <3>1. exprs[f] \in Offered[f]
      BY <1>2, <2>1
    <3> QED BY <3>1, OfferedAssumption
  <2>2. CASE f \notin chosen
    <3>1. e \in DefaultOf(f, chosen)
      BY <1>2, <2>2
    <3>2. e = StarStep(0) \/ e = Span(MinOf(f), Nothing, 0)
      BY <3>1 DEF DefaultOf
    <3>3. MinOf(f) \in Nat
      BY RealIs, LimitsAre
    <3> QED BY <3>2, <3>3 DEF WellFormed, StarStep, Span
  <2> QED BY <2>1, <2>2
<1>4. DateRecord(asked)
  BY OfferedAssumption DEF CronInit, DateRecord
<1>5. start_date = NoDate \/ DateRecord(start_date)
  BY OfferedAssumption DEF CronInit, DateRecord
<1>6. cronPc = "ask" /\ fieldnum = 1
  BY FieldNames DEF CronInit
<1> QED BY <1>3, <1>4, <1>5, <1>6 DEF CronInv, GivenRight, FormedFields

\* Increment goes on rightly if no date that agrees with n up to the field f fits.
LEMMA IncrementInv ==
  ASSUME CronInv, UNCHANGED <<exprs, asked, start_date>>,
         NEW n \in Dates, NEW f \in 0..8, NEW anew \in BOOLEAN, anew => f # 0,
         Increment(n, f, anew),
         \A d \in Dates : Reached(d) => ~Precedes(d, n) \/ ~Matches(d),
         \A d \in Dates : Reached(d) /\ ~Precedes(d, n) /\ Same(n, d, f) => ~Matches(d),
         \A d \in Dates : Precedes(n, d) => Reached(d),
         \A g \in Fields : g < f /\ ~anew => FitsField(n, g)
  PROVE  CronInv'
<1>m. PICK m : m = next_date'
  OBVIOUS
<1>1. GivenRight'
  BY SameGiven DEF CronInv
<1>2. CASE cronPc' = "raised" /\ \A d \in Dates : ~Precedes(d, n) => Same(n, d, f)
  <2>1. NoneAtAll'
    BY <1>2, SameGiven DEF NoneAtAll
  <2> QED BY <1>1, <1>2, <2>1 DEF CronInv
<1>3. CASE cronPc' = "none" /\ f = 0
  <2>1. \A d \in Dates : Same(n, d, f)
    BY <1>3, RealIs DEF Same
  <2>2. NoneAtAll'
    BY <2>1, SameGiven DEF NoneAtAll
  <2> QED BY <1>1, <1>3, <2>2 DEF CronInv
<1>4. CASE /\ cronPc' = "search" /\ m \in Dates /\ Precedes(n, m)
           /\ \A d \in Dates : Precedes(d, m) /\ ~Precedes(d, n) => Same(n, d, f)
           /\ fieldnum' \in Real /\ (~anew => fieldnum' <= f) /\ (anew => fieldnum' = 1)
           /\ Same(n, m, fieldnum' - 1)
  <2>1. Reached(m)'
    BY <1>4, SameGiven
  <2>2. NoneBefore(m)'
    <3>1. \A d \in Dates : Precedes(d, m) /\ Reached(d) => ~Matches(d)
      BY <1>4
    <3> QED BY <3>1, SameGiven DEF NoneBefore
  <2>3. ASSUME NEW g \in Fields, g < fieldnum' PROVE FitsField(m, g)'
    <3>1. ~anew /\ g < f /\ g < fieldnum'
      <4>1. fieldnum' \in Int /\ g \in Int /\ g >= 1
        BY <1>4, RealIs
      <4>2. fieldnum' # 1
        BY <2>3, <4>1
      <4>3. ~anew /\ fieldnum' <= f
        BY <1>4, <4>2
      <4>4. f \in Int /\ g < fieldnum'
        BY <2>3
      <4>5. g < f
        BY <4>1, <4>3, <4>4
      <4> QED BY <4>3, <4>4, <4>5, Zenon
    <3>2. Same(n, m, g)
      <4>1. Same(n, m, fieldnum' - 1)
        BY <1>4
      <4>2. fieldnum' \in Int /\ g \in Int /\ \A h \in Real : h \in Int
        BY <1>4, RealIs
      <4>3. \A h \in Real : h <= g => h <= fieldnum' - 1
        BY <4>2, <3>1
      <4> QED BY <4>1, <4>3 DEF Same
    <3>3. FormedFields
      BY DEF CronInv, GivenRight
    <3>4. FitsField(m, g)
      BY <1>4, <3>1, <3>2, <3>3, FitsSame
    <3> QED BY <3>4, SameGiven
  <2>4. fieldnum' \in 1..9
    BY <1>4, RealIs
  <2> QED BY <1>1, <1>4, <2>1, <2>2, <2>3, <2>4, <1>m DEF CronInv
<1> QED BY <1>2, <1>3, <1>4, <1>m, IncrementIs

LEMMA AskInv == CronInv /\ Ask => CronInv'
<1> SUFFICES ASSUME CronInv, Ask PROVE CronInv'
  OBVIOUS
<1>n. PICK n : n = Later.date
  OBVIOUS
<1>1. GivenRight /\ cronPc = "ask" /\ fieldnum = 1
  BY DEF CronInv, Ask
<1>2. /\ n \in Dates /\ Later.micro \in BOOLEAN
      /\ \A d \in Dates : Reached(d) <=> Precedes(n, d) \/ (d = n /\ ~Later.micro)
  BY <1>1, <1>n, LaterIs DEF DateRecord
<1>3. \A d \in Dates : Reached(d) => ~Precedes(d, n)
  BY <1>2, Trichotomy
<1>4. UNCHANGED <<exprs, asked, start_date>>
  BY DEF Ask
<1>5. CASE Later.micro
  <2>1. Increment(n, 8, TRUE)
    BY <1>5, <1>n, FieldNames DEF Ask
  <2>2. \A d \in Dates : Reached(d) => ~Same(n, d, 8)
    BY <1>2, <1>5, Trichotomy
  <2>3. 8 \in 0..8 /\ TRUE \in BOOLEAN /\ 8 # 0
    OBVIOUS
  <2> QED BY <1>2, <1>3, <1>4, <2>1, <2>2, <2>3, IncrementInv
<1>6. CASE ~Later.micro
  <2>1. next_date' = n /\ cronPc' = "search" /\ fieldnum' = 1
    BY <1>1, <1>6, <1>n DEF Ask
  <2>2. Reached(n) /\ NoneBefore(n)
    BY <1>2, <1>3, <1>6 DEF NoneBefore
  <2>3. Reached(n)' /\ NoneBefore(n)'
    <3>1. \A d \in Dates : Precedes(d, n) /\ Reached(d) => ~Matches(d)
      BY <2>2 DEF NoneBefore
    <3> QED BY <1>4, <2>2, <3>1, SameGiven DEF NoneBefore
  <2>5. GivenRight'
    BY <1>1, <1>4, SameGiven
  <2>6. \A g \in Fields : ~(g < fieldnum')
    BY <2>1, RealIs
  <2> QED BY <1>2, <2>1, <2>3, <2>5, <2>6 DEF CronInv
<1> QED BY <1>2, <1>5, <1>6

LEMMA SearchInv == CronInv /\ Search => CronInv'
<1> SUFFICES ASSUME CronInv, Search PROVE CronInv'
  OBVIOUS
<1>n. PICK n : n = next_date
  OBVIOUS
<1>f. PICK f : f = fieldnum
  OBVIOUS
<1>c. PICK curr : curr = Value(n, f)
  OBVIOUS
<1>v. PICK next : next = NextValue(n, f)
  OBVIOUS
<1>1. /\ GivenRight /\ FormedFields /\ cronPc = "search" /\ f \in Fields
      /\ \A g \in Fields : g < f => FitsField(n, g)
      /\ n \in Dates /\ Reached(n) /\ NoneBefore(n)
  BY <1>n, <1>f DEF CronInv, Search, GivenRight
<1>2. UNCHANGED <<exprs, asked, start_date>>
  BY DEF Search
<1>3. IF next = Nothing THEN Increment(n, f - 1, FALSE)
      ELSE IF next > curr /\ f \notin Real THEN Increment(n, f, FALSE)
      ELSE IF f = 1 /\ next >= Years
      THEN cronPc' = "raised" /\ UNCHANGED <<next_date, fieldnum>>
      ELSE /\ next_date' = IF next > curr THEN BelowReset(n, f, next) ELSE n
           /\ fieldnum' = f + 1 /\ UNCHANGED cronPc
  BY <1>n, <1>f, <1>c, <1>v, FieldNames DEF Search
<1>4. /\ next # Nothing =>
           /\ next \in Nat /\ curr <= next /\ next <= MaxOf(n, f)
           /\ \A d \in Dates : Same(n, d, f - 1) /\ Value(d, f) = next => FitsField(d, f)
      /\ \A d \in Dates :
           Same(n, d, f - 1) /\ curr <= Value(d, f) /\ FitsField(d, f) =>
             next # Nothing /\ next <= Value(d, f)
  BY <1>1, <1>c, <1>v, NextValueIs
<1>5. curr \in Nat /\ MinOf(f) \in Nat /\ MinOf(f) <= curr /\ MaxOf(n, f) \in Nat /\ f \in 1..8
  BY <1>1, <1>c, ValueInLimits, RealIs
<1>6. \A d \in Dates : Reached(d) => ~Precedes(d, n) \/ ~Matches(d)
  BY <1>1 DEF NoneBefore
<1>7. \A d \in Dates : Precedes(n, d) => Reached(d)
  BY <1>1, ReachedLater
<1>8. \A d : Matches(d) => FitsField(d, f)
  BY <1>1 DEF Matches, FitsField
\* Dates that agree on the fields before f have no less in f.
<1>9. ASSUME NEW d \in Dates, ~Precedes(d, n), Same(n, d, f - 1)
      PROVE  curr <= Value(d, f) /\ Value(d, f) \in Nat
  <2>1. Value(d, f) \in Nat
    BY <1>1, ValueInLimits
  <2>2. CASE f \in Real
    <3>1. Value(d, f) = d[f] /\ curr = n[f]
      BY <1>c, <2>2, ValueIs
    <3>2. \A k \in Real : k < f => d[k] = n[k]
      BY <1>9, <2>2, RealIs DEF Same
    <3>3. ~(d[f] < n[f])
      BY <1>9, <2>2, <3>2 DEF Precedes
    <3> QED BY <1>5, <2>1, <3>1, <3>3
  <2>3. CASE f \notin Real
    <3>1. Same(n, d, f)
      BY <1>5, <1>9, <2>3, RealIs DEF Same
    <3>2. Value(d, f) = curr
      BY <1>1, <1>c, <3>1, ValueSame
    <3> QED BY <2>1, <3>2
  <2> QED BY <2>1, <2>2, <2>3
<1>10. CASE next = Nothing
  <2>1. Increment(n, f - 1, FALSE)
    BY <1>3, <1>10
  <2>2. \A d \in Dates : Reached(d) /\ ~Precedes(d, n) /\ Same(n, d, f - 1) => ~Matches(d)
    BY <1>4, <1>8, <1>9, <1>10
  <2>3. f - 1 \in 0..8 /\ FALSE \in BOOLEAN
    BY <1>5
  <2>4. \A g \in Fields : g < f - 1 => FitsField(n, g)
    <3>1. \A g \in Fields : g < f - 1 => g < f
      BY <1>5, RealIs
    <3> QED BY <1>1, <3>1
  <2> QED BY <1>1, <1>2, <1>6, <1>7, <2>1, <2>2, <2>3, <2>4, IncrementInv
<1>11. CASE next # Nothing /\ next > curr /\ f \notin Real
  <2>1. Increment(n, f, FALSE)
    BY <1>3, <1>11
  <2>2. ASSUME NEW d \in Dates, Same(n, d, f) PROVE ~Matches(d)
    <3>1. Value(d, f) = curr /\ Same(n, d, f - 1)
      <4>1. Value(d, f) = curr
        BY <1>1, <1>c, <2>2, ValueSame
      <4> QED BY <1>5, <2>2, <4>1, RealIs DEF Same
    <3>2. ~FitsField(d, f)
      BY <1>4, <1>5, <1>11, <3>1
    <3> QED BY <1>8, <3>2
  <2>3. f \in 0..8 /\ FALSE \in BOOLEAN
    BY <1>5
  <2> QED BY <1>1, <1>2, <1>6, <1>7, <2>1, <2>2, <2>3, IncrementInv
<1>12. CASE next # Nothing /\ ~(next > curr /\ f \notin Real) /\ f = 1 /\ next >= Years
  <2>1. cronPc' = "raised"
    BY <1>3, <1>12
  <2>2. ASSUME NEW d \in Dates, Reached(d) PROVE ~Matches(d)
    <3> SUFFICES ASSUME Matches(d) PROVE FALSE
      OBVIOUS
    <3>1. ~Precedes(d, n) /\ FitsField(d, f)
      BY <1>6, <1>8, <2>2
    <3>2. Same(n, d, f - 1)
      BY <1>12, RealIs DEF Same
    <3>3. next <= Value(d, f) /\ Value(d, f) \in Nat
      BY <1>4, <1>9, <3>1, <3>2
    <3>4. Value(d, f) = d[1] /\ d[1] \in 0..Years - 1
      BY <1>12, ValueIs, RealIs, DatesAre DEF IsDate
    <3> QED BY <1>4, <1>12, <3>3, <3>4, Calendar
  <2>3. NoneAtAll'
    BY <1>2, <2>2, SameGiven DEF NoneAtAll
  <2>4. GivenRight'
    BY <1>1, <1>2, SameGiven
  <2> QED BY <2>1, <2>3, <2>4 DEF CronInv
<1>13. CASE next # Nothing /\ ~(next > curr /\ f \notin Real) /\ ~(f = 1 /\ next >= Years)
  <2>m. PICK m : m = IF next > curr THEN BelowReset(n, f, next) ELSE n
    OBVIOUS
  <2>1. next_date' = m /\ fieldnum' = f + 1 /\ cronPc' = "search"
    BY <1>1, <1>3, <1>13, <2>m
  <2>2. /\ m \in Dates /\ Reached(m) /\ Same(n, m, f - 1) /\ Value(m, f) = next
        /\ \A d \in Dates : Precedes(d, m) /\ ~Precedes(d, n) => ~Matches(d)
    <3>1. CASE next > curr
      <4>0. f \in Real /\ m = BelowReset(n, f, next) /\ curr = n[f]
        BY <1>c, <1>13, <2>m, <3>1, ValueIs
      <4>1. /\ next \in Nat /\ MinOf(f) <= next /\ next <= MaxOf(n, f) /\ n[f] < next
            /\ f = 1 => next < Years
        BY <1>4, <1>5, <1>13, <3>1, <4>0, Calendar
      <4>2. /\ m \in Dates /\ m[f] = next /\ \A g \in Real : g < f => m[g] = n[g]
        BY <1>1, <4>0, <4>1, ResetIs
      <4>3. /\ Precedes(n, m)
            /\ \A d \in Dates : Precedes(d, m) /\ ~Precedes(d, n) =>
                 Same(n, d, f - 1) /\ n[f] <= d[f] /\ d[f] < next
        BY <1>1, <4>0, <4>1, GapIs
      <4>4. Same(n, m, f - 1) /\ Value(m, f) = next
        BY <1>5, <4>0, <4>2, RealIs, ValueIs DEF Same
      <4>5. ASSUME NEW d \in Dates, Precedes(d, m), ~Precedes(d, n) PROVE ~Matches(d)
        <5>1. Same(n, d, f - 1) /\ Value(d, f) < next /\ Value(d, f) \in Nat
          BY <1>9, <4>0, <4>3, <4>5, ValueIs
        <5>2. curr <= Value(d, f)
          BY <1>9, <4>5, <5>1
        <5>3. ~FitsField(d, f)
          BY <1>4, <4>1, <5>1, <5>2
        <5> QED BY <1>8, <5>3
      <4> QED BY <1>7, <4>2, <4>3, <4>4, <4>5
    <3>2. CASE ~(next > curr)
      <4>1. m = n /\ next = curr
        BY <1>4, <1>5, <1>13, <2>m, <3>2
      <4> QED BY <1>1, <1>c, <4>1 DEF Same
    <3> QED BY <3>1, <3>2
  <2>3. ASSUME NEW g \in Fields, g < f + 1 PROVE FitsField(m, g)
    <3>1. CASE g = f
      BY <1>4, <1>13, <2>2, <3>1
    <3>2. CASE g < f
      <4>1. FitsField(n, g)
        BY <1>1, <3>2
      <4>2. Same(n, m, g)
        BY <1>5, <2>2, <3>2, RealIs DEF Same
      <4> QED BY <1>1, <2>2, <4>1, <4>2, FitsSame
    <3> QED BY <1>5, <2>3, <3>1, <3>2, RealIs
  <2>4. \A d \in Dates : Precedes(d, m) /\ Reached(d) => ~Matches(d)
    BY <1>6, <2>2
  <2>5. Reached(m)' /\ NoneBefore(m)'
    BY <1>2, <2>2, <2>4, SameGiven DEF NoneBefore
  <2>6. \A g \in Fields : g < fieldnum' => FitsField(m, g)'
    BY <1>2, <2>1, <2>3, SameGiven
  <2>7. GivenRight' /\ fieldnum' \in 1..9
    BY <1>1, <1>2, <1>5, <2>1, SameGiven
  <2> QED BY <2>1, <2>2, <2>5, <2>6, <2>7 DEF CronInv
<1> QED BY <1>10, <1>11, <1>12, <1>13

LEMMA CronInvNext == CronInv /\ [CronNext]_cronVars => CronInv'
<1> SUFFICES ASSUME CronInv, [CronNext]_cronVars PROVE CronInv'
  OBVIOUS
<1>1. CASE Ask
  BY <1>1, AskInv
<1>2. CASE Search
  BY <1>2, SearchInv
<1>3. CASE Found
  <2>1. fieldnum = 9
    BY <1>3, RealIs DEF CronInv, Found
  <2>2. \A f \in Fields : FitsField(next_date, f)
    BY <1>3, <2>1, RealIs DEF CronInv, Found
  <2>3. Matches(next_date)
    BY <2>2 DEF Matches, FitsField
  <2>4. /\ GivenRight' /\ Matches(next_date)' /\ Reached(next_date)' /\ NoneBefore(next_date)'
        /\ next_date' \in Dates /\ cronPc' = "found"
    BY <1>3, <2>3 DEF Found, CronInv, GivenRight, FormedFields, Matches, Reached, NoneBefore
  <2> QED BY <2>4 DEF CronInv
<1>4. CASE UNCHANGED cronVars
  BY <1>4 DEF cronVars, CronInv, GivenRight, FormedFields, Matches, Reached, NoneBefore, NoneAtAll, FitsField
<1> QED BY <1>1, <1>2, <1>3, <1>4 DEF CronNext

\* Cron.EarliestMatch: get_next_fire_time returns the earliest time that fits all fields
\* and is not before its argument and the start date; it returns none, or raises, only if
\* there is none: for any calendar of years, months, weeks and hours, any expressions
\* that compile, and any dates.
THEOREM EarliestFound == CronSpec => []EarliestMatch
<1>1. CronInv => EarliestMatch
  <2> SUFFICES ASSUME CronInv PROVE EarliestMatch
    OBVIOUS
  <2>1. CASE cronPc = "found"
    <3>1. /\ next_date \in Dates /\ Matches(next_date) /\ Reached(next_date)
          /\ NoneBefore(next_date)
      BY <2>1 DEF CronInv
    <3>2. \A d \in Dates : Before(Order(d), Order(next_date)) <=> Precedes(d, next_date)
      BY <3>1, OrderPrecedes
    <3> QED BY <2>1, <3>1, <3>2 DEF EarliestMatch, NoneBefore
  <2>2. CASE cronPc \in {"none", "raised"}
    <3>1. NoneAtAll
      BY <2>2 DEF CronInv
    <3> QED BY <2>2, <3>1 DEF EarliestMatch, NoneAtAll
  <2> QED BY <2>1, <2>2 DEF EarliestMatch
<1> QED BY <1>1, CronInitInv, CronInvNext, PTL DEF CronSpec
=============================================================================
