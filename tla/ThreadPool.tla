----------------------------- MODULE ThreadPool -----------------------------
(***************************************************************************)
(* The thread pool of the scheduler (lib/apscheduler/threadpool.py): a     *)
(* queue, worker threads that are added by the submits, of which the core  *)
(* ones stay and the others leave when the queue was empty for a while,    *)
(* and a shutdown that gives every thread a None to wake it up.            *)
(*                                                                         *)
(* A task is the number of its submit.  A submit starts at most one thread, *)
(* so numbers up to MaxTasks are enough for the threads, too.  What the    *)
(* code does while it holds _threads_lock is one step.                     *)
(***************************************************************************)
EXTENDS Naturals, Sequences, FiniteSets

CONSTANTS
  Callers,       \* threads of control that submit
  Stoppers,      \* threads of control that shut down (and the atexit handler)
  core_threads, max_threads,
  MaxTasks,      \* bound: submits
  MaxFaults      \* bound: thread starts that raise

ASSUME ThreadPoolAssumption ==
  /\ core_threads \in Nat /\ max_threads \in Nat \ {0}
  /\ core_threads <= max_threads
  /\ MaxTasks \in Nat /\ MaxFaults \in Nat

Tasks == 1..MaxTasks
None == 0        \* the None that wakes a thread up; no task

VARIABLES
  caller,      \* where each call of submit is
  submitted,   \* tasks put so far
  queue,       \* _queue
  threads,     \* _threads
  core,        \* the threads started as core threads
  worker,      \* where each thread is
  hand,        \* the task each thread has got
  finished,    \* history: the tasks that were run
  dropped,     \* history: the tasks thrown away
  down,        \* _shutdown
  registered,  \* is the pool in _threadpools?
  stopper,     \* where each call of shutdown is
  joining,     \* the threads it joins
  late,        \* history: a thread was started after the Nones were put
  faults       \* thread starts that raised

vars == <<caller, submitted, queue, threads, core, worker, hand, finished,
          dropped, down, registered, stopper, joining, late, faults>>

Init ==
  /\ caller = [c \in Callers |-> "idle"] /\ submitted = 0
  /\ queue = <<>> /\ threads = {} /\ core = {}
  /\ worker = [w \in Tasks |-> "new"] /\ hand = [w \in Tasks |-> None]
  /\ finished = {} /\ dropped = {}
  /\ down = FALSE /\ registered = TRUE
  /\ stopper = [s \in Stoppers |-> "off"] /\ joining = [s \in Stoppers |-> {}]
  /\ late = FALSE /\ faults = 0

-----------------------------------------------------------------------------
\* submit: the check (a call that raises here changes nothing), the put, ...
SubmitCheck(c) ==
  /\ caller[c] = "idle" /\ ~down /\ submitted < MaxTasks
  /\ caller' = [caller EXCEPT ![c] = "put"]
  /\ UNCHANGED <<submitted, queue, threads, core, worker, hand, finished,
                 dropped, down, registered, stopper, joining, late, faults>>

Put(c) ==
  /\ caller[c] = "put" /\ submitted < MaxTasks
  /\ submitted' = submitted + 1
  /\ queue' = Append(queue, submitted')
  /\ caller' = [caller EXCEPT ![c] = "adjust"]
  /\ UNCHANGED <<threads, core, worker, hand, finished, dropped, down,
                 registered, stopper, joining, late, faults>>

Poisoned(s) == stopper[s] \in {"left", "snapshot", "join", "returned"}

\* _add_thread
AddThread(w) ==
  /\ worker[w] = "new" /\ \A v \in 1..w - 1 : worker[v] # "new"
  /\ threads' = threads \cup {w}
  /\ core' = IF Cardinality(threads) < core_threads THEN core \cup {w} ELSE core
  /\ worker' = [worker EXCEPT ![w] = "get"]
  /\ late' = (late \/ \E s \in Stoppers : Poisoned(s))
  /\ faults' = faults

\* Mutant of AdjustThreadcount: the limit is off by one.
AdjustOneMore(c) ==
  /\ caller[c] = "adjust"
  /\ IF Cardinality(threads) <= max_threads
     THEN \E w \in Tasks : AddThread(w)
     ELSE UNCHANGED <<threads, core, worker, late, faults>>
  /\ caller' = [caller EXCEPT ![c] = "idle"]
  /\ UNCHANGED <<submitted, queue, hand, finished, dropped, down, registered,
                 stopper, joining>>

\* ... and _adjust_threadcount: one more thread if the pool is not full,
\* whether or not one is idle.  The start may raise, with the task queued.
AdjustThreadcount(c) ==
  /\ caller[c] = "adjust"
  /\ IF Cardinality(threads) < max_threads
     THEN \/ \E w \in Tasks : AddThread(w)
          \/ /\ faults < MaxFaults /\ faults' = faults + 1
             /\ UNCHANGED <<threads, core, worker, late>>
     ELSE UNCHANGED <<threads, core, worker, late, faults>>
  /\ caller' = [caller EXCEPT ![c] = "idle"]
  /\ UNCHANGED <<submitted, queue, hand, finished, dropped, down, registered,
                 stopper, joining>>

-----------------------------------------------------------------------------
\* Mutant of Get: the queue keeps the task until it is done.
GetKeeps(w) ==
  /\ worker[w] = "get" /\ queue # <<>>
  /\ hand' = [hand EXCEPT ![w] = Head(queue)]
  /\ worker' = [worker EXCEPT ![w] = "check"]
  /\ UNCHANGED <<caller, submitted, queue, threads, core, finished, dropped, down,
                 registered, stopper, joining, late, faults>>

\* _run_jobs: the queue's get, which a thread that is no core thread gives up
\* after keepalive seconds of an empty queue, ...
Get(w) ==
  /\ worker[w] = "get" /\ queue # <<>>
  /\ hand' = [hand EXCEPT ![w] = Head(queue)]
  /\ queue' = Tail(queue)
  /\ worker' = [worker EXCEPT ![w] = "check"]
  /\ UNCHANGED <<caller, submitted, threads, core, finished, dropped, down,
                 registered, stopper, joining, late, faults>>

GiveUp(w) ==
  /\ worker[w] = "get" /\ queue = <<>> /\ w \notin core
  /\ worker' = [worker EXCEPT ![w] = "leave"]
  /\ UNCHANGED <<caller, submitted, queue, threads, core, hand, finished,
                 dropped, down, registered, stopper, joining, late, faults>>

\* ... the second look at _shutdown, ...
Check(w) ==
  /\ worker[w] = "check"
  /\ worker' = [worker EXCEPT ![w] = IF down THEN "leave" ELSE "run"]
  /\ dropped' = IF down /\ hand[w] # None THEN dropped \cup {hand[w]} ELSE dropped
  /\ hand' = IF down THEN [hand EXCEPT ![w] = None] ELSE hand
  /\ UNCHANGED <<caller, submitted, queue, threads, core, finished, down,
                 registered, stopper, joining, late, faults>>

\* Mutant of RunTask: an exception ends the thread.
RunAndDie(w) ==
  /\ worker[w] = "run"
  /\ worker' = [worker EXCEPT ![w] = "gone"]
  /\ finished' = finished \cup {hand[w]}
  /\ hand' = [hand EXCEPT ![w] = None]
  /\ UNCHANGED <<caller, submitted, queue, threads, core, dropped, down,
                 registered, stopper, joining, late, faults>>

\* ... the task, whatever it raises, ...
RunTask(w) ==
  /\ worker[w] = "run"
  /\ worker' = [worker EXCEPT ![w] = "get"]
  /\ finished' = finished \cup {hand[w]}
  /\ hand' = [hand EXCEPT ![w] = None]
  /\ UNCHANGED <<caller, submitted, queue, threads, core, dropped, down,
                 registered, stopper, joining, late, faults>>

\* ... and the end of the thread.
Leave(w) ==
  /\ worker[w] = "leave"
  /\ worker' = [worker EXCEPT ![w] = "gone"]
  /\ threads' = threads \ {w}
  /\ UNCHANGED <<caller, submitted, queue, core, hand, finished, dropped, down,
                 registered, stopper, joining, late, faults>>

-----------------------------------------------------------------------------
\* shutdown: the look at _shutdown and, a moment later, its assignment and
\* _threadpools.remove, which raises for the second of two.
StopCheck(s) ==
  /\ stopper[s] = "off"
  /\ stopper' = [stopper EXCEPT ![s] = IF down THEN "skipped" ELSE "set"]
  /\ UNCHANGED <<caller, submitted, queue, threads, core, worker, hand, finished,
                 dropped, down, registered, joining, late, faults>>

StopSet(s) ==
  /\ stopper[s] = "set"
  /\ down' = TRUE /\ registered' = FALSE
  /\ stopper' = [stopper EXCEPT ![s] = IF registered THEN "poison" ELSE "raised"]
  /\ UNCHANGED <<caller, submitted, queue, threads, core, worker, hand, finished,
                 dropped, joining, late, faults>>

\* Mutant of StopPoison: one None for all.
PoisonOne(s) ==
  /\ stopper[s] = "poison"
  /\ queue' = Append(queue, None)
  /\ \E next \in {"snapshot", "left"} : stopper' = [stopper EXCEPT ![s] = next]
  /\ UNCHANGED <<caller, submitted, threads, core, worker, hand, finished,
                 dropped, down, registered, joining, late, faults>>

\* A None for every thread; with wait = False that is all.
StopPoison(s) ==
  /\ stopper[s] = "poison"
  /\ queue' = queue \o [i \in 1..Cardinality(threads) |-> None]
  /\ \E next \in {"snapshot", "left"} : stopper' = [stopper EXCEPT ![s] = next]
  /\ UNCHANGED <<caller, submitted, threads, core, worker, hand, finished,
                 dropped, down, registered, joining, late, faults>>

\* Mutant of StopSnapshot: only the core threads are waited for.
SnapshotCore(s) ==
  /\ stopper[s] = "snapshot"
  /\ joining' = [joining EXCEPT ![s] = threads \cap core]
  /\ stopper' = [stopper EXCEPT ![s] = "join"]
  /\ UNCHANGED <<caller, submitted, queue, threads, core, worker, hand, finished,
                 dropped, down, registered, late, faults>>

StopSnapshot(s) ==
  /\ stopper[s] = "snapshot"
  /\ joining' = [joining EXCEPT ![s] = threads]
  /\ stopper' = [stopper EXCEPT ![s] = "join"]
  /\ UNCHANGED <<caller, submitted, queue, threads, core, worker, hand, finished,
                 dropped, down, registered, late, faults>>

StopJoin(s) ==
  /\ stopper[s] = "join" /\ \A w \in joining[s] : worker[w] = "gone"
  /\ stopper' = [stopper EXCEPT ![s] = "returned"]
  /\ UNCHANGED <<caller, submitted, queue, threads, core, worker, hand, finished,
                 dropped, down, registered, joining, late, faults>>

-----------------------------------------------------------------------------
Submit(c) == Put(c) \/ AdjustThreadcount(c)
Work(w) == Get(w) \/ GiveUp(w) \/ Check(w) \/ RunTask(w) \/ Leave(w)
Shutdown(s) == StopSet(s) \/ StopPoison(s) \/ StopSnapshot(s) \/ StopJoin(s)

Next ==
  \/ \E c \in Callers : SubmitCheck(c) \/ Submit(c)
  \/ \E w \in Tasks : Work(w)
  \/ \E s \in Stoppers : StopCheck(s) \/ Shutdown(s)

Spec == Init /\ [][Next]_vars

\* Every thread is scheduled and every task ends; nobody has to submit or to
\* shut down, but a call that was made goes on.
PoolFairness ==
  /\ \A c \in Callers : WF_vars(Submit(c))
  /\ \A w \in Tasks : WF_vars(Work(w))
  /\ \A s \in Stoppers : WF_vars(Shutdown(s))

FairSpec == Spec /\ PoolFairness

-----------------------------------------------------------------------------
\* The types of the variables.
TypeOK ==
  /\ caller \in [Callers -> {"idle", "put", "adjust"}]
  /\ submitted \in 0..MaxTasks /\ queue \in Seq(0..MaxTasks)
  /\ threads \subseteq Tasks /\ core \subseteq Tasks
  /\ worker \in [Tasks -> {"new", "get", "check", "run", "leave", "gone"}]
  /\ hand \in [Tasks -> 0..MaxTasks]
  /\ finished \subseteq Tasks /\ dropped \subseteq Tasks
  /\ down \in BOOLEAN /\ registered \in BOOLEAN /\ late \in BOOLEAN
  /\ stopper \in [Stoppers -> {"off", "skipped", "set", "raised", "poison", "left",
                               "snapshot", "join", "returned"}]
  /\ joining \in [Stoppers -> SUBSET Tasks]
  /\ faults \in 0..MaxFaults

\* The pool keeps to its limits, whatever submits, timeouts and exits overlap:
\* _threads is exactly the threads that live, no more than max_threads, and no
\* more than core_threads of them stay for ever.
WithinLimits ==
  /\ threads = {w \in Tasks : worker[w] \notin {"new", "gone"}}
  /\ Cardinality(threads) <= max_threads
  /\ Cardinality(core \cap threads) <= core_threads
  /\ \A w \in core : worker[w] # "new"

\* When the shutdown(wait = True) that finds the pool up, and so joins its threads,
\* returns, no task is running and none will: also not in a thread that a late submit has
\* started behind its back.  (A second shutdown returns at once, whatever runs.)
QuietAfterShutdown ==
  (\E s \in Stoppers : stopper[s] = "returned") => \A w \in Tasks : worker[w] # "run"

\* Why no thread ever calls a None: they are put when the pool is down already.
NoneMeansDown ==
  /\ \A i \in DOMAIN queue : queue[i] = None => down
  /\ \A w \in Tasks : worker[w] = "check" /\ hand[w] = None => down
  /\ \A w \in Tasks : worker[w] = "run" => hand[w] # None

\* Why: once the pool is down no thread begins another task, and those that
\* still run one were in _threads when shutdown looked.
StopOrder ==
  \A s \in Stoppers :
    /\ stopper[s] \notin {"off", "skipped", "set"} => down
    /\ stopper[s] = "join" => \A w \in Tasks : worker[w] = "run" => w \in joining[s]

IInv ==
  TypeOK /\ WithinLimits /\ NoneMeansDown /\ StopOrder /\ QuietAfterShutdown

\* A task is in one place: in the queue, with one thread, run, or thrown away,
\* and that only by a shutdown.  So none is run twice or lost on the way.
Places(t) ==
  [queue |-> {i \in DOMAIN queue : queue[i] = t},
   hand |-> {w \in Tasks : hand[w] = t},
   ended |-> {e \in {"finished", "dropped"} :
                t \in IF e = "finished" THEN finished ELSE dropped}]

OnePlace ==
  /\ \A t \in 1..submitted :
       LET p == Places(t) IN
         Cardinality(p.queue) + Cardinality(p.hand) + Cardinality(p.ended) = 1
  /\ dropped # {} => down

\* A task that was submitted is run, unless the pool is shut down or could not
\* start a thread.  (For core_threads > 0: with none the last thread may give
\* up between the put and the look at the number of threads.)
EveryTaskRuns ==
  \A t \in Tasks : submitted >= t ~> t \in finished \/ down \/ faults > 0

\* shutdown(wait = True) comes to an end, unless a submit that was under way
\* starts a thread after the Nones were put ...
ShutdownReturnsUnlessLate ==
  \A s \in Stoppers : stopper[s] = "join" ~> stopper[s] = "returned" \/ late

\* ... but that should make no difference: "wait until all currently executing
\* jobs have finished" (scheduler.py:122-123), and the Nones are there "to
\* allow worker threads to finish cleanly" (threadpool.py:21-23).
ShutdownReturns ==
  \A s \in Stoppers : stopper[s] = "join" ~> stopper[s] = "returned"
=============================================================================
