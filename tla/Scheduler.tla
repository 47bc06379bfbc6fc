----------------------------- MODULE Scheduler ------------------------------
(***************************************************************************)
(* The scheduler that runs the agent's collectors (lib/apscheduler), as    *)
(* the Executor uses it: interval jobs in one RAM job store, added before  *)
(* and after start() by the Executor's thread.  The scheduler's own thread *)
(* submits the jobs that are due to the thread pool; the pool's threads go *)
(* through the run times of a submitted call.                              *)
(*                                                                         *)
(* Time is counted in ticks of the clock's resolution, so that "now plus   *)
(* one microsecond" is now + 1.  What the Executor's thread does under     *)
(* _jobstores_lock is one step; a round of the loop holds the lock over    *)
(* its steps.  The pool is ThreadPool's, seen from outside: a call it      *)
(* takes is begun some time, unless the pool is shut down first.           *)
(***************************************************************************)
EXTENDS Naturals, FiniteSets, FiniteSetsExt

CONSTANTS
  Jobs,           \* the collectors
  interval,       \* seconds between two runs of each
  max_runs,       \* how often each may be triggered, 0 for no limit
  coalesce,       \* is a backlog of run times run only once?
  max_instances,
  misfire_grace_time,
  StartMayFail,   \* can the pool fail to start a thread?
  MaxTime         \* bound: the clock

ASSUME SchedulerAssumption ==
  /\ interval \in [Jobs -> Nat \ {0}] /\ max_runs \in [Jobs -> Nat]
  /\ coalesce \in [Jobs -> BOOLEAN] /\ max_instances \in [Jobs -> Nat \ {0}]
  /\ misfire_grace_time \in Nat \ {0} /\ StartMayFail \in BOOLEAN
  /\ MaxTime \in Nat \ {0}

Time == 1..MaxTime
None == 0

VARIABLES
  now,            \* datetime.now()
  client,         \* where the Executor's thread is
  adding,         \* the jobs it is adding, at most one
  pending,        \* _pending_jobs
  store,          \* the jobs in the job store
  start_date,     \* of the trigger of each job, None before it is added
  next_run_time, runs, instances,              \* of each job
  calls,          \* the calls of _run_job, each with the run times left to it
  stopped,        \* _stopped
  pool_down,      \* the thread pool's _shutdown
  wakeup,         \* the event _wakeup
  loop,           \* where _main_loop is
  loop_now,       \* its now
  wakeup_time,    \* its next_wakeup_time, then the end of its wait
  round,          \* the due jobs _process_jobs still has to submit
  submitting,     \* the one between its put and the end of its submit, as a set
  overtaken,      \* did the pool's shutdown overtake a submit?
  orphan,         \* does it join the thread of that submit, which no None is for?
  fired           \* history: the run times submitted for each job

clientVars == <<client, adding, pending, start_date, stopped>>
loopVars == <<loop, loop_now, wakeup_time, round, submitting>>
poolVars == <<pool_down, overtaken, orphan>>
jobVars == <<store, next_run_time, runs, fired>>
vars == <<now, clientVars, loopVars, jobVars, instances, calls, poolVars, wakeup>>

Init ==
  /\ now = 1
  /\ client = "idle" /\ adding = {} /\ pending = {}
  /\ store = {} /\ start_date = [j \in Jobs |-> None]
  /\ next_run_time = [j \in Jobs |-> None] /\ runs = [j \in Jobs |-> 0]
  /\ instances = [j \in Jobs |-> 0] /\ calls = {}
  /\ stopped = TRUE /\ pool_down = FALSE /\ wakeup = FALSE
  /\ loop = "off" /\ loop_now = None /\ wakeup_time = None
  /\ round = {} /\ submitting = {} /\ overtaken = FALSE /\ orphan = FALSE
  /\ fired = [j \in Jobs |-> {}]

Tick ==
  /\ now < MaxTime /\ now' = now + 1
  /\ UNCHANGED <<clientVars, loopVars, jobVars, instances, calls, poolVars, wakeup>>

-----------------------------------------------------------------------------
\* IntervalTrigger.get_next_fire_time: the first start_date + k * interval
\* that is not before t.
NextFire(j, t) ==
  IF t < start_date[j] THEN start_date[j]
  ELSE start_date[j]
       + interval[j] * ((t - start_date[j] + interval[j] - 1) \div interval[j])

\* Job.compute_next_run_time
ComputeNext(j, count, t) ==
  IF max_runs[j] # 0 /\ count = max_runs[j] THEN None ELSE NextFire(j, t)

\* Job.get_run_times
RunTimes(j) ==
  IF (max_runs[j] = 0 \/ runs[j] < max_runs[j]) /\ next_run_time[j] # None
  THEN {t \in next_run_time[j]..loop_now : NextFire(j, t) = t}
  ELSE {}

Locked == loop = "round"

running == ~stopped /\ loop \notin {"off", "ended", "dead"}

-----------------------------------------------------------------------------
\* Executor.add_jobs: a job is put aside while the scheduler is not running, ...
AddJob(j) ==
  /\ client = "idle" /\ start_date[j] = None
  /\ start_date' = [start_date EXCEPT ![j] = now + interval[j]]
  /\ IF running
     THEN client' = "compute" /\ adding' = {j} /\ UNCHANGED pending
     ELSE pending' = pending \cup {j} /\ UNCHANGED <<client, adding>>
  /\ UNCHANGED <<now, stopped, loopVars, jobVars, instances, calls, poolVars, wakeup>>

\* ... and else goes into the store (_real_add_job).
ComputeFirst ==
  /\ client = "compute" /\ client' = "insert"
  /\ next_run_time' = [j \in Jobs |-> IF j \in adding THEN ComputeNext(j, 0, now)
                                                      ELSE next_run_time[j]]
  /\ UNCHANGED <<now, adding, pending, start_date, stopped, loopVars, store,
                 runs, fired, instances, calls, poolVars, wakeup>>

Insert ==
  /\ client = "insert" /\ ~Locked /\ client' = "wake"
  /\ store' = store \cup adding
  /\ UNCHANGED <<now, adding, pending, start_date, stopped, loopVars,
                 next_run_time, runs, fired, instances, calls, poolVars, wakeup>>

SetEvent == wakeup' = TRUE

Wake ==
  /\ client = "wake" /\ client' = "idle"
  /\ SetEvent /\ adding' = {}
  /\ UNCHANGED <<now, pending, start_date, stopped, loopVars, jobVars,
                 instances, calls, poolVars>>

\* start: nobody else uses the scheduler yet.
Start ==
  /\ client = "idle" /\ loop = "off"
  /\ store' = pending /\ pending' = {}
  /\ next_run_time' = [j \in Jobs |-> IF j \in pending THEN ComputeNext(j, 0, now)
                                                       ELSE None]
  /\ stopped' = FALSE /\ loop' = "begin"
  /\ UNCHANGED <<now, client, adding, start_date, loop_now, wakeup_time, round,
                 submitting, runs, fired, instances, calls, poolVars, wakeup>>

Unschedule(j) ==
  /\ client = "idle" /\ j \in store /\ ~Locked
  /\ store' = store \ {j}
  /\ UNCHANGED <<now, clientVars, loopVars, next_run_time, runs, fired, instances,
                 calls, poolVars, wakeup>>

-----------------------------------------------------------------------------
\* shutdown: the flag, the event, the pool, and the join.
ShutStop ==
  /\ client = "idle" /\ running
  /\ stopped' = TRUE /\ client' = "stop"
  /\ UNCHANGED <<now, adding, pending, start_date, loopVars, jobVars,
                 instances, calls, poolVars, wakeup>>

ShutWake ==
  /\ client = "stop" /\ client' = "pool" /\ SetEvent
  /\ UNCHANGED <<now, adding, pending, start_date, stopped, loopVars, jobVars,
                 instances, calls, poolVars>>

\* The pool drops the calls it has not begun, and wakes a thread up for each.  A
\* submit it overtakes may still start a thread, for which there is none left.
ShutPool ==
  /\ client = "pool" /\ client' = "join" /\ pool_down' = TRUE
  /\ calls' = {c \in calls : c.at # "queued"}
  /\ overtaken' = (submitting # {} /\ calls' = calls) /\ orphan' = orphan
  /\ UNCHANGED <<now, adding, pending, start_date, stopped, loopVars, jobVars,
                 instances, wakeup>>

ShutJoin ==
  /\ client = "join" /\ calls = {} /\ ~orphan /\ loop \in {"ended", "dead"}
  /\ client' = "off"
  /\ UNCHANGED <<now, adding, pending, start_date, stopped, loopVars, jobVars,
                 instances, calls, poolVars, wakeup>>

-----------------------------------------------------------------------------
\* _main_loop
LoopBegin ==
  /\ loop = "begin" /\ loop' = "test" /\ wakeup' = FALSE
  /\ UNCHANGED <<now, clientVars, loop_now, wakeup_time, round, submitting, jobVars, instances,
                 calls, poolVars>>

LoopTest ==
  /\ loop = "test"
  /\ IF stopped THEN loop' = "ended" /\ UNCHANGED loop_now
                ELSE loop' = "process" /\ loop_now' = now
  /\ UNCHANGED <<now, clientVars, wakeup_time, round, submitting, jobVars, instances, calls,
                 poolVars, wakeup>>

\* _process_jobs looks at every job; those that are not due it leaves alone.
Due == {j \in store : RunTimes(j) # {}}

RoundBegins ==
  /\ loop = "process" /\ loop' = "round" /\ round' = Due
  /\ UNCHANGED <<now, clientVars, loop_now, wakeup_time, submitting, jobVars, instances,
                 calls, poolVars, wakeup>>

\* _threadpool.submit(self._run_job, job, run_times): the check and the put, ...
SubmitPut(j) ==
  /\ j \in round /\ submitting = {} /\ ~pool_down
  /\ submitting' = {j}
  /\ calls' = calls \cup {[job |-> j, times |-> RunTimes(j), at |-> "queued"]}
  /\ fired' = [fired EXCEPT ![j] = @ \cup RunTimes(j)]
  /\ UNCHANGED <<now, clientVars, loop, loop_now, wakeup_time, round, store, next_run_time,
                 runs, instances, poolVars, wakeup>>

\* The fault of including this very moment.
FromNow == loop_now
AfterNow == loop_now + 1

\* ... a thread, if the pool is not full and whether or not shutdown sees it; then the
\* run count, the next run time, the end of a job.
SubmitReturns(j) ==
  /\ j \in submitting
  /\ orphan' \in {FALSE, overtaken}
  /\ runs' = [runs EXCEPT ![j] = @ + (IF coalesce[j] THEN 1 ELSE Cardinality(RunTimes(j)))]
  /\ next_run_time' = [next_run_time EXCEPT ![j] = ComputeNext(j, runs'[j], AfterNow)]
  /\ store' = IF next_run_time'[j] = None THEN store \ {j} ELSE store
  /\ submitting' = {} /\ round' = round \ {j}
  /\ UNCHANGED <<now, clientVars, loop, loop_now, wakeup_time, fired, instances, calls,
                 pool_down, overtaken, wakeup>>

\* A submit that raises, because the pool is shut down or because it cannot
\* start a thread (then with the call in its queue), ends the thread of the
\* scheduler in the middle of the jobs.
SubmitRaises ==
  /\ \/ submitting = {} /\ round # {} /\ pool_down
     \/ submitting # {} /\ StartMayFail
  /\ loop' = "dead" /\ round' = {} /\ submitting' = {}
  /\ UNCHANGED <<now, clientVars, loop_now, wakeup_time, jobVars, instances, calls,
                 poolVars, wakeup>>

Earliest(times) == IF times \ {None} = {} THEN None ELSE Min(times \ {None})

RoundEnds ==
  /\ loop = "round" /\ round = {} /\ loop' = "wait"
  /\ wakeup_time' = Earliest({next_run_time[j] : j \in store})
  /\ UNCHANGED <<now, clientVars, loop_now, round, submitting, jobVars, instances, calls,
                 poolVars, wakeup>>

Round ==
  RoundBegins \/ SubmitRaises \/ RoundEnds \/ \E j \in round : SubmitPut(j) \/ SubmitReturns(j)

\* The fault of clearing the event before the wait.
ClearAndWait ==
  /\ loop = "wait" /\ loop' = "waiting" /\ wakeup' = FALSE
  /\ wakeup_time' = IF wakeup_time = None THEN None
                    ELSE IF wakeup_time < loop_now THEN now
                    ELSE now + (wakeup_time - loop_now)
  /\ UNCHANGED <<now, clientVars, loop_now, round, submitting, jobVars, instances, calls,
                 poolVars>>

\* The wait is as long as it was from loop_now to the wake-up time.
Wait ==
  /\ loop = "wait" /\ loop' = "waiting"
  /\ wakeup_time' = IF wakeup_time = None THEN None
                    ELSE IF wakeup_time < loop_now THEN now
                    ELSE now + (wakeup_time - loop_now)
  /\ UNCHANGED <<now, clientVars, loop_now, round, submitting, jobVars, instances, calls,
                 poolVars, wakeup>>

\* At the bound of the clock every wait is over.
WaitEnds ==
  /\ loop = "waiting" /\ loop' = "clear"
  /\ wakeup \/ (wakeup_time # None /\ (wakeup_time <= now \/ now = MaxTime))
  /\ UNCHANGED <<now, clientVars, loop_now, wakeup_time, round, submitting, jobVars,
                 instances, calls, poolVars, wakeup>>

Clear ==
  /\ loop = "clear" /\ loop' = "test" /\ wakeup' = FALSE
  /\ UNCHANGED <<now, clientVars, loop_now, wakeup_time, round, submitting, jobVars, instances,
                 calls, poolVars>>

-----------------------------------------------------------------------------
\* _run_job, in a thread of the pool.  What is left of a call without times:
Rest(c, times) == (calls \ {c}) \cup
  (IF times = {} THEN {} ELSE {[c EXCEPT !.times = times, !.at = "next"]})

\* The fault of not looking at the limit.
NeverFull(j) == FALSE
Full(j) == instances[j] = max_instances[j]

\* The next run time is missed, or it is run unless too many instances are
\* running; then the call is given up.
RunNext(c) ==
  /\ c.at \in {"queued", "next"}
  /\ IF now - Min(c.times) > misfire_grace_time
     THEN calls' = Rest(c, c.times \ {Min(c.times)}) /\ UNCHANGED instances
     ELSE IF Full(c.job)
     THEN calls' = calls \ {c} /\ UNCHANGED instances
     ELSE /\ instances' = [instances EXCEPT ![c.job] = @ + 1]
          /\ calls' = (calls \ {c}) \cup {[c EXCEPT !.at = "run"]}
  /\ UNCHANGED <<now, clientVars, loopVars, jobVars, poolVars, wakeup>>

\* The collector has returned or raised.  Coalesced times are not run again.
RunEnds(c) ==
  /\ c.at = "run"
  /\ instances' = [instances EXCEPT ![c.job] = @ - 1]
  /\ calls' = Rest(c, IF coalesce[c.job] THEN {} ELSE c.times \ {Min(c.times)})
  /\ UNCHANGED <<now, clientVars, loopVars, jobVars, poolVars, wakeup>>

-----------------------------------------------------------------------------
Add == ComputeFirst \/ Insert \/ Wake
Shutdown == ShutWake \/ ShutPool \/ ShutJoin
Loop == LoopBegin \/ LoopTest \/ Round \/ Wait \/ WaitEnds \/ Clear
Run == \E c \in calls : RunNext(c) \/ RunEnds(c)

Next ==
  \/ Tick
  \/ \E j \in Jobs : AddJob(j) \/ Unschedule(j)
  \/ Add \/ Start \/ ShutStop \/ Shutdown
  \/ Loop \/ Run

Spec == Init /\ [][Next]_vars

\* Time passes, every thread is scheduled and every collector returns; the
\* Executor's thread finishes the calls it has begun.
FairSpec ==
  Spec /\ WF_vars(Tick) /\ WF_vars(Add) /\ WF_vars(Shutdown) /\ WF_vars(Loop)
  /\ WF_vars(Run)

-----------------------------------------------------------------------------
\* No run time is submitted twice and none is left out, however late the loop
\* is, while jobs come and go; the job just submitted is not up to date yet.
EachTimeOnce ==
  \A j \in store \ submitting : loop # "dead" =>
    /\ \A t \in fired[j] : t < next_run_time[j]
    /\ \A u \in fired[j] : {t \in u..next_run_time[j] - 1 : NextFire(j, t) = t} \subseteq fired[j]

\* "maximum number of concurrently running instances allowed for this job"
\* (job.py:34-35), and the count the job keeps is right.
InstancesCounted ==
  \A j \in Jobs :
    /\ instances[j] = Cardinality({c \in calls : c.job = j /\ c.at = "run"})
    /\ instances[j] <= max_instances[j]

\* A run time that has come is submitted, unless the job is removed, the
\* scheduler stopped or its thread dead.  No wake-up is lost between the
\* loop's wait and the Executor's thread.
Overdue(j) == j \in store /\ next_run_time[j] <= now /\ ~stopped /\ loop # "dead"

DueJobsRun == \A j \in Jobs : Overdue(j) ~> ~Overdue(j)


\* "maximum number of times this job is allowed to be triggered" (job.py:32).
MaxRunsRespected == \A j \in Jobs : max_runs[j] # 0 => runs[j] <= max_runs[j]
=============================================================================
