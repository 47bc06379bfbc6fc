----------------------------- MODULE JobStores ------------------------------
(***************************************************************************)
(* lib/apscheduler: a scheduler whose jobs are kept in a job store that     *)
(* outlives the process (jobstores/*_store.py).  The process may die at any *)
(* time and the store may refuse; a later process loads what is stored.     *)
(* When the loop looks and what the pool does with its calls is the         *)
(* Scheduler module's matter: here a round may begin at any time, and a job *)
(* is followed up to its submission.                                        *)
(*                                                                          *)
(* Times are counted finely enough to tell apart what the stores keep: time *)
(* 2s is second s, and time 2s + 1 is half a millisecond after it.  The     *)
(* intervals are whole seconds.                                             *)
(***************************************************************************)
EXTENDS Integers, FiniteSets

CONSTANTS
  Jobs,         \* jobs the program may schedule
  Options,      \* Options[j]: the ways a job may be given: interval (0: a single date),
                \* coalesce, max_runs (0: any)
  RunDates,     \* the dates of single runs
  Kinds,        \* the kinds of store
  MaxNow,       \* bound: time
  MaxLoads,     \* bound: times the store is attached
  MaxCrashes,   \* bound: deaths of the process
  MaxRefusals   \* bound: operations the store refuses

ASSUME StoresAssumption ==
  /\ \A j \in Jobs : Options[j] \subseteq
       [interval : {i \in Nat : i % 2 = 0}, coalesce : BOOLEAN, max_runs : Nat]
  /\ RunDates \subseteq Nat \ {0, 1}
  /\ Kinds \subseteq {"ram", "shelve", "sqlalchemy", "mongodb", "redis"}
  /\ MaxNow \in Nat /\ MaxLoads \in Nat /\ MaxCrashes \in Nat /\ MaxRefusals \in Nat

VARIABLES
  kind,        \* the store's kind
  opt,         \* opt[j]: of Options[j]
  clock,       \* datetime.now(), from 1
  scheduler,   \* "down" (no process), "off", "running", "stopping", "dead" (its thread)
  attached,    \* is the store in _jobstores?
  pending,     \* _pending_jobs
  added,       \* jobs that add_job was called for
  trigger,     \* trigger[j]: the first run time
  jobs,        \* jobstore.jobs: next_run_time and runs of each
  disk,        \* the same as stored
  round,       \* the jobs this round still has to look at
  now,         \* its now
  updating,    \* the job between its submission and its update, as a set
  since,       \* history: since[j]: the run time it was stored with first
  times_run,   \* history: times_run[j][t]: how often run time t was submitted
  cut,         \* history: cut[j]: submissions not followed by an update
  loads,       \* history: how often the store was attached
  crashes, refusals  \* counters for the bounds

storeVars == <<kind, opt, clock, scheduler, attached, pending, added, trigger, jobs, disk,
               round, now, updating, since, times_run, cut, loads, crashes, refusals>>
given == <<kind, opt>>
history == <<since, times_run, cut>>
bounds == <<loads, crashes, refusals>>
loopState == <<round, now, updating>>

Never == 0
Times == 1..MaxNow + 2

StoresInit ==
  /\ kind \in Kinds
  /\ opt \in {o \in [Jobs -> UNION {Options[j] : j \in Jobs}] : \A j \in Jobs : o[j] \in Options[j]}
  /\ clock = 1 /\ scheduler = "off" /\ attached = FALSE
  /\ pending = {} /\ added = {} /\ trigger = [j \in Jobs |-> Never]
  /\ jobs = <<>> /\ disk = <<>>
  /\ round = {} /\ now = 0 /\ updating = {}
  /\ since = [j \in Jobs |-> Never]
  /\ times_run = [j \in Jobs |-> [t \in Times |-> 0]] /\ cut = [j \in Jobs |-> 0]
  /\ loads = 0 /\ crashes = 0 /\ refusals = 0

With(f, j, v) == [i \in DOMAIN f \union {j} |-> IF i = j THEN v ELSE f[i]]
Drop(f, S) == [i \in DOMAIN f \ S |-> f[i]]

----------------------------------------------------------------------------
\* The triggers, once their first run time is known.
SimpleFire(j, t) == IF t <= trigger[j] THEN trigger[j] ELSE Never
IntervalFire(j, t) ==
  IF t <= trigger[j] THEN trigger[j]
  ELSE trigger[j] + opt[j].interval * ((t - trigger[j] + opt[j].interval - 1) \div opt[j].interval)
FireTime(j, t) == IF opt[j].interval = 0 THEN SimpleFire(j, t) ELSE IntervalFire(j, t)

\* Job.compute_next_run_time
NextTime(j, runs, t) ==
  IF opt[j].max_runs # 0 /\ runs = opt[j].max_runs THEN Never ELSE FireTime(j, t)

\* Mutant: only a run time that is right now.
RunTimesNow(j) == IF jobs[j].next = now THEN {now} ELSE {}

\* Job.get_run_times: the next run time, and the trigger's after it.
RunTimes(j) ==
  IF jobs[j].next = Never \/ (opt[j].max_runs # 0 /\ jobs[j].runs >= opt[j].max_runs) THEN {}
  ELSE {t \in jobs[j].next..now : t = jobs[j].next \/ FireTime(j, t) = t}

Idle == updating = {} /\ round = {}    \* _jobstores_lock is free

Tick ==
  /\ clock < MaxNow /\ scheduler # "unused" /\ clock' = clock + 1
  /\ UNCHANGED <<given, scheduler, attached, pending, added, trigger, jobs, disk, loopState,
                 history, bounds>>

----------------------------------------------------------------------------
\* The next run time as the store has it.  MongoDB's dates have milliseconds and no
\* microseconds.
Milliseconds(t) == t - (t % 2)
Kept(t) == IF kind = "mongodb" THEN Milliseconds(t) ELSE t

\* load_jobs of the five stores.  Redis keeps the next run time as text, and reads it
\* back with a format that has no microseconds: such a job is logged and left out.
Restorable(t) == kind # "redis" \/ t % 2 = 0
LoadRAM == <<>>
LoadShelve == disk
LoadSQLAlchemy == disk
LoadMongoDB == disk
LoadRedis == [j \in {i \in DOMAIN disk : Restorable(disk[i].next)} |-> disk[j]]

\* Mutant: the next run time is computed anew.
LoadedAnew ==
  IF kind = "ram" THEN <<>>
  ELSE [j \in {i \in DOMAIN disk : FireTime(i, clock) # Never} |->
          [next |-> FireTime(j, clock), runs |-> disk[j].runs]]
Loaded ==
  CASE kind = "ram" -> LoadRAM [] kind = "shelve" -> LoadShelve
    [] kind = "sqlalchemy" -> LoadSQLAlchemy [] kind = "mongodb" -> LoadMongoDB
    [] kind = "redis" -> LoadRedis

\* add_jobstore and remove_jobstore
AddJobstore ==
  /\ Idle /\ ~attached /\ scheduler \in {"off", "running", "stopping", "dead"}
  /\ loads < MaxLoads /\ loads' = loads + 1
  /\ attached' = TRUE /\ jobs' = Loaded
  /\ UNCHANGED <<given, clock, scheduler, pending, added, trigger, disk, loopState, history,
                 crashes, refusals>>

RemoveJobstore ==
  /\ Idle /\ attached /\ attached' = FALSE /\ jobs' = <<>>
  /\ disk' = IF kind = "ram" THEN <<>> ELSE disk
  /\ UNCHANGED <<given, clock, scheduler, pending, added, trigger, loopState, history, bounds>>

\* Mutant: the update leaves the count of runs as it is stored.
KeepsRuns(j, job, runs) == [job EXCEPT !.runs = runs]

\* Their update_job, given the job and the count of runs that is stored.  MongoDB's
\* counts one run more, whatever the job has counted.
UpdateShelve(job) == job
UpdateSQLAlchemy(job) == job
UpdateMongoDB(job, runs) == [next |-> Milliseconds(job.next), runs |-> runs + 1]
UpdateRedis(job) == job
Written(j, job, runs) ==
  CASE kind = "ram" -> job [] kind = "shelve" -> UpdateShelve(job)
    [] kind = "sqlalchemy" -> UpdateSQLAlchemy(job) [] kind = "mongodb" -> UpdateMongoDB(job, runs)
    [] kind = "redis" -> UpdateRedis(job)

\* _real_add_job: a job gets its first time and goes to the store; one that would never
\* run raises.
RealAddJob(j, first) ==
  IF opt[j].interval = 0 /\ first < clock THEN UNCHANGED <<jobs, disk, since>>
  ELSE /\ jobs' = With(jobs, j, [next |-> first, runs |-> 0])
       /\ disk' = With(disk, j, [next |-> Kept(first), runs |-> 0])
       /\ since' = [since EXCEPT ![j] = first]

\* add_job: it is put aside until start(), or added at once.
AddJob(j, first) ==
  /\ scheduler \in {"off", "running"} /\ j \notin added /\ Idle
  /\ added' = added \union {j} /\ trigger' = [trigger EXCEPT ![j] = first]
  /\ IF scheduler = "off"
     THEN pending' = pending \union {j} /\ UNCHANGED <<jobs, disk, since>>
     ELSE attached /\ RealAddJob(j, first) /\ UNCHANGED pending
  /\ UNCHANGED <<given, clock, scheduler, attached, loopState, times_run, cut, bounds>>

AddDateJob(j) == opt[j].interval = 0 /\ \E date \in RunDates : AddJob(j, date)
AddIntervalJob(j) == opt[j].interval # 0 /\ AddJob(j, clock + opt[j].interval)

\* start() gives the pending jobs to the store; a date that is over raises there too,
\* after the jobs before it were stored, and nothing is started.
Over(j) == opt[j].interval = 0 /\ trigger[j] < clock
WithFirst(f, S, next) ==
  [j \in DOMAIN f \union S |-> IF j \in S THEN [next |-> next[j], runs |-> 0] ELSE f[j]]

Start ==
  /\ scheduler = "off" /\ attached
  /\ \E S \in SUBSET {j \in pending : ~Over(j)} :
       /\ IF \E j \in pending : Over(j)
          THEN scheduler' = "dead" /\ UNCHANGED pending
          ELSE scheduler' = "running" /\ S = pending /\ pending' = {}
       /\ since' = [j \in Jobs |-> IF j \in S THEN FireTime(j, clock) ELSE since[j]]
       /\ jobs' = WithFirst(jobs, S, since')
       /\ disk' = WithFirst(disk, S, [j \in S |-> Kept(since'[j])])
  /\ UNCHANGED <<given, clock, attached, added, trigger, loopState, times_run, cut, bounds>>

\* unschedule_job, and unschedule_func for a function that is one job's or several's.
RemoveJobs(S) ==
  /\ Idle /\ scheduler \in {"off", "running"}
  /\ jobs' = Drop(jobs, S) /\ disk' = Drop(disk, S)
  /\ UNCHANGED <<given, clock, scheduler, attached, pending, added, trigger, loopState,
                 history, bounds>>

UnscheduleJob(j) == j \in DOMAIN jobs /\ RemoveJobs({j})
UnscheduleFunc(S) == S # {} /\ S \subseteq DOMAIN jobs /\ RemoveJobs(S)

\* shutdown: the pool refuses calls from now on; the thread ends after its round.
StopScheduler ==
  /\ scheduler = "running" /\ scheduler' = "stopping"
  /\ UNCHANGED <<given, clock, attached, pending, added, trigger, jobs, disk, loopState,
                 history, bounds>>

----------------------------------------------------------------------------
\* _process_jobs: with the lock, one job after the other.
RoundBegins ==
  /\ scheduler = "running" /\ Idle /\ attached
  /\ now' = clock /\ round' = DOMAIN jobs
  /\ UNCHANGED <<given, clock, scheduler, attached, pending, added, trigger, jobs, disk,
                 updating, history, bounds>>

NothingDue(j) ==
  /\ j \in round /\ updating = {} /\ scheduler \in {"running", "stopping"}
  /\ RunTimes(j) = {} /\ round' = round \ {j}
  /\ UNCHANGED <<given, clock, scheduler, attached, pending, added, trigger, jobs, disk, now,
                 updating, history, bounds>>

\* The call is given to the pool, and the count and the next time are computed.
SubmitRuns(j) ==
  /\ j \in round /\ updating = {} /\ scheduler = "running" /\ RunTimes(j) # {}
  /\ times_run' = [times_run EXCEPT ![j] =
                    [t \in Times |-> IF t \in RunTimes(j) THEN @[t] + 1 ELSE @[t]]]
  /\ LET runs == jobs[j].runs + (IF opt[j].coalesce THEN 1 ELSE Cardinality(RunTimes(j)))
     IN jobs' = [jobs EXCEPT ![j] = [next |-> NextTime(j, runs, now + 1), runs |-> runs]]
  /\ updating' = {j}
  /\ UNCHANGED <<given, clock, scheduler, attached, pending, added, trigger, disk, round, now,
                 since, cut, bounds>>

\* update_job, or remove_job when it will not run again.
Update(j) ==
  /\ j \in updating /\ scheduler \in {"running", "stopping"}
  /\ updating' = {} /\ round' = round \ {j}
  /\ IF jobs[j].next = Never THEN jobs' = Drop(jobs, {j}) /\ disk' = Drop(disk, {j})
     ELSE disk' = With(disk, j, Written(j, jobs[j], disk[j].runs)) /\ UNCHANGED jobs
  /\ UNCHANGED <<given, clock, scheduler, attached, pending, added, trigger, now, history,
                 bounds>>

\* The pool is shut down: submit raises, and that ends the thread.
Ends == scheduler' = "dead" /\ round' = {} /\ updating' = {}

SubmitRaises(j) ==
  /\ j \in round /\ updating = {} /\ scheduler = "stopping" /\ RunTimes(j) # {} /\ Ends
  /\ UNCHANGED <<given, clock, attached, pending, added, trigger, jobs, disk, now, history, bounds>>

\* The store refuses the update, with the call in the pool: that ends the thread too.
UpdateRaises(j) ==
  /\ j \in updating /\ scheduler \in {"running", "stopping"} /\ kind # "ram"
  /\ refusals < MaxRefusals /\ refusals' = refusals + 1 /\ Ends
  /\ cut' = [cut EXCEPT ![j] = @ + 1]
  /\ UNCHANGED <<given, clock, attached, pending, added, trigger, jobs, disk, now, since, times_run,
                 loads, crashes>>

ThreadEnds ==
  /\ scheduler = "stopping" /\ Idle /\ scheduler' = "dead"
  /\ UNCHANGED <<given, clock, attached, pending, added, trigger, jobs, disk, loopState, history, bounds>>

----------------------------------------------------------------------------
\* The process dies or is ended, and is begun again.
Crash ==
  /\ scheduler # "down" /\ crashes < MaxCrashes
  /\ crashes' = crashes + 1 /\ scheduler' = "down" /\ attached' = FALSE
  /\ pending' = {} /\ jobs' = <<>> /\ round' = {} /\ updating' = {}
  /\ cut' = [j \in Jobs |-> IF j \in updating THEN cut[j] + 1 ELSE cut[j]]
  /\ disk' = IF kind = "ram" THEN <<>> ELSE disk
  /\ UNCHANGED <<given, clock, added, trigger, now, since, times_run, loads, refusals>>

BeginAgain ==
  /\ scheduler = "down" /\ scheduler' = "off"
  /\ UNCHANGED <<given, clock, attached, pending, added, trigger, jobs, disk, loopState, history, bounds>>

Round == RoundBegins \/ ThreadEnds
         \/ \E j \in Jobs : NothingDue(j) \/ SubmitRuns(j) \/ Update(j) \/ SubmitRaises(j) \/ UpdateRaises(j)

StoresNext ==
  \/ Tick \/ AddJobstore \/ RemoveJobstore \/ Start \/ StopScheduler \/ Round \/ Crash \/ BeginAgain
  \/ \E j \in Jobs : AddDateJob(j) \/ AddIntervalJob(j) \/ UnscheduleJob(j)
  \/ \E S \in SUBSET Jobs : UnscheduleFunc(S)

\* The scheduler's thread is scheduled.
StoresFairness == WF_storeVars(Round)

StoresSpec == StoresInit /\ [][StoresNext]_storeVars /\ StoresFairness

----------------------------------------------------------------------------
\* No run time is left out and none submitted twice, but for those whose submission was
\* cut off from its update.
Stored == IF kind = "ram" THEN jobs ELSE disk

SubmittedOnce ==
  \A j \in DOMAIN Stored \ updating : \A t \in Times : since[j] <= t /\ FireTime(j, t) = t =>
    /\ t < Stored[j].next => times_run[j][t] \in 1..1 + cut[j]
    /\ t >= Stored[j].next => times_run[j][t] <= cut[j]

\* A job is submitted for the times of its trigger only, but what MongoDB keeps of a time
\* may be submitted too, less than a millisecond early, once whenever the store is attached.
OnlyItsTimes ==
  \A j \in Jobs, t \in Times : FireTime(j, t) # t =>
    times_run[j][t] <= IF kind = "mongodb" THEN loads ELSE 0

\* A job's time and its count in the store are those in memory.  MongoDB's time is
\* without the microseconds, and its count is right for jobs that coalesce.
StoreAgrees ==
  scheduler # "dead" /\ attached =>
    \A j \in DOMAIN jobs \ updating :
      /\ j \in DOMAIN Stored /\ Stored[j].next = Kept(jobs[j].next)
      /\ (kind = "mongodb" => opt[j].coalesce) => Stored[j].runs = jobs[j].runs

\* What is stored of a job is what another process has to go on with, and it leads it
\* to submit each run time once, across crashes, refusals, restarts and late rounds.
StoreResumable == SubmittedOnce /\ OnlyItsTimes /\ StoreAgrees

\* A stored job whose time has come (with what MongoDB dropped of it) is run by the
\* scheduler that has its store, though it was stored by another process; Redis with
\* microseconds is the exception.
Waiting(j) ==
  /\ scheduler = "running" /\ attached /\ j \in DOMAIN disk /\ Restorable(disk[j].next)
  /\ disk[j].next + (IF kind = "mongodb" THEN 1 ELSE 0) <= clock

StoredJobsRun == \A j \in Jobs : Waiting(j) ~> ~Waiting(j)
=============================================================================
