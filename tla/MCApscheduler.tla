--------------------------- MODULE MCApscheduler ---------------------------
\* Two parts of lib/apscheduler that do not share state, its thread pool and its job
\* stores: in each behaviour one of them runs and the other rests in a state of its
\* own, where none of its actions is enabled.  A caller submits, a call of shutdown and
\* the atexit handler stop the pool.
EXTENDS ThreadPool, JobStores, TLC

VARIABLE part

partVars == <<part, vars, storeVars>>

CONSTANTS c1, s1, s2, a, b    \* of the pool, jobs

MCOptions ==
  LET Option(interval, coalesce, max_runs) ==
        [interval |-> interval, coalesce |-> coalesce, max_runs |-> max_runs]
  IN (a :> {Option(0, TRUE, 0)})
     @@ (b :> {Option(2, TRUE, 2), Option(2, FALSE, 0)})

PoolRests ==
  /\ caller = [c \in Callers |-> "idle"] /\ submitted = MaxTasks
  /\ queue = <<>> /\ threads = {} /\ core = {}
  /\ worker = [w \in Tasks |-> "gone"] /\ hand = [w \in Tasks |-> None]
  /\ finished = Tasks /\ dropped = {} /\ down = FALSE /\ registered = TRUE
  /\ stopper = [s \in Stoppers |-> "off"] /\ joining = [s \in Stoppers |-> {}]
  /\ late = FALSE /\ faults = 0

StoresRest ==
  /\ kind = "ram" /\ opt \in [Jobs -> {[interval |-> 2]}] /\ clock = 1
  /\ scheduler = "unused" /\ attached = FALSE /\ pending = {} /\ added = {}
  /\ trigger = [j \in Jobs |-> Never] /\ jobs = <<>> /\ disk = <<>>
  /\ round = {} /\ now = 0 /\ updating = {} /\ since = [j \in Jobs |-> Never]
  /\ times_run = [j \in Jobs |-> [t \in Times |-> 0]] /\ cut = [j \in Jobs |-> 0]
  /\ loads = MaxLoads /\ crashes = MaxCrashes /\ refusals = 0

PartsInit ==
  /\ part \in {"threadpool", "jobstores"}
  /\ IF part = "threadpool" THEN Init ELSE PoolRests
  /\ IF part = "jobstores" THEN StoresInit ELSE StoresRest

PartsNext ==
  /\ UNCHANGED part
  /\ \/ part = "threadpool" /\ Next /\ UNCHANGED storeVars
     \/ part = "jobstores" /\ StoresNext /\ UNCHANGED vars

PartsSpec == PartsInit /\ [][PartsNext]_partVars /\ PoolFairness /\ StoresFairness
=============================================================================
