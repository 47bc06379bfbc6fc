------------------------------ MODULE MCCpuuse ------------------------------
\* The dispatcher of tools_013_cpuuse, with starts of threads that may fail, and the
\* parts of its libraries: in each behaviour one of them runs and the others rest in a
\* state of their own (so that their states add up and are not multiplied).
EXTENDS MCDispatcher, Cron, Psutil, ProcFs, LruCache, Nvml, TLC

VARIABLE library_part

cpuuseVars == <<library_part, vars, cronVars, psutilVars, procVars, lruVars, nvmlVars>>

\* A calendar of two short months in two years, the second of them a leap year.
MCDays == [y \in 0..1 |-> [m \in 1..2 |-> IF m = 1 THEN 5 ELSE 4 + y]]
MCClock == [f \in {hour, minute, second} |-> IF f = minute THEN 0 ELSE 1]
MCOffered ==
  [f \in Fields |->
     CASE f = year -> {{Span(1, Nothing, 0)}, {StarStep(3)}}
       [] f = month -> {{Span(2, Nothing, 0)}, {StarStep(2)}}
       [] f = day -> {{Span(5, Nothing, 0)}, {Span(2, Nothing, 2)}, {LastDay},
                      {Position(0, 2), Span(3, Nothing, 0)}, {Position(2, 1)},
                      {Position(LastOption, 0)}}
       [] f = week -> {{Span(1, 2, 0)}, {Span(4, Nothing, 0)}, {StarStep(3)}}
       [] f = day_of_week -> {{Span(0, Nothing, 0)}, {Span(1, 2, 0)}}
       [] OTHER -> {{StarStep(0)}, {Span(1, Nothing, 0)}}]
MCAsk == {d \in Dates : d[second] = 1 /\ (d[hour] = 1 \/ d[day] \in {1, 4})}
MCStart == {NoDate, [date |-> Date(1, 1, 2, 0, 0, 1), micro |-> TRUE]}

MCFunctions ==
  {"signal", "nice", "children", "descendants", "ionice", "parent",
   "wait", "wait_procs", "process_iter"}

CronRests ==
  /\ exprs = <<>> /\ asked = NoDate /\ start_date = NoDate /\ next_date = <<>>
  /\ fieldnum = year /\ cronPc = "unused"
PsutilRests ==
  /\ procs = <<>> /\ births = 0 /\ held = NoObject /\ pmap = <<>> /\ call = "none"
  /\ pc = "unused" /\ waitee = NoObject /\ left = {} /\ table = {} /\ result = {}
  /\ began = <<>> /\ lasting = {} /\ touched = NoHit /\ called = MaxCalled

\* Two processes, of which the caller may look into the first or not: it has another
\* thread, or has ended; they share a socket, or one of them has it twice.
MCOpen ==
  LET On(x, y) == (3 :> x) @@ (4 :> y) IN
  {(1 :> On("file", "tcp")) @@ (3 :> (3 :> "tcp")), (1 :> On("tcp", "tcp")) @@ (3 :> (4 :> "unix")),
   (1 :> On("unix", "unix")) @@ (3 :> (4 :> "unix")), (1 :> On("file", "hidden")) @@ (3 :> <<>>)}
MCProcFsInit ==
  /\ \/ leader = (1 :> 1) @@ (2 :> 1) @@ (3 :> 3) /\ zombies = {} /\ open \in MCOpen
     \/ leader = (1 :> 1) @@ (3 :> 3) /\ zombies = {1} /\ open = (3 :> (3 :> "tcp"))
  /\ ProcFsInit

ProcFsRests ==
  /\ leader = <<>> /\ zombies = {} /\ open = <<>> /\ allowed = FALSE /\ method = "none"
  /\ arg = "none" /\ procPc = "unused" /\ pidsLeft = {} /\ entries = {} /\ current = 0
  /\ hit_enoent = FALSE /\ found = {} /\ inodes = {} /\ ret = {} /\ raised = ""
  /\ seen = {} /\ kept = {} /\ events = 0

NvmlRests == NvmlInit /\ library = "good" /\ query = "plain" /\ length = 0

CpuuseInit ==
  /\ library_part \in {"dispatcher", "cron", "psutil", "procfs", "lru_cache", "nvml"}
  /\ IF library_part = "dispatcher" THEN Init ELSE DispatcherRests
  /\ IF library_part = "cron" THEN CronInit ELSE CronRests
  /\ IF library_part = "psutil" THEN PsutilInit ELSE PsutilRests
  /\ IF library_part = "procfs" THEN MCProcFsInit ELSE ProcFsRests
  /\ LruInit
  /\ IF library_part = "nvml" THEN NvmlInit ELSE NvmlRests

Unchanged(parts) == UNCHANGED <<library_part, parts>>

CpuuseNext ==
  \/ /\ library_part = "dispatcher" /\ Next
     /\ Unchanged(<<cronVars, psutilVars, procVars, lruVars, nvmlVars>>)
  \/ /\ library_part = "cron" /\ CronNext
     /\ Unchanged(<<vars, psutilVars, procVars, lruVars, nvmlVars>>)
  \/ /\ library_part = "psutil" /\ PsutilNext
     /\ Unchanged(<<vars, cronVars, procVars, lruVars, nvmlVars>>)
  \/ /\ library_part = "procfs" /\ ProcFsNext
     /\ Unchanged(<<vars, cronVars, psutilVars, lruVars, nvmlVars>>)
  \/ /\ library_part = "lru_cache" /\ LruNext
     /\ Unchanged(<<vars, cronVars, psutilVars, procVars, nvmlVars>>)
  \/ /\ library_part = "nvml" /\ NvmlNext
     /\ Unchanged(<<vars, cronVars, psutilVars, procVars, lruVars>>)

CpuuseSpec == CpuuseInit /\ [][CpuuseNext]_cpuuseVars
=============================================================================
