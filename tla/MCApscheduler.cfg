SPECIFICATION PartsSpec
CONSTANTS
  a = a
  b = b
  Jobs = {a, b}
  Options <- MCOptions
  RunDates = {3}
  Kinds = {"ram", "shelve", "sqlalchemy", "mongodb", "redis"}
  MaxNow = 4
  MaxLoads = 2
  MaxCrashes = 1
  MaxRefusals = 1
  c1 = c1
  s1 = s1
  s2 = s2
  Callers = {c1}
  Stoppers = {s1, s2}
  core_threads = 1
  max_threads = 2
  MaxTasks = 3
  MaxFaults = 1
INVARIANT WithinLimits
INVARIANT QuietAfterShutdown
INVARIANT OnePlace
INVARIANT StoreResumable
PROPERTY StoredJobsRun
PROPERTY EveryTaskRuns
PROPERTY ShutdownReturnsUnlessLate
CHECK_DEADLOCK FALSE
