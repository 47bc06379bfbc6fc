SPECIFICATION FairSpec
CONSTANTS
  c1 = c1
  s1 = s1
  s2 = s2
  Callers = {c1}
  Stoppers = {s1}
  core_threads = 1
  max_threads = 2
  MaxTasks = 2
  MaxFaults = 0
PROPERTY ShutdownReturns
CHECK_DEADLOCK FALSE
