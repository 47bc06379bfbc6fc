SPECIFICATION Spec
CONSTANTS
  j1 = j1
  j2 = j2
  Jobs = {j1, j2}
  interval <- MCInterval
  max_runs <- MCLimitSecond
  coalesce <- MCCoalesce
  max_instances <- MCInstances
  misfire_grace_time = 1
  StartMayFail = FALSE
  MaxTime = 4
INVARIANT MaxRunsRespected
CHECK_DEADLOCK FALSE
