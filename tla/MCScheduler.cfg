SPECIFICATION FairSpec
CONSTANTS
  j1 = j1
  j2 = j2
  Jobs = {j1, j2}
  interval <- MCInterval
  max_runs <- MCLimitFirst
  coalesce <- MCCoalesce
  max_instances <- MCInstances
  misfire_grace_time = 1
  StartMayFail = TRUE
  MaxTime = 4
INVARIANT EachTimeOnce
INVARIANT InstancesCounted
PROPERTY DueJobsRun
 
CHECK_DEADLOCK FALSE
