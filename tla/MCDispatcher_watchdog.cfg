SPECIFICATION FairSpec
CONSTANTS
  good = good
  shaky = shaky
  stuck = stuck
  Unknown = Unknown
  Bad = Bad
  Senders <- MCSenders
  Reliable <- MCReliable
  Hanging <- MCHanging
  Batches <- MCBatches
  StartMayFail = TRUE
  MaxData = 3
  MaxFaults = 2
PROPERTY DeadSenderRestarted
CHECK_DEADLOCK FALSE
