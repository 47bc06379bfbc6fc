SPECIFICATION AgentSpec
CONSTANTS
  Plugins = {1, 2}
  MaxCommands = 1
  MaxListFaults = 1
  v1 = v1
  v2 = v2
  v3 = v3
  Operators = {v1, v2, v3}
  MaxStops = 1
  MaxErrors = 1
  good = good
  shaky = shaky
  stuck = stuck
  Unknown = Unknown
  Bad = Bad
  Senders <- MCSenders
  Reliable <- MCReliable
  Hanging <- MCHanging
  Batches <- MCBatches
  StartMayFail = FALSE
  MaxData = 4
  MaxFaults = 1
INVARIANT OneConnection
PROPERTY HealthyGetsJob
PROPERTY OperatorsRecover
PROPERTY ReliableDelivery
PROPERTY DeadSenderRestarted
CHECK_DEADLOCK FALSE
