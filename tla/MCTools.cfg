CONSTANTS
  p1 = p1
  p2 = p2
  p3 = p3
  s1 = s1
  s2 = s2
  q1 = q1
  q2 = q2
  Packets = {p1, p2, p3}
  Seqs = {s1, s2}
  Capacity = 1
  MaxOnWay = 2
  Queues = {q1, q2}
  Size = 1
  W = 2
  MaxCalls = 4
  Tids = {1, 2, 3}
  MaxRounds = 3
  MaxGen = 2
  MaxSlots = 5
  Byte = 4
  Cpus = {1, 2}
  UseCallers = {1, 2}
  Workloads <- MCLoads
  UseTogether <- MCTogether
  MaxTicks = 2
  MaxUseCalls = 2
  MaxPlugs = 1
SPECIFICATION ToolsSpec
INVARIANT OwnTimes
INVARIANT DistancesTrue
INVARIANT ExactUnlessRaced
INVARIANT KnownExact
INVARIANT UseTrue
INVARIANT ShownIsSlotCount
\* Packets, calls, rounds and slots are bounded.
CHECK_DEADLOCK FALSE
