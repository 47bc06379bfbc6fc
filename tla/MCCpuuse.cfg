SPECIFICATION CpuuseSpec
CONSTANTS
  good = good
  shaky = shaky
  stuck = stuck
  Unknown = Unknown
  Bad = Bad
  Senders <- MCSenders
  Reliable <- MCReliable
  Hanging <- MCHanging
  Batches <- MCBatches
  StartMayFail = TRUE
  MaxData = 5
  MaxFaults = 2
  Years = 2
  MaxYear = 9
  Months = 2
  MonthDays <- MCDays
  WeekDays = 3
  MaxWeek = 4
  ClockMax <- MCClock
  Offered <- MCOffered
  MaxGiven = 2
  AskDates <- MCAsk
  StartDates <- MCStart
  Pids = {1, 2, 3}
  MaxBirths = 4
  MaxCalled = 2
  Offers <- MCFunctions
  Ids = {1, 2, 3}
  Subject = 1
  Fds = {3, 4}
  MaxEvents = 2
  LruThreads = {1, 2}
  Keys = {1, 2, 3}
  NoKey = 0
  maxsize = 2
  Links = {1, 2, 3}
  MaxAsked = 6
  MaxCleared = 1
  NvmlThreads = {1, 2}
  Askers = {1}
  Sizes = {0, 1, 2, 8}
  MaxInits = 2
  MaxAsks = 1
  MaxResizes = 2
PROPERTY ImplementsChannels
INVARIANT EarliestMatch
INVARIANT GuardedChecked
INVARIANT ChildrenTrue
INVARIANT WaitTrue
INVARIANT AnswersTrue
INVARIANT RingTrue
INVARIANT RefcountTrue
INVARIANT ListsComplete
\* Data, events, calls and the functions at work are bounded.
CHECK_DEADLOCK FALSE
