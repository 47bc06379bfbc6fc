SPECIFICATION FairSpec
CONSTANTS
  p1 = p1
  p2 = p2
  p3 = p3
  Conns <- MCConns
  Polite <- MCPolite
  Fds <- MCFds
  HeaderLen = 2
  DataLen = 3
  RecvMax = 4
  MaxPackets <- MCMaxPackets
CHECK_DEADLOCK FALSE
INVARIANT FdTables
INVARIANT PoliteKept
PROPERTY GoneIsReleased
PROPERTY PoliteAnswered
