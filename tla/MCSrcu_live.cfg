SPECIFICATION FairSpec
CONSTANTS
  r1 = r1
  r2 = r2
  w1 = w1
  w2 = w2
  s1 = s1
  n1 = n1
  n2 = n2
  n3 = n3
  Readers = {r1}
  Writers = {w1, w2}
  Syncers = {s1}
  Nodes = {n1, n2, n3}
  IntMod = 1
PROPERTY ReplacedIsFreed
PROPERTY UnloadEnds
CHECK_DEADLOCK FALSE
