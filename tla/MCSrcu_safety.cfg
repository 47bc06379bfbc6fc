SPECIFICATION ModulesSpec
CONSTANTS
  r1 = r1
  r2 = r2
  w1 = w1
  w2 = w2
  s1 = s1
  n1 = n1
  n2 = n2
  n3 = n3
  Readers = {r1, r2}
  Writers = {w1, w2}
  Syncers = {s1}
  Nodes = {n1, n2, n3}
  IntMod = 2
  Walkers = {r1, r2}
  Replacers = {w1, w2}
  GraceWaiters = {s1}
  Elements = {n1, n2, n3}
  srcu_lk = srcu_lk
  MaxBase = 3
SYMMETRY MCSymmetry
INVARIANT NoUseAfterFree
INVARIANT NoTornRead
INVARIANT WalksTrue
CHECK_DEADLOCK FALSE
