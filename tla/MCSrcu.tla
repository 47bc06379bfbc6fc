------------------------------- MODULE MCSrcu -------------------------------
(* Small instances of Srcu.  A writer holds at most one object at a time,   *)
(* so one node more than there are writers is enough for kzalloc.           *)
EXTENDS Srcu, TLC

CONSTANTS r1, r2, w1, w2, s1, n1, n2, n3

MCSymmetry == Permutations({r1, r2}) \cup Permutations({w1, w2})
              \cup Permutations({n1, n2, n3})
=============================================================================
