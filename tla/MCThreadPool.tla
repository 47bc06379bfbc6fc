---------------------------- MODULE MCThreadPool ----------------------------
(* Small instances of ThreadPool: the scheduler's thread submits, a call of   *)
(* shutdown and the atexit handler stop the pool.                            *)
EXTENDS ThreadPool

CONSTANTS c1, s1, s2
=============================================================================
