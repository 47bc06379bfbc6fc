---------------------------- MODULE MCScheduler -----------------------------
(* Small instances of Scheduler: a collector that is run every second tick   *)
(* and coalesces what it missed, as all the agent's do, and one that does    *)
(* not.  In MCLimitFirst the first may run once, in MCLimitSecond the second.     *)
EXTENDS Scheduler

CONSTANTS j1, j2

MCInterval == [j \in Jobs |-> IF j = j1 THEN 2 ELSE 1]
MCCoalesce == [j \in Jobs |-> j = j1]
MCInstances == [j \in Jobs |-> 1]
MCLimitFirst == [j \in Jobs |-> IF j = j1 THEN 1 ELSE 0]
MCLimitSecond == [j \in Jobs |-> IF j = j1 THEN 0 ELSE 1]
=============================================================================
