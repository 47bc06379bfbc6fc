------------------------------ MODULE MCTools ------------------------------
\* The tracers, cpustat and psutil's CPU figures, which have nothing to do with each other: in each
\* behaviour one of them runs and the others rest in a state of their own (so that
\* their states add up and are not multiplied).
EXTENDS BccPing, Vring, CpuStat, CpuPercent, HotPlug

VARIABLE tool

toolVars == <<tool, pingVars, vringVars, cpuVars, useVars, plugVars>>

CONSTANTS p1, p2, p3, s1, s2, q1, q2    \* packets, sequence numbers, queues

\* Packets and sequence numbers differ by name only: those of the sequence number that
\* most packets have come first, and packets of one number are in the order of kinds.
Rank(p) == CASE kind[p] = "ping" -> 1 [] kind[p] = "elsewhere" -> 2
             [] kind[p] = "incoming" -> 3 [] kind[p] = "other" -> 4
Canonical ==
  /\ seq[p1] = s1 /\ seq[p2] = s1 /\ Rank(p1) <= Rank(p2)
  /\ seq[p3] = s1 => Rank(p2) <= Rank(p3)

PingRests ==
  /\ prog = "send" /\ osend = FALSE /\ report = None
  /\ kind = [p \in Packets |-> "ping"] /\ at = [p \in Packets |-> 0]
  /\ seq = <<>> /\ maps = <<>> /\ t5 = <<>> /\ spoilt = <<>>
VringRests ==
  /\ dir = <<>> /\ ring = <<>> /\ handler = <<>> /\ calls = 0 /\ stat = <<>>
  /\ counted = NoValue /\ truth = <<>> /\ raced = Stats
CpuRests ==
  /\ alive = <<>> /\ last = <<>> /\ aim = {} /\ thtime = <<>> /\ thv = NoSample /\ todo = <<>>
  /\ list = <<>> /\ prev = <<>> /\ round = 0 /\ shown = NoLine /\ state = "ended"

\* The two system-wide functions together; the others each by itself.
MCTogether ==
  {{k \in Globals : ~k[2]}, {OfProcess}} \union {{k} : k \in {g \in Globals : g[2]}}
MCLoads == {<<"process", "idle">>, <<"guest", "others">>, <<"iowait", "steal">>}

UseRests == UseInit /\ functions = {OfProcess}

ToolsInit ==
  /\ tool \in {"bccping", "bccvring", "cpustat", "cpu_percent", "bccattach"}
  /\ IF tool = "bccping" THEN PingInit /\ Canonical ELSE PingRests
  /\ IF tool = "bccvring" THEN VringInit ELSE VringRests
  /\ IF tool = "cpustat" THEN CpuInit ELSE CpuRests
  /\ IF tool = "cpu_percent" THEN UseInit ELSE UseRests
  /\ PlugInit

ToolsNext ==
  /\ UNCHANGED tool
  /\ \/ tool = "bccping" /\ PingNext /\ UNCHANGED <<vringVars, cpuVars, useVars, plugVars>>
     \/ tool = "bccvring" /\ VringNext /\ UNCHANGED <<pingVars, cpuVars, useVars, plugVars>>
     \/ tool = "cpustat" /\ CpuNext /\ UNCHANGED <<pingVars, vringVars, useVars, plugVars>>
     \/ tool = "cpu_percent" /\ UseNext /\ UNCHANGED <<pingVars, vringVars, cpuVars, plugVars>>
     \/ tool = "bccattach" /\ PlugNext /\ UNCHANGED <<pingVars, vringVars, cpuVars, useVars>>

ToolsSpec == ToolsInit /\ [][ToolsNext]_toolVars
=============================================================================
