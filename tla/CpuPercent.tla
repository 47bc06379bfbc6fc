----------------------------- MODULE CpuPercent -----------------------------
(***************************************************************************)
(* psutil.cpu_percent(), cpu_times_percent() and Process.cpu_percent() from  *)
(* several threads.  Each compares two samples of the times that the kernel *)
(* counts; without an interval the first is the one that the call before    *)
(* has left in a global, or in the Process object.                          *)
(*                                                                         *)
(* The kernel is external: every tick an online CPU has worked, or worked    *)
(* for a guest (which it counts as work as well), or been idle, or been idle *)
(* while a task waited for the disk (iowait), or another guest of the host   *)
(* had it (steal).  No count is taken to go back.  nice, system, irq and     *)
(* softirq are work, as user is.                                             *)
(***************************************************************************)
EXTENDS Integers, FiniteSets, FiniteSetsExt, Functions

CONSTANTS
  Cpus,        \* numbers of CPUs; the first cannot be taken offline
  UseCallers,  \* threads that call
  Workloads,   \* what the CPUs may do in a tick
  UseTogether, \* the sets of functions called in one behaviour
  MaxTicks,    \* bound: time
  MaxUseCalls, \* bound: calls
  MaxPlugs     \* bound: CPUs taken offline or brought online

ASSUME CpuPercentAssumption ==
  /\ Cpus \subseteq Nat /\ IsFiniteSet(Cpus) /\ Cpus # {}
  /\ Workloads \subseteq [Cpus -> {"process", "others", "guest", "iowait", "steal", "idle"}]

VARIABLES
  machine,     \* [at, use: CPU -> TimeFields -> ticks, worked: by the process, online, plugs]
  cpu_count,     \* what memoize has kept of cpu_count(), or 0
  times_before,        \* function -> the samples of the call before
  sample1,     \* thread -> its first samples, of the system's time and of the process's
  sample2,     \* thread -> its second ones
  usePc,       \* thread -> where it is
  calling,     \* thread -> [function, blocking]
  figures,     \* thread -> what its last call returned
  functions,   \* the functions called in this behaviour
  latest,      \* history: function -> the machine at the second sample of the call before
  mixed,       \* history: functions that two threads were in at once
  useCalls     \* counter for the bound

useVars == <<machine, cpu_count, times_before, sample1, sample2, usePc, calling, figures,
             functions, latest, mixed, useCalls>>

\* <<function, percpu>>; what each of the globals and the Process object is for.
Globals == {"cpu_percent", "cpu_times_percent"} \X BOOLEAN
OfProcess == <<"Process.cpu_percent", FALSE>>
UseKinds == Globals \union {OfProcess}

ASSUME TogetherAssumption == UseTogether \subseteq SUBSET UseKinds

\* A sample: the machine as it was, and by how many CPUs its time is multiplied.
NoTimes == [of |-> [at |-> -1], cpus |-> 0]
NoSamples == [sys |-> NoTimes, proc |-> NoTimes]
NoFigures == [kind |-> OfProcess, lines |-> <<>>, error |-> "", from |-> NoTimes.of,
              until |-> NoTimes.of, exact |-> FALSE]

----------------------------------------------------------------------------
\* /proc/stat and os.sysconf.
TimeFields == {"user", "iowait", "steal", "guest", "idle"}
Fresh(n) == [of |-> machine, cpus |-> n]
Order(S) == CHOOSE f \in [1..Cardinality(S) -> S] : \A i, j \in DOMAIN f : i < j => f[i] < f[j]
Total(s, S, field) == SumFunction([c \in S |-> s.of.use[c][field]])
LineOf(s, S) == [field \in TimeFields |-> Total(s, S, field)]

\* The first line is of all CPUs, the others are of those online.
CpuTimes(s) == <<LineOf(s, Cpus)>>
PerCpuTimes(s) == [i \in 1..Cardinality(s.of.online) |-> LineOf(s, {Order(s.of.online)[i]})]

OnlineCpus == Cardinality(machine.online)
Memoize(kept, value) == IF kept = 0 THEN value ELSE kept

\* Mutant: not cached.
CountAnew == OnlineCpus
CpuCount == Memoize(cpu_count, OnlineCpus)

Sum(line) == line.user + line.iowait + line.steal + line.guest + line.idle

Percent(t1, t2) ==
  LET busy_delta == (Sum(t2) - t2.idle) - (Sum(t1) - t1.idle)
      all_delta == Sum(t2) - Sum(t1) IN
  IF busy_delta <= 0 THEN [busy |-> <<0, 1>>] ELSE [busy |-> <<busy_delta, all_delta>>]
TimesPercent(t1, t2) ==
  LET all_delta == Sum(t2) - Sum(t1) IN
  [field \in TimeFields |->
     IF all_delta = 0 THEN <<0, 1>> ELSE <<t2[field] - t1[field], all_delta>>]

Compared(kind, s1, s2) ==
  LET t1 == IF kind[2] THEN PerCpuTimes(s1) ELSE CpuTimes(s1)
      t2 == IF kind[2] THEN PerCpuTimes(s2) ELSE CpuTimes(s2)
      zip == DOMAIN t1 \intersect DOMAIN t2 IN
  [i \in zip |-> IF kind[1] = "cpu_percent" THEN Percent(t1[i], t2[i])
                 ELSE TimesPercent(t1[i], t2[i])]
Divides(lines) == \A i \in DOMAIN lines : \A f \in DOMAIN lines[i] : lines[i][f][2] # 0

ProcessPercent(one, two) ==
  LET delta_proc == two.proc.of.worked - one.proc.of.worked
      delta_time == two.sys.of.at * two.sys.cpus - one.sys.of.at * one.sys.cpus IN
  IF one.sys = NoTimes \/ one.proc = NoTimes \/ delta_time = 0 THEN <<0, 1>>
  ELSE <<delta_proc * two.sys.cpus, delta_time>>

----------------------------------------------------------------------------
UseInit ==
  /\ machine = [at |-> 0, use |-> [c \in Cpus |-> [field \in TimeFields |-> 0]],
                worked |-> 0, online |-> Cpus, plugs |-> 0]
  /\ cpu_count = 0
  /\ times_before = [k \in UseKinds |->
       IF k \in Globals THEN [sys |-> Fresh(0), proc |-> NoTimes] ELSE NoSamples]
  /\ sample1 = [t \in UseCallers |-> NoSamples] /\ sample2 = [t \in UseCallers |-> NoSamples]
  /\ usePc = [t \in UseCallers |-> "idle"]
  /\ calling = [t \in UseCallers |-> [kind |-> OfProcess, blocking |-> FALSE]]
  /\ figures = [t \in UseCallers |-> NoFigures]
  /\ functions \in UseTogether
  /\ latest = [k \in UseKinds |-> IF k \in Globals THEN machine ELSE NoTimes.of]
  /\ mixed = {} /\ useCalls = 0

UseAt(t, p) == usePc[t] = p
UseGoes(t, p) == usePc' = [usePc EXCEPT ![t] = p]
Kind(t) == calling[t].kind
Begun == <<calling, functions, useCalls, cpu_count, mixed>>

\* "blocking", with an interval, or not.  The globals are everybody's, a Process object
\* is one thread's at a time.
UseBegin(t, k, blocking) ==
  /\ UseAt(t, "idle") /\ useCalls < MaxUseCalls /\ useCalls' = useCalls + 1
  /\ k = OfProcess => \A u \in UseCallers : UseAt(u, "idle")
  /\ calling' = [calling EXCEPT ![t] = [kind |-> k, blocking |-> blocking]]
  /\ cpu_count' = IF k = OfProcess THEN CpuCount ELSE cpu_count
  /\ UseGoes(t, IF k = OfProcess THEN "first" ELSE "sample")
  /\ sample1' = [sample1 EXCEPT ![t] =
       [sys |-> IF ~blocking THEN times_before[k].sys
                ELSE Fresh(IF k = OfProcess THEN CpuCount ELSE 0),
        proc |-> NoTimes]]
  /\ figures' = [figures EXCEPT ![t] = NoFigures]
  /\ mixed' = mixed \union {g \in {k} : \E u \in UseCallers : ~UseAt(u, "idle") /\ Kind(u) = k}
  /\ UNCHANGED <<machine, times_before, sample2, functions, latest>>

\* Of the process, after the time of the system.
FirstProc(t) ==
  /\ UseAt(t, "first") /\ UseGoes(t, "sample")
  /\ sample1' = [sample1 EXCEPT ![t].proc =
       IF calling[t].blocking THEN Fresh(0) ELSE times_before[OfProcess].proc]
  /\ UNCHANGED <<Begun, machine, times_before, sample2, figures, latest>>

Second(t) ==
  /\ UseAt(t, "sample") /\ UseGoes(t, IF Kind(t) = OfProcess THEN "proc" ELSE "store")
  /\ sample2' = [sample2 EXCEPT ![t].sys = Fresh(IF Kind(t) = OfProcess THEN CpuCount ELSE 0)]
  /\ UNCHANGED <<Begun, machine, times_before, sample1, figures, latest>>
SecondProc(t) ==
  /\ UseAt(t, "proc") /\ UseGoes(t, "store")
  /\ sample2' = [sample2 EXCEPT ![t].proc = Fresh(0)]
  /\ UNCHANGED <<Begun, machine, times_before, sample1, figures, latest>>

\* "reset values for next call in case of interval == None"
StoreLast(t) ==
  /\ UseAt(t, "store") /\ UseGoes(t, IF Kind(t) = OfProcess THEN "storeproc" ELSE "calculate")
  /\ times_before' = [times_before EXCEPT ![Kind(t)].sys = sample2[t].sys]
  /\ latest' = [latest EXCEPT ![Kind(t)] = sample2[t].sys.of]
  /\ figures' = [figures EXCEPT ![t].from = IF calling[t].blocking THEN sample1[t].sys.of
                                            ELSE latest[Kind(t)]]
  /\ UNCHANGED <<Begun, machine, sample1, sample2>>
StoreProc(t) ==
  /\ UseAt(t, "storeproc") /\ UseGoes(t, "calculate")
  /\ times_before' = [times_before EXCEPT ![OfProcess].proc = sample2[t].proc]
  /\ UNCHANGED <<Begun, machine, sample1, sample2, figures, latest>>

\* The globals are read again here, the process's samples are not.
Calculate(t) ==
  /\ UseAt(t, "calculate") /\ UseGoes(t, "idle")
  /\ LET lines == IF Kind(t) = OfProcess THEN <<[busy |-> ProcessPercent(sample1[t], sample2[t])]>>
                  ELSE Compared(Kind(t), sample1[t].sys, times_before[Kind(t)].sys)
         at_once == \A s \in {sample1[t], sample2[t]} : s.sys.of.at = s.proc.of.at IN
     figures' = [figures EXCEPT ![t] =
       [kind |-> Kind(t), lines |-> IF Divides(lines) THEN lines ELSE <<>>,
        error |-> IF Divides(lines) THEN "" ELSE "ZeroDivisionError",
        from |-> figures[t].from, until |-> sample2[t].sys.of,
        exact |-> Kind(t) \notin mixed /\ (Kind(t) = OfProcess => at_once)]]
  /\ sample1' = [sample1 EXCEPT ![t] = NoSamples] /\ sample2' = [sample2 EXCEPT ![t] = NoSamples]
  /\ UNCHANGED <<Begun, machine, times_before, latest>>

\* Time.
CountedAs(load) ==
  CASE load \in {"process", "others"} -> {"user"} [] load = "guest" -> {"user", "guest"}
    [] OTHER -> {load}
Worked(c, load) ==
  [field \in TimeFields |->
     machine.use[c][field] + (IF field \in CountedAs(load) THEN 1 ELSE 0)]
UseTick ==
  /\ machine.at < MaxTicks
  /\ \E load \in Workloads :
       machine' = [machine EXCEPT !.at = @ + 1,
         !.worked = @ + Cardinality({c \in machine.online : load[c] = "process"}),
         !.use = [c \in Cpus |->
           IF c \in machine.online THEN Worked(c, load[c]) ELSE machine.use[c]]]
  /\ UNCHANGED <<Begun, times_before, sample1, sample2, usePc, figures, latest>>
PlugCpu ==
  /\ machine.plugs < MaxPlugs
  /\ \E c \in Cpus \ {Min(Cpus)} :
       machine' = [machine EXCEPT !.plugs = @ + 1,
         !.online = IF c \in @ THEN @ \ {c} ELSE @ \union {c}]
  /\ UNCHANGED <<Begun, times_before, sample1, sample2, usePc, figures, latest>>

UseNext ==
  \/ UseTick \/ PlugCpu
  \/ \E t \in UseCallers :
       \/ \E k \in functions, blocking \in BOOLEAN : UseBegin(t, k, blocking)
       \/ FirstProc(t) \/ Second(t) \/ SecondProc(t) \/ StoreLast(t) \/ StoreProc(t) \/ Calculate(t)

UseSpec == UseInit /\ [][UseNext]_useVars

----------------------------------------------------------------------------
\* What really was, between two moments, on some CPUs.
Gone(a, b, S, field) == SumFunction([c \in S |-> b.use[c][field] - a.use[c][field]])
Is(figure, part, whole) == figure[1] * whole = part * figure[2]
AtMost(figure, part, whole) == figure[1] * whole <= part * figure[2]

\* What cpu_percent() takes for use: all that is not in the field idle, and so also the
\* time a CPU was idle for the disk's sake, and that another guest of the host had.
NotIdle(a, b, S) == Gone(a, b, S, "user") + Gone(a, b, S, "iowait") + Gone(a, b, S, "steal")

PercentTrue(line, a, b, S) ==
  LET whole == Cardinality(S) * (b.at - a.at) IN
  /\ whole = 0 => line.busy[1] = 0
  /\ line.busy[1] \in 0..line.busy[2]
  /\ line.busy[1] * whole >= NotIdle(a, b, S) * line.busy[2]
  /\ Gone(a, b, S, "guest") = 0 => Is(line.busy, NotIdle(a, b, S), whole)
TimesTrue(line, a, b, S) ==
  LET whole == Cardinality(S) * (b.at - a.at) IN
  /\ DOMAIN line = TimeFields
  /\ \A field \in TimeFields :
       /\ whole = 0 => line[field][1] = 0
       /\ AtMost(line[field], Gone(a, b, S, field), whole)
       /\ Gone(a, b, S, "guest") = 0 => Is(line[field], Gone(a, b, S, field), whole)

\* What a call returns is about the time since the call before, or its interval.
\* cpu_percent() is the part of it in which the CPUs were not counted as idle (iowait
\* and steal are counted in, so it is their work only if there was neither), and
\* cpu_times_percent() the part in each field: exactly, if no guest has run; its time
\* counts twice, and so the first says too much and the second too little, but nothing
\* above 100.  The figure of a process is its own time, whatever CPUs come and go.
\* Excused are functions that two threads were in at once, the machine's figures over a
\* change of its CPUs (the elements of the lists no longer match, and may raise
\* ZeroDivisionError), and the process's if time passes within one of its samples.
UseTrue ==
  \A t \in UseCallers : LET r == figures[t] IN
    UseAt(t, "idle") /\ r.exact /\ r.from # NoTimes.of =>
      IF r.kind = OfProcess
      THEN LET whole == r.until.at - r.from.at IN
           IF whole = 0 THEN r.lines[1].busy[1] = 0
           ELSE Is(r.lines[1].busy, r.until.worked - r.from.worked, whole)
      ELSE r.from.plugs = r.until.plugs =>
        /\ r.error = ""
        /\ DOMAIN r.lines = IF r.kind[2] THEN 1..Cardinality(r.until.online) ELSE {1}
        /\ \A i \in DOMAIN r.lines :
             LET S == IF r.kind[2] THEN {Order(r.until.online)[i]} ELSE r.until.online IN
             IF r.kind[1] = "cpu_percent" THEN PercentTrue(r.lines[i], r.from, r.until, S)
             ELSE TimesTrue(r.lines[i], r.from, r.until, S)
=============================================================================
