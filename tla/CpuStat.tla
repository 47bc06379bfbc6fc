------------------------------ MODULE CpuStat ------------------------------
(***************************************************************************)
(* cpustat.py: every interval, for each thread of a process, the CPU time   *)
(* since the interval before, from a dictionary thtime of the last sample   *)
(* per thread id.  Threads come and go, and their ids are used again; a     *)
(* sample is abstracted to the thread (id and generation) and the round it  *)
(* was taken from.                                                          *)
(***************************************************************************)
EXTENDS Naturals, FiniteSets

CONSTANTS Tids,       \* thread ids, numbers: psutil lists them in order
          MaxRounds,  \* bound: samples
          MaxGen      \* bound: threads that one id stands for in turn

ASSUME TidsAssumption == Tids \subseteq Nat \ {0}

VARIABLES
  alive,    \* alive[t]: generation of the thread that has id t, 0 for none
  last,     \* last[t]: generations given out for t
  aim,      \* aim_thr: the threads watched (all without -t)
  thtime,   \* thtime[t]: last sample under this id, or NoSample
  thv,      \* the local variable thv
  todo,     \* the round's list: id |-> generation, what is left of it
  list,     \* history: this round's list
  prev,     \* history: the list of the round before
  round,    \* samples so far
  shown,    \* the line the last step printed
  state     \* "start", "run", "ended"

cpuVars == <<alive, last, aim, thtime, thv, todo, list, prev, round, shown, state>>

NoSample == [tid |-> 0, gen |-> 0, round |-> 0]
NoLine == [now |-> NoSample, base |-> NoSample]
Threads == {t \in Tids : alive[t] > 0}
ThreadList == [t \in Threads |-> alive[t]]
Outside == todo = <<>> /\ state # "ended" /\ UNCHANGED <<aim, thtime, thv, todo, list, prev, round, state>> /\ shown' = NoLine

CpuInit ==
  /\ alive \in [Tids -> {0, 1}] /\ Threads # {}
  /\ last = alive
  /\ aim \in (SUBSET Tids) \ {{}}
  /\ thtime = [t \in Tids |-> NoSample] /\ thv = NoSample
  /\ todo = <<>> /\ list = <<>> /\ prev = <<>> /\ round = 0 /\ shown = NoLine /\ state = "start"

\* The watched process.  Only what is true when the list is read matters, so its
\* threads come and go between two rounds.
Spawn(t) ==
  /\ alive[t] = 0 /\ last[t] < MaxGen
  /\ alive' = [alive EXCEPT ![t] = last[t] + 1] /\ last' = [last EXCEPT ![t] = @ + 1]
  /\ Outside

ThreadExit(t) ==
  /\ alive[t] > 0 /\ Threads # {t}
  /\ alive' = [alive EXCEPT ![t] = 0]
  /\ UNCHANGED last /\ Outside

\* Before the loop: a first sample of every watched thread.
Launch ==
  /\ state = "start" /\ state' = "run" /\ round' = 1
  /\ thtime' = [t \in Tids |-> IF t \in Threads \intersect aim
                               THEN [tid |-> t, gen |-> alive[t], round |-> 1] ELSE NoSample]
  /\ list' = ThreadList /\ shown' = NoLine
  /\ UNCHANGED <<alive, last, aim, thv, todo, prev>>

\* sleep(intr) and the next list of threads.
Sample ==
  /\ state = "run" /\ todo = <<>> /\ round \in 1 .. MaxRounds - 1
  /\ round' = round + 1 /\ todo' = ThreadList /\ shown' = NoLine
  /\ list' = ThreadList /\ prev' = list
  /\ UNCHANGED <<alive, last, aim, thtime, thv, state>>

\* Mutant: a thread keeps the sample it was seen with first.
FirstSample(t, now) == IF thtime[t] = NoSample THEN [thtime EXCEPT ![t] = now] ELSE thtime

\* The sample the next line of this id counts from.
NewSample(t, now) == [thtime EXCEPT ![t] = now]

\* One thread of the list.  For an id that is new thtime is set and thv is not:
\* the line is computed from the thv of a line before; if there was none, the
\* program ends with an exception.
Line(t) ==
  LET now  == [tid |-> t, gen |-> todo[t], round |-> round]
      base == IF thtime[t] # NoSample THEN thtime[t] ELSE thv
  IN
  /\ state = "run" /\ t \in DOMAIN todo /\ \A u \in DOMAIN todo : t <= u
  /\ IF t \in aim
     THEN /\ thtime' = NewSample(t, now) /\ thv' = base
          /\ state' = IF base = NoSample THEN "ended" ELSE state
          /\ shown' = IF base = NoSample THEN NoLine ELSE [now |-> now, base |-> base]
     ELSE UNCHANGED <<thtime, thv, state>> /\ shown' = NoLine
  /\ todo' = IF state' = "ended" THEN <<>> ELSE [u \in DOMAIN todo \ {t} |-> todo[u]]
  /\ UNCHANGED <<alive, last, aim, list, prev, round>>

\* Ctrl-C ends the program.
Interrupt ==
  /\ state = "run" /\ state' = "ended" /\ shown' = NoLine /\ todo' = <<>>
  /\ UNCHANGED <<alive, last, aim, thtime, thv, list, prev, round>>

CpuNext ==
  \/ Launch \/ Sample \/ Interrupt
  \/ \E t \in Tids : Spawn(t) \/ ThreadExit(t) \/ Line(t)

CpuSpec == CpuInit /\ [][CpuNext]_cpuVars

----------------------------------------------------------------------------
\* The line of a thread that was in the list of the round before counts from that
\* thread's own sample of that very round, whatever threads came, went or took over
\* an id meanwhile: only the first line of a new thread is wrong (it counts from the
\* sample of another thread, or of the one that had the id before).
KnownExact ==
  LET t == shown.now.tid IN
  shown # NoLine /\ t \in DOMAIN prev /\ prev[t] = shown.now.gen
    => shown.base = [shown.now EXCEPT !.round = @ - 1]
=============================================================================
