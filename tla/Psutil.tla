------------------------------- MODULE Psutil -------------------------------
(***************************************************************************)
(* lib/psutil: Process objects, which name a process by its pid and the     *)
(* time it was created, against a system that forks, ends and reaps         *)
(* processes and uses their pids again.  One program calls one function at   *)
(* a time; every look at /proc and every system call is a step of its own.  *)
(*                                                                         *)
(* Processes that have had the same pid have different creation times.      *)
(***************************************************************************)
EXTENDS Integers, FiniteSets

CONSTANTS
  Pids,        \* process ids; the program's own is the smallest
  MaxBirths,   \* bound: processes created
  MaxCalled,   \* bound: calls of the program
  Offers       \* the functions the program calls

ASSUME PsutilAssumption ==
  /\ Pids \subseteq Nat \ {0} /\ Pids # {} /\ IsFiniteSet(Pids)
  /\ MaxBirths \in Nat /\ MaxCalled \in Nat

VARIABLES
  procs,      \* the system: pid -> [birth, parent, zombie] of each process
  births,     \* processes created so far (the clock of creation times)
  held,       \* the Process object the program has: [pid, birth, gone], or none
  pmap,       \* _pmap: pid -> object
  call,       \* the function at work or returned from, or "none"
  pc,         \* where it is, or "idle"
  waitee,     \* wait, wait_procs: the object it waits for
  left,       \* pids (wait_procs: objects) it has still to look at
  table,      \* what it has read: <<object, ppid>>; wait_procs: gone
  result,     \* what it returned: objects, or nothing
  began,      \* history: the processes as the function was called
  lasting,    \* history: those of them that are still there
  touched,    \* history: births the last operation was applied to, and meant for
  called      \* counter for the bound

psutilVars ==
  <<procs, births, held, pmap, call, pc, waitee, left, table, result, began, lasting,
    touched, called>>

OwnPid == CHOOSE p \in Pids : \A q \in Pids : p <= q
NoObject == [pid |-> 0, birth |-> 0, gone |-> TRUE]
Object(p) == [pid |-> p, birth |-> procs[p].birth, gone |-> FALSE]
NoHit == [at |-> 0, own |-> 0, began |-> 0]

There(p) == p \in DOMAIN procs
\* self == Process(self.pid)
Same(o) == There(o.pid) /\ procs[o.pid].birth = o.birth
BirthAt(ps, p) == IF p \in DOMAIN ps THEN ps[p].birth ELSE 0

PsutilInit ==
  /\ procs = [p \in {OwnPid} |-> [birth |-> 1, parent |-> 0, zombie |-> FALSE]]
  /\ births = 1 /\ held = NoObject /\ pmap = <<>>
  /\ call = "none" /\ pc = "idle" /\ waitee = NoObject /\ left = {} /\ table = {} /\ result = {}
  /\ began = procs /\ lasting = {1} /\ touched = NoHit /\ called = 0

----------------------------------------------------------------------------
\* The system.
Program == UNCHANGED <<held, pmap, call, pc, waitee, left, table, result, began, touched, called>>

Fork(p, q) ==
  /\ There(p) /\ ~procs[p].zombie /\ q \in Pids \ DOMAIN procs /\ births < MaxBirths
  /\ births' = births + 1
  /\ procs' = [r \in DOMAIN procs \union {q} |->
                 IF r = q THEN [birth |-> births + 1, parent |-> p, zombie |-> FALSE]
                 ELSE procs[r]]
  /\ UNCHANGED lasting /\ Program

\* Its children get init for a parent.  The program's own children wait for it.
Without(p) == [r \in DOMAIN procs \ {p} |->
                 IF procs[r].parent = p THEN [procs[r] EXCEPT !.parent = 0] ELSE procs[r]]

Exit(p) ==
  /\ There(p) /\ p # OwnPid /\ ~procs[p].zombie
  /\ IF procs[p].parent = OwnPid
     THEN /\ procs' = [r \in DOMAIN procs |->
                 IF r = p THEN [procs[r] EXCEPT !.zombie = TRUE]
                 ELSE IF procs[r].parent = p THEN [procs[r] EXCEPT !.parent = 0] ELSE procs[r]]
          /\ UNCHANGED lasting
     ELSE procs' = Without(p) /\ lasting' = lasting \ {procs[p].birth}
  /\ UNCHANGED births /\ Program

System == \E p \in Pids : Exit(p) \/ \E q \in Pids : Fork(p, q)

----------------------------------------------------------------------------
\* The program calls a function of the object it has (or process_iter).
SystemSame == UNCHANGED <<procs, births>>

Call(f, first) ==
  /\ pc = "idle" /\ called < MaxCalled /\ f \in Offers
  /\ called' = called + 1 /\ call' = f /\ pc' = first
  /\ table' = {} /\ result' = {} /\ touched' = NoHit
  /\ began' = procs /\ lasting' = {procs[p].birth : p \in DOMAIN procs}

\* Process(pid); the program may also go on with an object process_iter has made.
NewProcess(p) ==
  /\ pc = "idle" /\ There(p) /\ called < MaxCalled
  /\ held' = (IF p \in DOMAIN pmap THEN pmap[p] ELSE Object(p))
  /\ call' = "none" /\ result' = {} /\ touched' = NoHit
  /\ UNCHANGED <<pmap, pc, waitee, left, table, began, lasting, called>> /\ SystemSame

\* The functions that check the identity, and others (rlimit and cpu_affinity are like
\* ionice).
Checked == {"signal", "nice", "children", "descendants"}
Unchecked == {"ionice", "parent"}

CallMethod ==
  /\ held # NoObject /\ left' = {}
  /\ \E f \in Checked \union Unchecked :
       Call(f, IF f \in Checked THEN "check" ELSE IF f = "parent" THEN "ppid" ELSE "act")
  /\ UNCHANGED <<held, pmap, waitee>> /\ SystemSame

CallWait ==
  /\ held # NoObject /\ Call("wait", "waitpid") /\ waitee' = held /\ left' = {}
  /\ UNCHANGED <<held, pmap>> /\ SystemSame

\* wait_procs, with the objects of process_iter
CallWaitProcs ==
  /\ Call("wait_procs", "choose") /\ UNCHANGED waitee
  /\ \E S \in SUBSET DOMAIN pmap : S # {} /\ left' = {pmap[p] : p \in S}
  /\ UNCHANGED <<held, pmap>> /\ SystemSame

CallIter ==
  Call("process_iter", "pids") /\ left' = {} /\ UNCHANGED <<held, pmap, waitee>> /\ SystemSame

Frame == UNCHANGED <<call, waitee, began, lasting, called>> /\ SystemSame
Returns(r) == /\ result' = r /\ pc' = "idle" /\ left' = {} /\ table' = {} /\ waitee' = NoObject
             /\ UNCHANGED <<call, began, called>>

\* Mutant: the pid is looked for, but not whose it is.
AnyThere(o) == ~o.gone /\ There(o.pid)
Running(o) == ~o.gone /\ Same(o)

\* _assert_pid_not_reused, is_running.
Check ==
  /\ pc = "check"
  /\ held' = [held EXCEPT !.gone = held.gone \/ ~There(held.pid)]
  /\ IF Running(held)
     THEN /\ pc' = (IF call \in {"children", "descendants"} THEN "pids" ELSE "act")
          /\ UNCHANGED <<left, table, result>> /\ Frame
     ELSE Returns({}) /\ UNCHANGED lasting /\ SystemSame
  /\ UNCHANGED <<pmap, touched>>

\* os.kill, setpriority, ioprio_set, prlimit, sched_setaffinity
Act ==
  /\ pc = "act" /\ Returns({}) /\ UNCHANGED lasting /\ SystemSame
  /\ IF There(held.pid)
     THEN /\ touched' = [at |-> procs[held.pid].birth, own |-> held.birth,
                     began |-> BirthAt(began, held.pid)]
          /\ UNCHANGED held
     ELSE held' = [held EXCEPT !.gone = held.gone \/ call = "signal"] /\ UNCHANGED touched
  /\ UNCHANGED pmap

\* parent: the parent's pid, and then an object for it that is not younger.
ParentPpid ==
  /\ pc = "ppid"
  /\ IF There(held.pid)
     THEN /\ pc' = "create" /\ left' = {procs[held.pid].parent} /\ UNCHANGED <<table, result>>
          /\ Frame
     ELSE Returns({}) /\ UNCHANGED lasting /\ SystemSame
  /\ UNCHANGED <<held, pmap, touched>>

ParentCreate ==
  /\ pc = "create"
  /\ Returns({Object(p) : p \in {q \in left : There(q) /\ procs[q].birth <= held.birth}})
  /\ UNCHANGED <<held, pmap, lasting, touched>> /\ SystemSame

----------------------------------------------------------------------------
\* process_iter, alone or in children(): the pids there are; objects whose pid has
\* gone are forgotten.
IterPids ==
  /\ pc = "pids" /\ pc' = "visit"
  /\ left' = DOMAIN procs
  /\ pmap' = [p \in DOMAIN pmap \intersect DOMAIN procs |-> pmap[p]]
  /\ UNCHANGED <<held, table, result, touched>> /\ Frame

Following == CHOOSE p \in left : \A q \in left : p <= q

\* Mutant: the object in the table is taken as it is.
VisitedOld(p) == IF p \in DOMAIN pmap THEN pmap[p] ELSE Object(p)

\* The next pid: the object in the table if it is still that process, or else a new one.
\* A caller that wants the parent reads it in a step of its own.
Visited(p) == IF p \in DOMAIN pmap /\ Running(pmap[p]) THEN pmap[p] ELSE Object(p)

IterVisit ==
  /\ pc = "visit" /\ left # {} /\ left' = left \ {Following}
  /\ IF There(Following)
     THEN /\ pmap' = [p \in DOMAIN pmap \union {Following} |->
                        IF p = Following THEN Visited(Following) ELSE pmap[p]]
          /\ table' = table \union {<<Visited(Following), -1>>}
          /\ pc' = (IF call = "process_iter" THEN "visit" ELSE "child")
     ELSE pmap' = [p \in DOMAIN pmap \ {Following} |-> pmap[p]] /\ UNCHANGED <<table, pc>>
  /\ UNCHANGED <<held, result, touched>> /\ Frame

ChildPpid ==
  /\ pc = "child" /\ pc' = "visit"
  /\ table' = UNION {IF e[2] # -1 THEN {e}
                     ELSE IF There(e[1].pid) THEN {<<e[1], procs[e[1].pid].parent>>} ELSE {} :
                     e \in table}
  /\ UNCHANGED <<held, pmap, left, result, touched>> /\ Frame

\* Those with this parent that are not older than the object, and, for all descendants,
\* theirs in turn.
Offspring(S) == {e[1] : e \in {x \in table : x[2] \in S /\ held.birth <= x[1].birth}}
DescendantPids ==
  LET f[n \in 0..Cardinality(Pids)] ==
        IF n = 0 THEN {held.pid} ELSE f[n - 1] \union {o.pid : o \in Offspring(f[n - 1])}
  IN f[Cardinality(Pids)]

IterEnds ==
  /\ pc = "visit" /\ left = {}
  /\ Returns(CASE call = "process_iter" -> {e[1] : e \in table}
              [] call = "children" -> Offspring({held.pid})
              [] call = "descendants" -> Offspring(DescendantPids))
  /\ UNCHANGED <<held, pmap, lasting, touched>> /\ SystemSame

----------------------------------------------------------------------------
\* wait returns; wait_procs goes on to the next one.  exit: is there an exit status?
WaitedFor(exit) ==
  IF call = "wait" THEN Returns({waitee}) /\ UNCHANGED <<lasting, touched>>
  ELSE /\ pc' = (IF exit THEN "choose" ELSE "recheck")
       /\ IF exit THEN left' = left \ {waitee} /\ table' = table \union {waitee}
          ELSE UNCHANGED <<left, table>>
       /\ UNCHANGED <<call, waitee, result, began, lasting, touched, called>>

\* Mutant: what cannot be waited for counts as gone.
WaitPidGone ==
  /\ pc = "waitpid" /\ ~(There(waitee.pid) /\ procs[waitee.pid].parent = OwnPid)
  /\ WaitedFor(FALSE)
  /\ UNCHANGED <<held, pmap>> /\ SystemSame

\* wait_pid: waitpid as long as it is a child of the program (else ECHILD) ...
WaitPid ==
  /\ pc = "waitpid" /\ ~(There(waitee.pid) /\ procs[waitee.pid].parent = OwnPid)
  /\ pc' = "exists"
  /\ UNCHANGED <<held, pmap, left, table, result, touched>> /\ Frame

Reap ==
  /\ pc = "waitpid" /\ There(waitee.pid) /\ procs[waitee.pid].parent = OwnPid
  /\ procs[waitee.pid].zombie
  /\ procs' = Without(waitee.pid) /\ UNCHANGED births
  /\ IF call = "wait" THEN Returns({waitee})
     ELSE /\ pc' = "choose" /\ left' = left \ {waitee} /\ table' = table \union {waitee}
          /\ UNCHANGED <<call, waitee, result, began, called>>
  /\ lasting' = lasting \ {procs[waitee.pid].birth}
  /\ UNCHANGED <<held, pmap, touched>>

\* ... else it looks until there is no process of that pid ...
WaitExists ==
  /\ pc = "exists" /\ ~There(waitee.pid) /\ WaitedFor(FALSE)
  /\ UNCHANGED <<held, pmap>> /\ SystemSame

\* ... or the time is over (TimeoutExpired).
WaitTimeout ==
  /\ pc \in {"waitpid", "exists"}
  /\ IF call = "wait" THEN Returns({}) /\ UNCHANGED lasting
     ELSE pc' = "choose" /\ UNCHANGED <<call, waitee, left, table, result, began, lasting, called>>
  /\ UNCHANGED <<held, pmap, touched>> /\ SystemSame

\* wait_procs: the next one, in any order; without a status, is it really gone?
WaitChoose ==
  /\ pc = "choose" /\ pc' = "waitpid" /\ waitee' \in left
  /\ UNCHANGED <<held, pmap, call, left, table, result, began, lasting, touched, called>> /\ SystemSame

WaitRecheck ==
  /\ pc = "recheck" /\ pc' = "choose"
  /\ IF Running(waitee) THEN UNCHANGED <<left, table>>
     ELSE left' = left \ {waitee} /\ table' = table \union {waitee}
  /\ UNCHANGED <<held, pmap, result, touched>> /\ Frame

WaitProcsEnds ==
  /\ pc = "choose" /\ Returns(table)    \* left = {}, or the time is over
  /\ UNCHANGED <<held, pmap, lasting, touched>> /\ SystemSame

Function ==
  \/ Check \/ Act \/ ParentPpid \/ ParentCreate
  \/ IterPids \/ IterVisit \/ ChildPpid \/ IterEnds \/ WaitPid \/ Reap \/ WaitExists
  \/ WaitTimeout \/ WaitChoose \/ WaitRecheck \/ WaitProcsEnds

PsutilNext ==
  \/ System \/ Function \/ CallMethod \/ CallWait \/ CallWaitProcs \/ CallIter
  \/ \E p \in Pids : NewProcess(p)

PsutilSpec == PsutilInit /\ [][PsutilNext]_psutilVars

----------------------------------------------------------------------------
Returned(names) == pc = "idle" /\ call \in names
Elsewhere == touched.at # touched.own /\ touched.began # touched.own

\* A signal or a priority never goes to a process that had the pid already when the
\* function was called: the check leaves only a reuse of the pid during the call.
\* (ionice(), rlimit(), cpu_affinity() and parent() do not check.)
GuardedChecked == Returned({"signal", "nice"}) => ~Elsewhere

\* children() of a process that lasts through the call misses no child (descendant)
\* that lasts through it, and process_iter() no process; what lasts and is returned
\* as a child is one.  Forks, exits and reuse of pids meanwhile do not matter.
Lasts(o) == o.birth \in lasting
Lasting == {p \in DOMAIN procs : procs[p].birth \in lasting}
DescendantsOf(p) ==
  LET f[n \in 0..Cardinality(Pids)] ==
        IF n = 0 THEN {q \in Lasting : procs[q].parent = p}
        ELSE f[n - 1] \union {q \in Lasting : procs[q].parent \in f[n - 1]}
  IN f[Cardinality(Pids)]
BirthsOf(S) == {procs[p].birth : p \in S}

ChildrenTrue ==
  LET found == {o.birth : o \in result} IN
  /\ Returned({"process_iter"}) => BirthsOf(Lasting) \subseteq found
  /\ Returned({"children"}) /\ Lasts(held) =>
       /\ BirthsOf({p \in Lasting : procs[p].parent = held.pid}) \subseteq found
       /\ \A o \in result : Lasts(o) => began[o.pid].parent = held.pid
  /\ Returned({"descendants"}) /\ Lasts(held) =>
       BirthsOf(DescendantsOf(held.pid)) \subseteq found

\* What wait() returns for, and what wait_procs() says is gone, has ended, though the
\* pid may be another's already.
WaitTrue ==
  Returned({"wait", "wait_procs"}) =>
    \A o \in result : \A p \in DOMAIN procs : procs[p].birth # o.birth
=============================================================================
