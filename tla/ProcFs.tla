------------------------------- MODULE ProcFs -------------------------------
(***************************************************************************)
(* lib/psutil/_pslinux: one call of a method of Process, of pid_exists() or *)
(* of net_connections(), against a system whose tasks begin and end and     *)
(* whose processes open and close files meanwhile.  Every system call the   *)
(* function makes is a step; an error of one is what wrap_exceptions and    *)
(* the handlers make of it.                                                 *)
(*                                                                         *)
(* The process asked about keeps its pid to itself (Psutil models the reuse *)
(* of pids); other ids are used again.                                      *)
(***************************************************************************)
EXTENDS Integers, FiniteSets

CONSTANTS
  Ids,         \* ids of tasks: of processes and of their other threads
  Subject,     \* the process asked about
  Fds,         \* file descriptors
  MaxEvents    \* bound: what happens in the system during a call

ASSUME ProcFsAssumption == Subject \in Ids /\ Ids \subseteq Nat \ {0} /\ Fds \subseteq Nat

VARIABLES
  leader,      \* task -> the process it belongs to
  zombies,     \* the processes among them that have ended and are not reaped
  open,        \* process -> descriptor -> what it is open on
  allowed,     \* may the caller look into the process asked about?
  method,      \* the function at work
  arg,         \* its argument: a kind of connections, an id, or what becomes of a value
  procPc,      \* where it is
  pidsLeft,    \* net_connections: processes it has still to look at
  entries,     \* the threads or descriptors it has still to look at
  current,     \* the one (or the process) it looks at
  hit_enoent,
  found,       \* net_connections: the sockets of that process
  inodes,      \* <<process, descriptor, socket>> it has found
  ret,         \* what it returns: <<process, descriptor or thread, what it is>>
  raised,      \* the exception it raises, or ""
  seen,        \* history: what there was at some time of the call
  kept,        \* history: what there was all the time
  events       \* counter for the bound

procVars == <<leader, zombies, open, allowed, method, arg, procPc, pidsLeft, entries, current,
              hit_enoent, found, inodes, ret, raised, seen, kept, events>>
system == <<leader, zombies, open, allowed, seen, kept, events>>

\* A regular file, one in a directory the caller may not search, sockets.
Inet == {"tcp"}
Unix == {"unix"}
OpenThings == {"file", "hidden"} \union Inet \union Unix

Processes == {p \in DOMAIN leader : leader[p] = p}
Exists(p) == p \in Processes
Runs(p) == Exists(p) /\ p \notin zombies
FdsOf(p) == IF Runs(p) THEN DOMAIN open[p] ELSE {}
TasksOf(p) == {t \in DOMAIN leader : leader[t] = p}

Present ==
  {<<leader[t], t, "task">> : t \in DOMAIN leader}
    \union UNION {{<<p, f, open[p][f]>> : f \in FdsOf(p)} : p \in Processes}

----------------------------------------------------------------------------
\* The system.
Less(f, S) == [x \in DOMAIN f \ S |-> f[x]]
Plus(f, x, v) == [y \in DOMAIN f \union {x} |-> IF y = x THEN v ELSE f[y]]

NewTask(p, t) ==
  /\ Runs(p) /\ t \in Ids \ (DOMAIN leader \union {Subject})
  /\ \/ leader' = Plus(leader, t, p) /\ UNCHANGED open
     \/ leader' = Plus(leader, t, t) /\ open' = Plus(open, t, open[p])
  /\ UNCHANGED zombies

TaskEnds(t) ==
  /\ t \in DOMAIN leader \ Processes
  /\ leader' = Less(leader, {t}) /\ UNCHANGED <<zombies, open>>

\* The process ends with all its threads, and is reaped at once or later.
ProcessExit(p) ==
  /\ Runs(p) /\ open' = Less(open, {p})
  /\ \/ leader' = Less(leader, TasksOf(p) \ {p}) /\ zombies' = zombies \union {p}
     \/ leader' = Less(leader, TasksOf(p)) /\ UNCHANGED zombies
ReapLater(p) ==
  /\ p \in zombies /\ zombies' = zombies \ {p}
  /\ leader' = Less(leader, {p}) /\ UNCHANGED open

\* A socket is new, or another descriptor of the process is on it.
OpenFd(p, f, x) ==
  /\ Runs(p) /\ f \notin FdsOf(p)
  /\ x \in Inet \union Unix => (\A e \in seen : e[3] # x) \/ \E g \in FdsOf(p) : open[p][g] = x
  /\ open' = [open EXCEPT ![p] = Plus(open[p], f, x)]
  /\ UNCHANGED <<leader, zombies>>
CloseFd(p, f) ==
  /\ Runs(p) /\ f \in FdsOf(p)
  /\ open' = [open EXCEPT ![p] = Less(open[p], {f})]
  /\ UNCHANGED <<leader, zombies>>

Happens ==
  /\ procPc # "done" /\ events < MaxEvents /\ events' = events + 1
  /\ \/ \E p \in Processes : ProcessExit(p) \/ ReapLater(p) \/ \E t \in Ids : NewTask(p, t)
     \/ \E t \in DOMAIN leader : TaskEnds(t)
     \/ \E p \in Processes, f \in Fds : CloseFd(p, f) \/ \E x \in OpenThings : OpenFd(p, f, x)
  /\ seen' = seen \union Present' /\ kept' = kept \intersect Present'
  /\ UNCHANGED <<allowed, method, arg, procPc, pidsLeft, entries, current, hit_enoent, found,
                 inodes, ret, raised>>

----------------------------------------------------------------------------
\* The functions.
\* One file of /proc/[pid] is opened and read, or else one system call is made.
StatFiles ==
  [name |-> "stat", cmdline |-> "cmdline", terminal |-> "stat", io_counters |-> "io",
   cpu_times |-> "stat"]
MemoryFiles == [create_time |-> "stat", memory_info |-> "statm", memory_info_ex |-> "statm"]
CounterFiles == [num_ctx_switches |-> "status", num_threads |-> "status"]
IdFiles == [ppid |-> "status", uids |-> "status", gids |-> "status"]
OtherFiles == [memory_maps |-> "smaps", status |-> "status"]

FileOf(m) ==
  CASE m \in DOMAIN StatFiles -> StatFiles[m] [] m \in DOMAIN MemoryFiles -> MemoryFiles[m]
    [] m \in DOMAIN CounterFiles -> CounterFiles[m] [] m \in DOMAIN IdFiles -> IdFiles[m]
    [] OTHER -> OtherFiles[m]
FileMethods == UNION {DOMAIN StatFiles, DOMAIN MemoryFiles, DOMAIN CounterFiles, DOMAIN IdFiles,
                      DOMAIN OtherFiles}

\* What becomes of a value: "good"; "bad", a ValueError; "refused" by the kernel;
\* "not permitted" to who is not root: real time, a better priority, a higher hard limit.
\* An I/O priority of 8 is let through, and the kernel has 0..7.
NoPriority == -1
IoniceArg(root, ioclass, value) ==
  CASE ioclass = "NONE" -> IF value \in {NoPriority, 0} THEN "good" ELSE "bad"
    [] ioclass \in {"RT", "BE"} -> IF value \notin {NoPriority} \union 0..8 THEN "bad"
                                   ELSE IF ioclass = "RT" /\ ~root THEN "not permitted"
                                   ELSE IF value = 8 THEN "refused" ELSE "good"
    [] ioclass = "IDLE" -> IF value \in {NoPriority, 0} THEN "good" ELSE "bad"
    [] OTHER -> "refused"

\* Who may not look into the process may get these, but not set anything.
Getters == {"nice_get", "cpu_affinity_get", "ionice_get"}
NiceArgs == {"good", "not permitted"}
RlimitArgs == {"good", "bad", "refused", "not permitted"}    \* not a pair; soft > hard
AffinityArgs == {"good", "bad", "refused"}  \* no such CPU; not one it may have
IoniceArgs ==
  {IoniceArg(root, given[1], given[2]) : root \in BOOLEAN, given \in
     ({"NONE", "RT", "IDLE", "none such"} \X {0, 8}) \union {<<"BE", NoPriority>>, <<"BE", 9>>}}
SetArgs(m) == CASE m = "nice_set" -> NiceArgs [] m = "cpu_affinity_set" -> AffinityArgs
                [] m = "ionice_set" -> IoniceArgs [] m = "rlimit" -> RlimitArgs
                [] OTHER -> {"good"}
Setters == {"nice_set", "cpu_affinity_set", "ionice_set", "rlimit"}

Tables(kind) == (IF kind # "unix" THEN Inet ELSE {}) \union (IF kind # "inet" THEN Unix ELSE {})

BeginsAt(m) ==
  CASE m \in FileMethods -> "open"
    [] m \in Getters \union Setters -> "syscall"
    [] m \in {"exe", "cwd"} -> "readlink"
    [] m \in {"threads", "open_files", "num_fds", "connections"} -> "listdir"
    [] m = "net_connections" -> "pids"
    [] m = "pid_exists" -> "kill"
ProcMethods == FileMethods \union Getters \union Setters \union
  {"exe", "cwd", "threads", "open_files", "num_fds", "connections", "net_connections",
   "pid_exists"}
Args(m) == CASE m \in {"connections", "net_connections"} -> {"inet", "unix", "all"}
             [] m = "pid_exists" -> Ids
             [] OTHER -> SetArgs(m)

ProcStart ==
  /\ procPc = BeginsAt(method) /\ arg \in Args(method)
  /\ pidsLeft = {} /\ entries = {} /\ current = 0 /\ hit_enoent = FALSE /\ found = {}
  /\ inodes = {} /\ ret = {} /\ raised = ""
  /\ seen = Present /\ kept = Present /\ events = 0

\* Any system, with any function just called.
ProcFsInit ==
  /\ DOMAIN leader \subseteq Ids /\ leader \in [DOMAIN leader -> Processes]
  /\ zombies \subseteq Processes
  /\ open \in [Processes \ zombies -> UNION {[F -> OpenThings] : F \in SUBSET Fds}]
  /\ method \in ProcMethods /\ allowed \in BOOLEAN /\ ProcStart

Gives(r) == procPc' = "done" /\ ret' = r /\ UNCHANGED raised
Throws(e) == procPc' = "done" /\ raised' = e /\ ret' = {}
GoesOn(p) == procPc' = p /\ UNCHANGED <<ret, raised>>
Still == UNCHANGED <<system, method, arg>>
Lists == <<pidsLeft, entries, current, hit_enoent, found, inodes>>

\* wrap_exceptions (memory_maps and exe do the same themselves).
Translated(errno) ==
  CASE errno \in {"ENOENT", "ESRCH"} -> "NoSuchProcess"
    [] errno \in {"EPERM", "EACCES"} -> "AccessDenied"
    [] OTHER -> "OSError"
Fails(errno) == Throws(Translated(errno))

OpenFile ==
  /\ procPc = "open" /\ Still /\ UNCHANGED Lists
  /\ IF ~Exists(Subject) THEN Fails("ENOENT")
     ELSE IF FileOf(method) \in {"io", "smaps"} /\ ~allowed THEN Fails("EACCES")
     ELSE GoesOn("read")
ReadFile ==
  /\ procPc = "read" /\ Still /\ UNCHANGED Lists
  /\ IF Exists(Subject) THEN Gives({}) ELSE Fails("ESRCH")

\* A process that has ended has no executable and no directory.
ReadLink ==
  /\ procPc = "readlink" /\ Still /\ UNCHANGED Lists
  /\ IF Exists(Subject) /\ ~allowed THEN Fails("EACCES")
     ELSE IF Runs(Subject) THEN Gives({})
     ELSE IF method = "exe" THEN GoesOn("lexists") ELSE Fails("ENOENT")
LExists ==
  /\ procPc = "lexists" /\ Still /\ UNCHANGED Lists
  /\ IF Exists(Subject) THEN Gives({}) ELSE Throws("NoSuchProcess")

\* Of what is wrong the kernel tells one thing: real time without the right to it, for
\* instance, before it looks for the process.
Denied == Exists(Subject) /\ ~allowed /\ method \in Setters
SysCall ==
  /\ procPc = "syscall" /\ Still /\ UNCHANGED Lists
  /\ IF arg = "bad" /\ method # "cpu_affinity_set" THEN Throws("ValueError")
     ELSE \/ ~Exists(Subject) /\ Fails("ESRCH")
          \/ (Denied \/ arg = "not permitted") /\ Fails("EPERM")
          \/ arg = "refused" /\ Fails("EINVAL")
          \/ Exists(Subject) /\ ~Denied /\ arg = "good" /\ Gives({})
          \/ Exists(Subject) /\ ~Denied /\ arg = "bad" /\ GoesOn("cpus")
\* Was it one of the CPUs that made it invalid?
PerCpuTimes == procPc = "cpus" /\ Throws("ValueError") /\ Still /\ UNCHANGED Lists

----------------------------------------------------------------------------
\* threads, open_files, num_fds, connections: the directory, ...
ListProcDir ==
  /\ procPc = "listdir" /\ Still /\ UNCHANGED <<pidsLeft, current, hit_enoent, found, inodes>>
  /\ LET names == IF method = "threads" THEN TasksOf(Subject) ELSE FdsOf(Subject) IN
     IF ~Exists(Subject) THEN Fails("ENOENT") /\ UNCHANGED entries
     ELSE IF method # "threads" /\ ~allowed THEN Fails("EACCES") /\ UNCHANGED entries
     ELSE IF method = "num_fds"
     THEN Gives({<<Subject, f, "fd">> : f \in names}) /\ UNCHANGED entries
     ELSE GoesOn(method) /\ entries' = names

\* ... then each thread: it may end before its file is opened, or before it is read, ...
OpenThread ==
  /\ procPc = "threads" /\ entries # {} /\ Still /\ UNCHANGED <<pidsLeft, found, inodes>>
  /\ LET t == CHOOSE t \in entries : \A u \in entries : t <= u IN
     /\ entries' = entries \ {t} /\ current' = t
     /\ IF t \in TasksOf(Subject) THEN GoesOn("thread") /\ UNCHANGED hit_enoent
        ELSE GoesOn("threads") /\ hit_enoent' = TRUE
ReadThread ==
  /\ procPc = "thread" /\ Still /\ UNCHANGED Lists
  /\ IF current \in TasksOf(Subject)
     THEN /\ procPc' = "threads" /\ UNCHANGED raised
          /\ ret' = ret \union {<<Subject, current, "task">>}
     ELSE Fails("ESRCH")

\* ... each descriptor: one that is closed before islink() is passed over, ...
IsLink ==
  /\ procPc = "open_files" /\ Still /\ UNCHANGED <<pidsLeft, hit_enoent, found, inodes>>
  /\ \E f \in entries :
       /\ entries' = entries \ {f} /\ current' = f
       /\ GoesOn(IF f \in FdsOf(Subject) THEN "file" ELSE "open_files")

Regular == {<<Subject, current, "file">>} \intersect Present
LinkedFile ==
  IF open[Subject][current] = "hidden" THEN Fails("EACCES")
  ELSE procPc' = "open_files" /\ ret' = ret \union Regular /\ UNCHANGED raised

\* Mutant: a descriptor that is closed between the two is an error.
FileLinkRaises ==
  /\ procPc = "file" /\ Still /\ UNCHANGED Lists
  /\ IF current \in FdsOf(Subject) THEN LinkedFile ELSE Fails("ENOENT")

\* ... and one that is closed after it is left out.
FileLink ==
  /\ procPc = "file" /\ Still /\ UNCHANGED <<pidsLeft, entries, current, found, inodes>>
  /\ IF current \in FdsOf(Subject) THEN LinkedFile /\ UNCHANGED hit_enoent
     ELSE GoesOn("open_files") /\ hit_enoent' = TRUE

\* If something was gone, the process itself must still be there.
StatProcess ==
  /\ procPc \in {"threads", "open_files"} /\ entries = {} /\ Still /\ UNCHANGED Lists
  /\ IF hit_enoent /\ ~Exists(Subject) THEN Fails("ENOENT") ELSE Gives(ret)

----------------------------------------------------------------------------
\* get_proc_inodes, of the process asked about ...
SocketsAt(p, f) == {<<p, f, x>> : x \in Inet \union Unix} \intersect Present

ProcInodes ==
  /\ procPc = "connections" /\ Still /\ GoesOn("connections")
  /\ UNCHANGED <<pidsLeft, current, hit_enoent, found>>
  /\ \E f \in entries :
       entries' = entries \ {f} /\ inodes' = inodes \union SocketsAt(Subject, f)
InodesDone ==
  /\ procPc = "connections" /\ entries = {} /\ Still /\ UNCHANGED Lists
  /\ GoesOn(IF inodes = {} THEN "stat" ELSE "inet")

\* ... or of all processes, one after the other: those it may not look into, or that are
\* gone, are passed over, ...
PidsOf ==
  /\ procPc = "pids" /\ Still /\ GoesOn("each") /\ pidsLeft' = Processes
  /\ UNCHANGED <<entries, current, hit_enoent, found, inodes>>
NextPid ==
  /\ procPc = "each" /\ Still /\ UNCHANGED <<hit_enoent, inodes>>
  /\ \E p \in pidsLeft :
       /\ pidsLeft' = pidsLeft \ {p} /\ current' = p /\ found' = {}
       /\ IF Exists(p) /\ (p = Subject => allowed)
          THEN GoesOn("fds") /\ entries' = FdsOf(p)
          ELSE GoesOn("each") /\ UNCHANGED entries
AllInodes ==
  /\ procPc = "fds" /\ Still /\ GoesOn("fds")
  /\ UNCHANGED <<pidsLeft, current, hit_enoent, inodes>>
  /\ \E f \in entries :
       entries' = entries \ {f} /\ found' = found \union SocketsAt(current, f)
\* ... and a socket belongs to the last one that has it.
UpdateInodes ==
  /\ procPc = "fds" /\ entries = {} /\ Still /\ GoesOn("each")
  /\ inodes' = {i \in inodes : \A j \in found : i[3] # j[3]} \union found
  /\ UNCHANGED <<pidsLeft, entries, current, hit_enoent, found>>
AllDone ==
  /\ procPc = "each" /\ pidsLeft = {} /\ Still /\ GoesOn("inet") /\ UNCHANGED Lists

\* The tables of /proc/net, of the sockets there are now.  Of an inet socket only one
\* descriptor is taken, and two are an error.
SocketsNow == {e[3] : e \in Present}
Owners(x) == {i \in inodes : i[3] = x}
TableLines(S) == UNION {IF Owners(x) # {} THEN Owners(x)
                   ELSE IF method = "connections" THEN {} ELSE {<<0, 0, x>>} :
                   x \in S \intersect SocketsNow \intersect Tables(arg)}

ProcessInet ==
  /\ procPc = "inet" /\ Still /\ UNCHANGED Lists
  /\ IF \E x \in Inet \intersect SocketsNow \intersect Tables(arg) : Cardinality(Owners(x)) > 1
     THEN Throws("ValueError")
     ELSE procPc' = "unix" /\ ret' = ret \union TableLines(Inet) /\ UNCHANGED raised
ProcessUnix ==
  /\ procPc = "unix" /\ Still /\ UNCHANGED <<Lists, raised>>
  /\ procPc' = (IF method = "connections" THEN "stat" ELSE "done")
  /\ ret' = ret \union TableLines(Unix)
StatLast ==
  /\ procPc = "stat" /\ Still /\ UNCHANGED Lists
  /\ IF Exists(Subject) THEN Gives(ret) ELSE Fails("ENOENT")

----------------------------------------------------------------------------
\* pid_exists: is it a task, and then one that leads a process?
AskedId == {<<arg, arg, "task">>}

Kill ==
  /\ procPc = "kill" /\ Still /\ UNCHANGED Lists
  /\ IF arg \in DOMAIN leader THEN GoesOn("tgid") ELSE Gives({})

Tgid ==
  /\ procPc = "tgid" /\ Still /\ UNCHANGED Lists
  /\ IF arg \in DOMAIN leader THEN Gives(IF leader[arg] = arg THEN AskedId ELSE {})
     ELSE GoesOn("listed")
ListedPid ==
  /\ procPc = "listed" /\ Still /\ UNCHANGED Lists
  /\ Gives(IF Exists(arg) THEN AskedId ELSE {})

----------------------------------------------------------------------------
ProcFunction ==
  \/ OpenFile \/ ReadFile \/ ReadLink \/ LExists \/ SysCall \/ PerCpuTimes
  \/ ListProcDir \/ OpenThread \/ ReadThread \/ IsLink \/ FileLink \/ StatProcess
  \/ ProcInodes \/ InodesDone \/ PidsOf \/ NextPid \/ AllInodes \/ UpdateInodes \/ AllDone
  \/ ProcessInet \/ ProcessUnix \/ StatLast \/ Kill \/ Tgid \/ ListedPid

ProcFsNext == Happens \/ ProcFunction

ProcFsSpec == ProcFsInit /\ [][ProcFsNext]_procVars

----------------------------------------------------------------------------
\* Returned: all that was there throughout the call, and nothing that was at no time of
\* it (of a socket that several processes have, net_connections() names one; num_fds()
\* counts what could be listed); pid_exists() is true only of a process.
AskedFor ==
  CASE method = "threads" -> {e \in kept : e[1] = Subject /\ e[3] = "task"}
    [] method = "open_files" -> {e \in kept : e[1] = Subject /\ e[3] = "file"}
    [] method = "connections" -> {e \in kept : e[1] = Subject /\ e[3] \in Tables(arg)}
    [] method = "pid_exists" -> kept \intersect AskedId
    [] OTHER -> {}

ReturnsTrue ==
  raised = "" =>
    /\ AskedFor \subseteq ret
    /\ method = "num_fds" => {e[2] : e \in {x \in kept : x[1] = Subject /\ x[3] # "task"}}
                               \subseteq {e[2] : e \in ret}
    /\ method = "net_connections" =>
         \A e \in kept : e[3] \in Tables(arg) => \E r \in ret : r[3] = e[3]
    /\ method # "num_fds" => \A r \in ret : r \in seen \/ r[1] = 0

\* Raised: the process has ended (or, of threads() only, one of its threads has, though
\* the process runs on: the read of a thread's file that fails is taken for the
\* process's); the caller may not look into it or into the directory of one of its
\* files, or may not set that value; a value is bad, or two descriptors are on one inet
\* socket.  An error that is none of psutil's is the kernel's refusal of a value.
RaisesTrue ==
  /\ raised = "NoSuchProcess" =>
       \/ ~Runs(Subject)
       \/ method = "threads" /\ \E e \in seen \ Present : e[1] = Subject /\ e[3] = "task"
  /\ raised = "AccessDenied" =>
       \/ ~allowed \/ arg = "not permitted"
       \/ \E e \in seen : e[1] = Subject /\ e[3] = "hidden"
  /\ raised = "ValueError" =>
       \/ arg = "bad"
       \/ \E e, g \in seen : e[1] = g[1] /\ e[2] # g[2] /\ e[3] = g[3] /\ e[3] \in Inet
  /\ raised = "OSError" => arg = "refused"

\* What a function answers is so, whatever began, ended, was opened or closed between its
\* system calls: what it returns was there, and what it raises is true of the process.
AnswersTrue == procPc = "done" => ReturnsTrue /\ RaisesTrue
=============================================================================
