------------------------------ MODULE Executor ------------------------------
(***************************************************************************)
(* comm/executor.py with comm/module_loader.py: the process that finds the  *)
(* collector plug-ins on disk, makes one object of each, gives each one a   *)
(* job of the scheduler, and executes commands for them.  It looks for new  *)
(* plug-ins in every round of its loop, so that one may be installed, or    *)
(* the reason of its failure be removed, while the agent runs.              *)
(***************************************************************************)
EXTENDS Naturals, Sequences

CONSTANTS
  Plugins,       \* python files in the plug-in directory and its subdirectories,
                 \* numbered in the order of the dictionary's keys
  MaxCommands,   \* bound: commands posted
  MaxListFaults  \* bound: listings of the directory that fail

ASSUME ExecutorAssumption == Plugins \subseteq Nat /\ MaxCommands \in Nat /\ MaxListFaults \in Nat

VARIABLES
  files,          \* plug-ins installed
  inPath,       \* plug-ins in the directory itself or in a subdirectory of load_dir
  health,       \* health[f]: "ok", or what raises: "import", "init", "frequency"
  module_dict,  \* plug-ins with an object
  scheduled,    \* plug-ins with a job
  command_queue,    \* commands: plug-in and whether its method raises
  execPc,       \* where the process is
  rest,         \* plug-ins still to be looked at by the loop at work
  commands, execFaults  \* counters for the bounds

execVars == <<files, inPath, health, module_dict, scheduled, command_queue, execPc, rest,
              commands, execFaults>>

Faults == {"ok", "import", "init", "frequency"}

At(from, to) == execPc = from /\ execPc' = to

\* The outside: plug-ins are installed and repaired, commands are posted.
Outer == UNCHANGED <<inPath, module_dict, scheduled, execPc, rest, execFaults>>

Install(f) ==
  /\ f \notin files /\ execPc # "off"
  /\ files' = files \union {f}
  /\ UNCHANGED <<health, command_queue, commands>> /\ Outer

Repair(f) ==
  /\ health[f] # "ok" /\ execPc # "off"
  /\ health' = [health EXCEPT ![f] = "ok"]
  /\ UNCHANGED <<files, command_queue, commands>> /\ Outer

PostCommand ==
  /\ commands < MaxCommands /\ execPc # "off"
  /\ commands' = commands + 1
  /\ \E f \in Plugins, raises \in BOOLEAN :
       command_queue' = Append(command_queue, [plugin |-> f, raises |-> raises])
  /\ UNCHANGED <<files, health>> /\ Outer

----------------------------------------------------------------------------
ExecInit ==
  /\ files \in SUBSET Plugins
  /\ inPath \in SUBSET Plugins
  /\ health \in [Plugins -> Faults]
  /\ module_dict = {} /\ scheduled = {} /\ command_queue = <<>>
  /\ execPc = "list" /\ rest = {} /\ commands = 0 /\ execFaults = 0

Same == UNCHANGED <<files, inPath, health, command_queue, commands>>

\* load_modules: the directory and those of its subdirectories that are configured.
\* "list", "import": when the process starts; "relist", "reimport": in its loop.
LoadOf(pc) == IF pc = "list" THEN "import" ELSE "reimport"
AddOf(pc) == IF pc = "import" \/ pc = "list" THEN "add" ELSE "readd"
Listed == files \intersect inPath

ListDir ==
  /\ execPc \in {"list", "relist"} /\ execPc' = LoadOf(execPc)
  /\ rest' = Listed \ module_dict
  /\ UNCHANGED <<module_dict, scheduled, execFaults>> /\ Same

\* os.listdir raises: load_modules logs it and goes on with what it has.
ListDirRaises ==
  /\ execPc \in {"list", "relist"} /\ execFaults < MaxListFaults
  /\ execFaults' = execFaults + 1
  /\ execPc' = AddOf(execPc) /\ rest' = module_dict \ scheduled
  /\ UNCHANGED <<module_dict, scheduled>> /\ Same

\* Mutant: what raises ends the loading of this round.
LoadAborts(f) ==
  /\ execPc \in {"import", "reimport"} /\ f \in rest
  /\ IF health[f] \in {"import", "init"}
     THEN execPc' = AddOf(execPc) /\ rest' = module_dict \ scheduled /\ UNCHANGED module_dict
     ELSE rest' = rest \ {f} /\ module_dict' = module_dict \union {f} /\ UNCHANGED execPc
  /\ UNCHANGED <<scheduled, execFaults>> /\ Same

\* One file: import it and make an object of its collector class; what raises is
\* ignored, and tried again in the next round.
LoadOne(f) ==
  /\ execPc \in {"import", "reimport"} /\ f \in rest
  /\ rest' = rest \ {f}
  /\ module_dict' = IF health[f] \in {"import", "init"} THEN module_dict
                    ELSE module_dict \union {f}
  /\ UNCHANGED <<scheduled, execPc, execFaults>> /\ Same

LoadEnds ==
  /\ execPc \in {"import", "reimport"} /\ rest = {}
  /\ execPc' = AddOf(execPc) /\ rest' = module_dict \ scheduled
  /\ UNCHANGED <<module_dict, scheduled, execFaults>> /\ Same

\* add_jobs goes through the dictionary in its order.  A frequency() that raises
\* ends it; in run_scheduler, before the loop, nobody catches that.
AddOne(f) ==
  /\ execPc \in {"add", "readd"} /\ f \in rest /\ \A g \in rest : f <= g
  /\ IF health[f] = "frequency"
     THEN /\ execPc' = (IF execPc = "add" THEN "ended" ELSE "wait")
          /\ rest' = {} /\ UNCHANGED scheduled
     ELSE rest' = rest \ {f} /\ scheduled' = scheduled \union {f} /\ UNCHANGED execPc
  /\ UNCHANGED <<module_dict, execFaults>> /\ Same

\* All are added; before the loop the scheduler is started now.
AddEnds ==
  /\ execPc \in {"add", "readd"} /\ rest = {} /\ execPc' = "wait"
  /\ UNCHANGED <<rest, module_dict, scheduled, execFaults>> /\ Same

\* msg_wait.  A command for a plug-in that is not loaded is dropped; a method that
\* raises takes the loop back to its start, without load_modules and add_jobs.
MsgWait ==
  /\ execPc = "wait" /\ command_queue # <<>>
  /\ LET msg == Head(command_queue)  known == msg.plugin \in module_dict IN
       /\ command_queue' = Tail(command_queue)
       /\ execPc' = IF known /\ msg.raises THEN "wait" ELSE "relist"
  /\ UNCHANGED <<files, inPath, health, module_dict, scheduled, rest, commands, execFaults>>

MsgTimeout ==
  /\ At("wait", "relist") /\ command_queue = <<>>
  /\ UNCHANGED <<module_dict, scheduled, rest, execFaults>> /\ Same

ExecStep ==
  \/ ListDir \/ ListDirRaises \/ LoadEnds \/ AddEnds \/ MsgWait \/ MsgTimeout
  \/ \E f \in Plugins : LoadOne(f) \/ AddOne(f)

ExecNext == ExecStep \/ PostCommand \/ \E f \in Plugins : Install(f) \/ Repair(f)

\* The process is scheduled.
ExecFairness == WF_execVars(ExecStep)

ExecSpec == ExecInit /\ [][ExecNext]_execVars /\ ExecFairness

----------------------------------------------------------------------------
\* A plug-in that is installed in a directory that is looked at, and in order, gets
\* its job while the agent runs, whatever failed before and whatever commands come
\* in between; only a plug-in before it in the dictionary whose frequency() goes on
\* raising (or one that ended the process as it started) keeps it out.
HealthyGetsJob ==
  \A f \in Plugins :
    /\ f \in Listed /\ health[f] = "ok"
    /\ \A g \in Plugins : g < f => health[g] # "frequency"
    ~> f \in scheduled \/ execPc = "ended"
=============================================================================
