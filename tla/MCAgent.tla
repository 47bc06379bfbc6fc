------------------------------ MODULE MCAgent ------------------------------
\* Three parts of the agent that do not share state: in each behaviour one of them runs
\* and the others rest in a state of their own, where none of their actions is enabled
\* (so that their states add up and are not multiplied, and their fairness holds).
EXTENDS MCDispatcher, Executor, VirtOperator

VARIABLE part

agentVars == <<part, vars, execVars, virtVars>>

CONSTANTS v1, v2, v3

ExecRests ==
  /\ files = {} /\ inPath = {} /\ health = [f \in Plugins |-> "ok"] /\ module_dict = {}
  /\ scheduled = {} /\ command_queue = <<>> /\ execPc = "off" /\ rest = {}
  /\ commands = MaxCommands /\ execFaults = MaxListFaults
VirtRests ==
  /\ virt_conn = NoConn /\ own = [i \in Operators |-> NoConn]
  /\ doing = [i \in Operators |-> "off"] /\ virlock = Nobody /\ up = TRUE /\ live = {}
  /\ opened = 0 /\ first = 0 /\ answer = [i \in Operators |-> "ok"]
  /\ stops = MaxStops /\ errors = MaxErrors

AgentInit ==
  /\ part \in {"dispatcher", "executor", "virtOperator"}
  /\ IF part = "dispatcher" THEN Init ELSE DispatcherRests
  /\ IF part = "executor" THEN ExecInit ELSE ExecRests
  /\ IF part = "virtOperator" THEN VirtInit ELSE VirtRests

AgentNext ==
  /\ UNCHANGED part
  /\ \/ part = "dispatcher" /\ Next /\ UNCHANGED <<execVars, virtVars>>
     \/ part = "executor" /\ ExecNext /\ UNCHANGED <<vars, virtVars>>
     \/ part = "virtOperator" /\ VirtNext /\ UNCHANGED <<vars, execVars>>

AgentSpec ==
  /\ AgentInit /\ [][AgentNext]_agentVars
  /\ Fairness /\ ExecFairness /\ VirtFairness
=============================================================================
