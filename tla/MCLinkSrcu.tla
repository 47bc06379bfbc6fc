---------------------------- MODULE MCLinkSrcu ----------------------------
\* srcu.c and link_srcu.c, of which one is loaded in a behaviour; the other has been
\* unloaded and its threads have ended, so that none of its actions is enabled.
EXTENDS MCSrcu, LinkSrcu

VARIABLE loaded

modulesVars == <<loaded, vars, listVars>>

SrcuRests ==
  \E n \in Nodes :
    /\ pc = [t \in Threads |-> "done"] /\ unload = "done" /\ should_stop = Threads
    /\ p_scomm = n /\ allocated = {n} /\ fields = [m \in Nodes |-> Zeros] /\ base = 0
    /\ comms_lock = {} /\ node = [t \in Readers \union Writers |-> n]
    /\ oldp = [w \in Writers |-> n] /\ regs = [r \in Readers |-> Zeros] /\ inside = {}
    /\ pending = [t \in Waiters |-> {}]
LinkRests ==
  /\ where = [t \in ListThreads |-> "done"] /\ stopping = ListThreads
  /\ next = <<>> /\ prev = <<>> /\ a = <<>> /\ used = {} /\ counter = 0 /\ lock = {}
  /\ elem = <<>> /\ sections = {} /\ awaited = <<>> /\ walked = <<>> /\ newest = 0
  /\ floor = <<>>

ModulesInit ==
  /\ loaded \in {"srcu", "link_srcu"}
  /\ IF loaded = "srcu" THEN Init ELSE SrcuRests
  /\ IF loaded = "link_srcu" THEN LinkInit ELSE LinkRests

ModulesNext ==
  /\ UNCHANGED loaded
  /\ \/ loaded = "srcu" /\ Next /\ UNCHANGED listVars
     \/ loaded = "link_srcu" /\ LinkNext /\ UNCHANGED vars

ModulesSpec == ModulesInit /\ [][ModulesNext]_modulesVars
=============================================================================
