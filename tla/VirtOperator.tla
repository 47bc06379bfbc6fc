---------------------------- MODULE VirtOperator ----------------------------
(***************************************************************************)
(* comm/virtOperator.py: the collectors' objects, used by several threads,  *)
(* share one libvirt connection through a class attribute.  Constructors    *)
(* open it under a lock, checked before and after it is taken; an object    *)
(* that meets a libvirt error replaces the class attribute without the      *)
(* lock.  libvirtd may stop and come back: its old connections stay dead.   *)
(***************************************************************************)
EXTENDS Naturals

CONSTANTS
  Operators,   \* the objects
  MaxStops,    \* bound: stops of libvirtd
  MaxErrors    \* bound: calls that fail on a live connection (no such domain)

ASSUME VirtAssumption == MaxStops \in Nat /\ MaxErrors \in Nat /\ "nobody" \notin Operators

VARIABLES
  virt_conn,   \* the class attribute
  own,         \* own[i]: the attribute of object i
  doing,       \* doing[i]: where object i's thread is
  virlock,     \* the holder of _g_virlock
  up,          \* libvirtd runs
  live,        \* connections that work
  opened,      \* connections opened so far (they are numbered)
  first,       \* history: connections opened by constructors
  answer,      \* answer[i]: how its last call ended
  stops, errors  \* counters for the bounds

virtVars == <<virt_conn, own, doing, virlock, up, live, opened, first, answer, stops, errors>>

NoConn == 0
Nobody == "nobody"

Go(i, from, to) == doing[i] = from /\ doing' = [doing EXCEPT ![i] = to]
Libvirtd == UNCHANGED <<up, live, stops>>

VirtInit ==
  /\ virt_conn = NoConn /\ own = [i \in Operators |-> NoConn]
  /\ doing = [i \in Operators |-> "new"] /\ virlock = Nobody
  /\ up \in BOOLEAN /\ live = {} /\ opened = 0 /\ first = 0
  /\ answer = [i \in Operators |-> "none"] /\ stops = 0 /\ errors = 0

\* libvirtd (outside).
Stop ==
  /\ up /\ stops < MaxStops
  /\ up' = FALSE /\ live' = {} /\ stops' = stops + 1
  /\ UNCHANGED <<virt_conn, own, doing, virlock, opened, first, answer, errors>>

Restart ==
  /\ ~up /\ up' = TRUE
  /\ UNCHANGED <<virt_conn, own, doing, virlock, live, opened, first, answer, stops, errors>>

\* The constructor.
Construct(i) ==
  /\ IF virt_conn = NoConn THEN Go(i, "new", "lock") /\ UNCHANGED own
     ELSE Go(i, "new", "ready") /\ own' = [own EXCEPT ![i] = virt_conn]
  /\ Libvirtd /\ UNCHANGED <<virt_conn, virlock, opened, first, answer, errors>>

\* Mutant: the connection is not looked at again under the lock.
AcquireOnly(i) ==
  /\ virlock = Nobody /\ Go(i, "lock", "open") /\ virlock' = i /\ UNCHANGED own
  /\ Libvirtd /\ UNCHANGED <<virt_conn, opened, first, answer, errors>>

Acquire(i) ==
  /\ virlock = Nobody
  /\ IF virt_conn = NoConn THEN Go(i, "lock", "open") /\ virlock' = i /\ UNCHANGED own
     ELSE /\ Go(i, "lock", "ready") /\ own' = [own EXCEPT ![i] = virt_conn]
          /\ UNCHANGED virlock
  /\ Libvirtd /\ UNCHANGED <<virt_conn, opened, first, answer, errors>>

\* _createVirtConnection: a new connection becomes the class attribute at once.
OpenNew ==
  /\ up /\ opened' = opened + 1 /\ virt_conn' = opened + 1 /\ live' = live \union {opened + 1}
  /\ UNCHANGED <<up, stops>>

Open(i) ==
  /\ Go(i, "open", "assign") /\ OpenNew /\ first' = first + 1
  /\ UNCHANGED <<own, virlock, answer, errors>>

\* Opening raises: the lock is released, the plug-in's loader will try again.
OpenRaises(i) ==
  /\ ~up /\ Go(i, "open", "new") /\ virlock' = Nobody
  /\ Libvirtd /\ UNCHANGED <<virt_conn, own, opened, first, answer, errors>>

\* It returns the class attribute, which may be another thread's by now.
Assign(i) ==
  /\ \/ Go(i, "assign", "ready") /\ virlock' = Nobody
     \/ Go(i, "reassign", "ready") /\ UNCHANGED virlock
  /\ own' = [own EXCEPT ![i] = virt_conn]
  /\ Libvirtd /\ UNCHANGED <<virt_conn, opened, first, answer, errors>>

\* A call (getActiveDomains, getDefinedDomains, lookupBy..., getVersion).
CallAnswers(i) ==
  /\ Go(i, "ready", "ready") /\ own[i] \in live
  /\ answer' = [answer EXCEPT ![i] = "ok"]
  /\ Libvirtd /\ UNCHANGED <<virt_conn, own, virlock, opened, first, errors>>

CallRaises(i) ==
  /\ Go(i, "ready", "reopen")
  /\ IF own[i] \in live THEN errors < MaxErrors /\ errors' = errors + 1 ELSE UNCHANGED errors
  /\ answer' = [answer EXCEPT ![i] = "error"]
  /\ Libvirtd /\ UNCHANGED <<virt_conn, own, virlock, opened, first>>

\* Mutant: the new connection is not kept.
ReopenForgets(i) ==
  /\ up /\ Go(i, "reopen", "ready")
  /\ Libvirtd /\ UNCHANGED <<virt_conn, own, virlock, opened, first, answer, errors>>

Reopen(i) ==
  /\ Go(i, "reopen", "reassign") /\ OpenNew
  /\ UNCHANGED <<own, virlock, first, answer, errors>>

ReopenRaises(i) ==
  /\ ~up /\ Go(i, "reopen", "ready")
  /\ Libvirtd /\ UNCHANGED <<virt_conn, own, virlock, opened, first, answer, errors>>

Operator(i) ==
  \/ Construct(i) \/ Acquire(i) \/ Open(i) \/ OpenRaises(i) \/ Assign(i)
  \/ CallAnswers(i) \/ CallRaises(i) \/ Reopen(i) \/ ReopenRaises(i)

VirtNext == Stop \/ Restart \/ \E i \in Operators : Operator(i)

\* The threads are scheduled, and a thread that waits for the lock gets it.
VirtFairness == \A i \in Operators : WF_virtVars(Operator(i)) /\ SF_virtVars(Acquire(i))

VirtSpec == VirtInit /\ [][VirtNext]_virtVars /\ VirtFairness

----------------------------------------------------------------------------
\* However many threads make their objects at once, and whatever fails meanwhile,
\* the constructors open one connection in all.
OneConnection == first <= 1

\* Once libvirtd stays up every object works again for good: each one notices its
\* dead connection itself and takes a new one, none keeps a dead one.
OperatorsRecover ==
  <>[]up => \A i \in Operators : <>[](answer[i] = "ok")
=============================================================================
