----------------------------- MODULE Dispatcher -----------------------------
(***************************************************************************)
(* The agent's Dispatcher: collectors post batches of data to one queue    *)
(* (Executor.put_data, QueueRouter.route); the dispatcher's main loop      *)
(* spreads them over one queue and one thread per sender plug-in; a        *)
(* watchdog replaces the sender threads that died.                         *)
(*                                                                         *)
(* A message is a batch of items.  An item is one datum of an entry's      *)
(* 'datas' with the entry's 'sender'; its id numbers the data in the order *)
(* they were posted.  An entry that is only logged as an error (no such    *)
(* sender, missing keys) has the destination Unknown, one that raises in   *)
(* send_one_data the destination Bad.                                      *)
(***************************************************************************)
EXTENDS Naturals, Sequences

CONSTANTS
  Senders,       \* the loaded BaseSender modules
  Unknown, Bad,  \* the destinations of entries that are logged / that raise
  Batches,       \* the shapes of the batches posted: sequences of destinations
  Reliable,      \* senders whose send_data always returns normally
  Hanging,       \* senders whose send_data may never return
  StartMayFail,  \* can Thread.start raise (no thread left)?
  MaxData,       \* bound: data items posted
  MaxFaults      \* bound: thread deaths and failed starts

Dests == Senders \cup {Unknown, Bad}

ASSUME DispatcherAssumption ==
  /\ Unknown \notin Senders /\ Bad \notin Senders /\ Unknown # Bad
  /\ Senders \cap {"off", "scan", "dead"} = {}
  /\ Batches \subseteq Seq(Dests)
  /\ Reliable \subseteq Senders /\ Hanging \subseteq Senders
  /\ StartMayFail \in BOOLEAN
  /\ MaxData \in Nat /\ MaxFaults \in Nat

VARIABLES
  posted,        \* number of items posted so far
  msg_queue,     \* Dispatcher.__msg_queue: the batches not yet taken
  batch,         \* the rest of the batch the main loop is working on
  module_router, \* the senders that have a queue
  sender_queue,  \* the queue of each sender
  thread,        \* the state of each sender's thread
  sending,       \* the datum a busy thread is in send_data with, or None
  delivered,     \* history: the data whose send_data returned
  boot,          \* init_dispather_thread: "on", "done" or "failed"
  watchdog,      \* "off", "scan", "dead", or the sender whose queue it cleared
  todo,          \* the senders left in the watchdog's round
  faults         \* deaths and failed starts so far

vars == <<posted, msg_queue, batch, module_router, sender_queue, thread,
          sending, delivered, boot, watchdog, todo, faults>>

None == 0

Init ==
  /\ posted = 0 /\ msg_queue = <<>> /\ batch = <<>>
  /\ module_router = {}
  /\ sender_queue = [s \in Senders |-> <<>>]
  /\ thread = [s \in Senders |-> "dead"]
  /\ sending = [s \in Senders |-> None]
  /\ delivered = [s \in Senders |-> <<>>]
  /\ boot = "on" /\ watchdog = "off" /\ todo = {} /\ faults = 0

alive(s) == thread[s] # "dead"

StartFails == StartMayFail /\ faults < MaxFaults /\ faults' = faults + 1

-----------------------------------------------------------------------------
\* Dispatcher.__init__: a queue and a thread per sender, then the watchdog.
\* The first start that raises ends the boot; run() goes on all the same.
BootSender(s) ==
  /\ boot = "on" /\ s \in Senders \ module_router
  /\ module_router' = module_router \cup {s}
  /\ \/ thread' = [thread EXCEPT ![s] = "idle"] /\ UNCHANGED <<boot, faults>>
     \/ StartFails /\ boot' = "failed" /\ UNCHANGED thread
  /\ UNCHANGED <<posted, msg_queue, batch, sender_queue, sending, delivered,
                 watchdog, todo>>

BootWatchdog ==
  /\ boot = "on" /\ module_router = Senders
  /\ \/ boot' = "done" /\ watchdog' = "scan" /\ todo' = Senders
        /\ UNCHANGED faults
     \/ StartFails /\ boot' = "failed" /\ UNCHANGED <<watchdog, todo>>
  /\ UNCHANGED <<posted, msg_queue, batch, module_router, sender_queue, thread,
                 sending, delivered>>

-----------------------------------------------------------------------------
\* A collector's put_data reaches the dispatcher's queue through the router.
Post(b) ==
  /\ posted + Len(b) <= MaxData
  /\ posted' = posted + Len(b)
  /\ msg_queue' = Append(msg_queue,
                         [i \in 1..Len(b) |-> [to |-> b[i], id |-> posted + i]])
  /\ UNCHANGED <<batch, module_router, sender_queue, thread, sending, delivered,
                 boot, watchdog, todo, faults>>

\* Dispatcher.run takes the next batch.
RunGet ==
  /\ boot # "on" /\ batch = <<>> /\ msg_queue # <<>>
  /\ batch' = Head(msg_queue)
  /\ msg_queue' = Tail(msg_queue)
  /\ UNCHANGED <<posted, module_router, sender_queue, thread, sending,
                 delivered, boot, watchdog, todo, faults>>

\* Mutant of SendOneData: an entry that nobody takes ends the batch, too.
DropRest ==
  /\ batch # <<>>
  /\ LET item == Head(batch) IN
       /\ batch' = IF item.to \in Senders THEN Tail(batch) ELSE <<>>
       /\ sender_queue' =
            IF item.to \in module_router
            THEN [sender_queue EXCEPT ![item.to] = Append(@, item.id)]
            ELSE sender_queue
  /\ UNCHANGED <<posted, msg_queue, module_router, thread, sending, delivered,
                 boot, watchdog, todo, faults>>

\* One datum of send_one_data: to the sender's queue, or an error in the log,
\* or an exception that makes run() drop the rest of the batch.
SendOneData ==
  /\ batch # <<>>
  /\ LET item == Head(batch) IN
       /\ batch' = IF item.to = Bad THEN <<>> ELSE Tail(batch)
       /\ sender_queue' =
            IF item.to \in module_router
            THEN [sender_queue EXCEPT ![item.to] = Append(@, item.id)]
            ELSE sender_queue
  /\ UNCHANGED <<posted, msg_queue, module_router, thread, sending, delivered,
                 boot, watchdog, todo, faults>>

-----------------------------------------------------------------------------
\* dispather_run, the thread of sender s.
SenderGet(s) ==
  /\ thread[s] = "idle" /\ sender_queue[s] # <<>>
  /\ thread' = [thread EXCEPT ![s] = "busy"]
  /\ sending' = [sending EXCEPT ![s] = Head(sender_queue[s])]
  /\ sender_queue' = [sender_queue EXCEPT ![s] = Tail(@)]
  /\ UNCHANGED <<posted, msg_queue, batch, module_router, delivered, boot,
                 watchdog, todo, faults>>

\* send_data returns.
SendReturns(s) ==
  /\ thread[s] = "busy"
  /\ thread' = [thread EXCEPT ![s] = "idle"]
  /\ sending' = [sending EXCEPT ![s] = None]
  /\ delivered' = [delivered EXCEPT ![s] = Append(@, sending[s])]
  /\ UNCHANGED <<posted, msg_queue, batch, module_router, sender_queue, boot,
                 watchdog, todo, faults>>

\* send_data raises: an Exception is logged and the loop goes on without the
\* datum; what is no Exception (SystemExit) ends the thread.
SendRaises(s) ==
  /\ thread[s] = "busy" /\ s \notin Reliable
  /\ sending' = [sending EXCEPT ![s] = None]
  /\ \/ thread' = [thread EXCEPT ![s] = "idle"] /\ UNCHANGED faults
     \/ /\ faults < MaxFaults /\ faults' = faults + 1
        /\ thread' = [thread EXCEPT ![s] = "dead"]
  /\ UNCHANGED <<posted, msg_queue, batch, module_router, sender_queue,
                 delivered, boot, watchdog, todo>>

-----------------------------------------------------------------------------
\* watchdog_fun: a round looks at every thread, then sleeps.
WatchAlive(s) ==
  /\ watchdog = "scan" /\ s \in todo /\ alive(s)
  /\ todo' = todo \ {s}
  /\ UNCHANGED <<posted, msg_queue, batch, module_router, sender_queue, thread,
                 sending, delivered, boot, watchdog, faults>>

\* Mutant of WatchClear: it does not ask whether the thread is alive.
ClearAny(s) ==
  /\ watchdog = "scan" /\ s \in todo
  /\ sender_queue' = [sender_queue EXCEPT ![s] = <<>>]
  /\ watchdog' = s
  /\ UNCHANGED <<posted, msg_queue, batch, module_router, thread, sending,
                 delivered, boot, todo, faults>>

WatchClear(s) ==
  /\ watchdog = "scan" /\ s \in todo /\ ~alive(s)
  /\ sender_queue' = [sender_queue EXCEPT ![s] = <<>>]
  /\ watchdog' = s
  /\ UNCHANGED <<posted, msg_queue, batch, module_router, thread, sending,
                 delivered, boot, todo, faults>>

\* new_thread.start(); when it raises, so does the handler (there is no
\* traceback.format_exer), and the watchdog is gone.
WatchStart(s) ==
  /\ watchdog = s
  /\ \/ /\ thread' = [thread EXCEPT ![s] = "idle"]
        /\ watchdog' = "scan" /\ todo' = todo \ {s}
        /\ UNCHANGED faults
     \/ StartFails /\ watchdog' = "dead" /\ UNCHANGED <<thread, todo>>
  /\ UNCHANGED <<posted, msg_queue, batch, module_router, sender_queue, sending,
                 delivered, boot>>

\* Mutant of WatchSleep: the watchdog looks only once.
SleepForEver ==
  /\ watchdog = "scan" /\ todo = {} /\ watchdog' = "dead"
  /\ UNCHANGED <<posted, msg_queue, batch, module_router, sender_queue, thread,
                 sending, delivered, boot, todo, faults>>

WatchSleep ==
  /\ watchdog = "scan" /\ todo = {}
  /\ todo' = module_router
  /\ UNCHANGED <<posted, msg_queue, batch, module_router, sender_queue, thread,
                 sending, delivered, boot, watchdog, faults>>

-----------------------------------------------------------------------------
Boot == BootWatchdog \/ \E s \in Senders : BootSender(s)
Run == RunGet \/ SendOneData
SendData(s) == SendReturns(s) \/ SendRaises(s)
Watch == WatchSleep
         \/ \E s \in Senders : WatchAlive(s) \/ WatchClear(s) \/ WatchStart(s)

Next ==
  \/ Boot \/ Run \/ Watch
  \/ \E b \in Batches : Post(b)
  \/ \E s \in Senders : SenderGet(s) \/ SendData(s)

Spec == Init /\ [][Next]_vars

\* Every thread of the process is scheduled; a send_data call returns or
\* raises unless the sender may hang; nothing makes a collector post.
Fairness ==
  /\ WF_vars(Boot) /\ WF_vars(Run) /\ WF_vars(Watch)
  /\ \A s \in Senders : WF_vars(SenderGet(s))
  /\ \A s \in Senders \ Hanging : WF_vars(SendData(s))

FairSpec == Spec /\ Fairness

-----------------------------------------------------------------------------
Item == [to : Dests, id : Nat]

\* The types of the variables.
TypeOK ==
  /\ posted \in 0..MaxData
  /\ msg_queue \in Seq(Seq(Item)) /\ batch \in Seq(Item)
  /\ module_router \subseteq Senders
  /\ sender_queue \in [Senders -> Seq(Nat)]
  /\ thread \in [Senders -> {"idle", "busy", "dead"}]
  /\ sending \in [Senders -> Nat]
  /\ delivered \in [Senders -> Seq(Nat)]
  /\ boot \in {"on", "done", "failed"}
  /\ watchdog \in {"off", "scan", "dead"} \cup Senders
  /\ todo \subseteq Senders
  /\ faults \in Nat

\* What sender s has been given and has not settled.
Pending(s) == {sender_queue[s][i] : i \in DOMAIN sender_queue[s]}
              \cup (IF thread[s] = "busy" THEN {sending[s]} ELSE {})

\* The part of the Dispatcher that serves the senders, as channels.
Chan == INSTANCE SenderChannels WITH
          Data <- 1..MaxData,
          pending <- [s \in Senders |-> Pending(s)],
          up <- [s \in Senders |-> alive(s)]

\* Every sender sees the data in the order the collectors posted them and
\* none twice, through two queues, two threads and any number of restarts.
OrderedDelivery ==
  \A s \in Senders : \A i, j \in DOMAIN delivered[s] :
    i < j => delivered[s][i] < delivered[s][j]

\* Why: the ids grow along the whole way of a datum.  Upstream of the senders
\* they grow along the batch and from batch to batch ...
UpstreamInOrder ==
  /\ \A i \in DOMAIN batch :
       /\ batch[i].id \in 1..posted
       /\ \A j \in DOMAIN batch : i < j => batch[i].id < batch[j].id
       /\ \A k \in DOMAIN msg_queue : \A j \in DOMAIN msg_queue[k] :
            batch[i].id < msg_queue[k][j].id
  /\ \A k \in DOMAIN msg_queue : \A i \in DOMAIN msg_queue[k] :
       /\ msg_queue[k][i].id \in 1..posted
       /\ \A j \in DOMAIN msg_queue[k] :
            i < j => msg_queue[k][i].id < msg_queue[k][j].id
       /\ \A l \in DOMAIN msg_queue : \A j \in DOMAIN msg_queue[l] :
            k < l => msg_queue[k][i].id < msg_queue[l][j].id

\* ... what a sender has is older than everything upstream ...
OlderThanUpstream ==
  \A s \in Senders : \A d \in Pending(s) \cup Chan!Delivered(s) :
    /\ d \in 1..posted
    /\ \A i \in DOMAIN batch : d < batch[i].id
    /\ \A k \in DOMAIN msg_queue : \A j \in DOMAIN msg_queue[k] :
         d < msg_queue[k][j].id

\* ... and grows from what is delivered over what is being sent to the queue.
ChannelInOrder ==
  \A s \in Senders :
    /\ \A d \in Chan!Delivered(s), e \in Pending(s) : d < e
    /\ \A i, j \in DOMAIN sender_queue[s] :
         i < j => sender_queue[s][i] < sender_queue[s][j]
    /\ thread[s] = "busy" =>
         \A i \in DOMAIN sender_queue[s] : sending[s] < sender_queue[s][i]

\* Threads are started only for senders that have none, by the boot or by the
\* watchdog: never two threads on one queue.
OneThreadPerSender ==
  /\ \A s \in Senders \ module_router : thread[s] = "dead"
  /\ boot = "on" => watchdog = "off"
  /\ todo \subseteq module_router
  /\ watchdog \in Senders =>
       watchdog \in module_router /\ thread[watchdog] = "dead"

IInv ==
  /\ TypeOK /\ OrderedDelivery
  /\ UpstreamInOrder /\ OlderThanUpstream /\ ChannelInOrder
  /\ OneThreadPerSender

\* The queues, the threads and the watchdog implement a channel per sender:
\* a backlog is thrown away only while the sender has no thread, and a datum
\* leaves it otherwise only through the thread, oldest first.
ImplementsChannels == Chan!CSpec

\* s has datum d still to come, with no item before it that raises.
Coming(s, d) ==
  \E b \in {batch} \cup {msg_queue[k] : k \in DOMAIN msg_queue} :
    \E i \in DOMAIN b :
      b[i] = [to |-> s, id |-> d] /\ \A j \in 1..i : b[j].to # Bad

\* A datum posted for a reliable sender reaches it, whatever entries it is
\* batched with, unless one before it in its own batch raises.
ReliableDelivery ==
  \A s \in Reliable \ Hanging, d \in 1..MaxData :
    Coming(s, d) ~> d \in Chan!Delivered(s)

\* A dead sender thread is replaced ("thread dead,just restart it",
\* dispatcher.py:36).
DeadSenderRestarted ==
  \A s \in Senders : (boot = "done" /\ ~alive(s)) ~> alive(s)
=============================================================================
