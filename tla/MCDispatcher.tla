---------------------------- MODULE MCDispatcher ----------------------------
(* Small instances of Dispatcher: three senders, of which the first always  *)
(* answers, the second may raise or die and the third may also hang.        *)
EXTENDS Dispatcher

CONSTANTS good, shaky, stuck

MCSenders == {good, shaky, stuck}
MCReliable == {good}
MCHanging == {stuck}

\* A single datum, an entry nobody can take, one that raises in the middle.
MCBatches == {<<shaky, good>>, <<stuck>>, <<Unknown, good>>,
              <<shaky, Bad, good>>}

\* A state of a dispatcher that does not run, for the modules that model it together with
\* others: none of its actions is enabled.
DispatcherRests ==
  /\ posted = MaxData /\ msg_queue = <<>> /\ batch = <<>> /\ module_router = {}
  /\ sender_queue = [s \in Senders |-> <<>>] /\ thread = [s \in Senders |-> "dead"]
  /\ sending = [s \in Senders |-> None] /\ delivered = [s \in Senders |-> <<>>]
  /\ boot = "unused" /\ watchdog = "off" /\ todo = {} /\ faults = 0
=============================================================================
