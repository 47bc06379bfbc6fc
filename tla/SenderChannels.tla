--------------------------- MODULE SenderChannels ---------------------------
(***************************************************************************)
(* What the Dispatcher promises its sender plug-ins: each is served by a   *)
(* channel of its own, which hands its data over in the order they were    *)
(* produced, none twice, and throws a backlog away only while the sender   *)
(* has no thread.  A datum is a number, its position in the order of       *)
(* production.                                                             *)
(***************************************************************************)
EXTENDS Naturals, Sequences

CONSTANTS
  Senders,
  Data       \* the numbers of the data

VARIABLES
  pending,   \* the data accepted for each sender and not yet settled
  delivered, \* the data whose send_data call returned, in that order
  up         \* does the sender have a thread?

cvars == <<pending, delivered, up>>

CInit ==
  /\ pending = [s \in Senders |-> {}]
  /\ delivered = [s \in Senders |-> <<>>]
  /\ up = [s \in Senders |-> FALSE]

Delivered(s) == {delivered[s][i] : i \in DOMAIN delivered[s]}

Accept(s, d) ==
  /\ \A e \in pending[s] \cup Delivered(s) : e < d
  /\ pending' = [pending EXCEPT ![s] = @ \cup {d}]
  /\ UNCHANGED <<delivered, up>>

\* The oldest datum is settled: delivered, refused, or lost with the thread.
Settle(s, d) ==
  /\ up[s] /\ d \in pending[s] /\ \A e \in pending[s] : d <= e
  /\ pending' = [pending EXCEPT ![s] = @ \ {d}]
  /\ \/ delivered' = [delivered EXCEPT ![s] = Append(@, d)] /\ UNCHANGED up
     \/ UNCHANGED <<delivered, up>>
     \/ up' = [up EXCEPT ![s] = FALSE] /\ UNCHANGED delivered

Purge(s) ==
  /\ ~up[s]
  /\ pending' = [pending EXCEPT ![s] = {}]
  /\ UNCHANGED <<delivered, up>>

Restart(s) ==
  /\ ~up[s]
  /\ up' = [up EXCEPT ![s] = TRUE]
  /\ UNCHANGED <<pending, delivered>>

Serve(s) == \E d \in Data : Settle(s, d)

CNext ==
  \E s \in Senders :
    Serve(s) \/ Purge(s) \/ Restart(s) \/ \E d \in Data : Accept(s, d)

CSpec == CInit /\ [][CNext]_cvars
=============================================================================
