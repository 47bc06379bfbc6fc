------------------------------ MODULE Reactor -------------------------------
(***************************************************************************)
(* The agent's Listener: an epoll reactor in one thread, the acceptor that *)
(* gives every connection a handler, and the two kinds of handlers,        *)
(* CloudClient and MonitorClient, which cut what they receive into packets *)
(* and answer them.                                                        *)
(*                                                                         *)
(* A peer sends a stream of packets, all of DataLen units, of which        *)
(* HeaderLen are the header; those of a polite peer are good, another's    *)
(* may be wrong.  Unit n of the stream is the one after n others, so a     *)
(* receive buffer is a range of the stream, and its first units are a      *)
(* header if and only if the range begins at a multiple of DataLen: the    *)
(* body of a packet is taken to look like no header.  A polite peer's      *)
(* packet arrives in one piece.                                            *)
(***************************************************************************)
EXTENDS Naturals, Sequences, FiniteSetsExt, Functions

CONSTANTS
  Conns,                \* connections
  Polite,               \* those whose peer sends a packet at a time, waits for
                        \* the answer and stays
  Fds,                  \* file descriptors there are for connections
  HeaderLen, DataLen,   \* of a packet
  RecvMax,              \* what one recv returns at most
  MaxPackets            \* bound: packets each peer sends

Listen == 0             \* the fd of the listening socket
NoConn == "none"

\* What a polite peer sends fits into one recv.
ASSUME ReactorAssumption ==
  /\ NoConn \notin Conns /\ Polite \subseteq Conns /\ Fds \subseteq Nat \ {0}
  /\ Polite # {} => DataLen <= RecvMax
  /\ HeaderLen \in Nat \ {0} /\ DataLen \in Nat /\ HeaderLen < DataLen
  /\ RecvMax \in Nat \ {0} /\ MaxPackets \in [Conns -> Nat]

VARIABLES
  client_class,  \* "cloud" or "monitor", from the configuration
  reactor,       \* "poll", "round" or "dead"
  todo,          \* the fds of the round with an event
  handlers,      \* __handlers, for the connections' fds
  registered,    \* the fds epoll watches
  owner,         \* the kernel's table: the connection each fd is
  del_list,      \* __del_list
  conn,          \* each connection: "off", "backlog", "open" or "closed"
  fd,            \* the fd a handler remembers
  sent, eof,     \* what the peer has sent, and if it has closed
  got,           \* what was received
  start,         \* where in the stream the receive buffer begins
  handled,       \* packets processed
  cause          \* history: why a connection was put on the list

peerVars == <<sent, eof>>
fdVars == <<handlers, registered, owner, fd>>
bufVars == <<got, start, handled>>
vars == <<client_class, reactor, todo, fdVars, del_list, conn, peerVars, bufVars, cause>>

Init ==
  /\ client_class \in {"cloud", "monitor"}
  /\ reactor = "poll" /\ todo = {} /\ del_list = <<>>
  /\ handlers = [f \in Fds |-> NoConn] /\ owner = [f \in Fds |-> NoConn]
  /\ registered = {}
  /\ conn = [p \in Conns |-> "off"] /\ fd = [p \in Conns |-> 0]
  /\ sent = [p \in Conns |-> 0] /\ eof = [p \in Conns |-> FALSE]
  /\ got = [p \in Conns |-> 0] /\ start = [p \in Conns |-> 0]
  /\ handled = [p \in Conns |-> 0] /\ cause = [p \in Conns |-> "none"]

-----------------------------------------------------------------------------
\* The peers, which the kernel serves without the Listener.  When the Listener
\* has ended the kernel closes what it had open, and no more is said of them.
Connect(p) ==
  /\ reactor # "dead" /\ conn[p] = "off" /\ conn' = [conn EXCEPT ![p] = "backlog"]
  /\ UNCHANGED <<client_class, reactor, todo, fdVars, del_list, peerVars, bufVars, cause>>

Send(p) ==
  /\ reactor # "dead" /\ conn[p] \in {"backlog", "open"} /\ ~eof[p]
  /\ \E n \in 1..MaxPackets[p] * DataLen - sent[p] :
       /\ p \in Polite => n = DataLen /\ sent[p] = DataLen * handled[p]
       /\ sent' = [sent EXCEPT ![p] = @ + n]
  /\ UNCHANGED <<client_class, reactor, todo, fdVars, del_list, conn, eof, bufVars, cause>>

Close(p) ==
  /\ reactor # "dead" /\ conn[p] \in {"backlog", "open"} /\ p \notin Polite /\ ~eof[p]
  /\ eof' = [eof EXCEPT ![p] = TRUE]
  /\ UNCHANGED <<client_class, reactor, todo, fdVars, del_list, conn, sent, bufVars, cause>>

-----------------------------------------------------------------------------
\* EpollReactor.run: the poll, which returns when a connection or data wait.
Ready ==
  {f \in registered : sent[owner[f]] > got[owner[f]] \/ eof[owner[f]]}
  \cup (IF \E p \in Conns : conn[p] = "backlog" THEN {Listen} ELSE {})

Poll ==
  /\ reactor = "poll" /\ Ready # {}
  /\ todo' = Ready /\ reactor' = "round"
  /\ UNCHANGED <<client_class, fdVars, del_list, conn, peerVars, bufVars, cause>>

\* del_invalid_handler.  The unregister of an fd that is not watched raises.
Deleted == {del_list[i] : i \in DOMAIN del_list}

\* The fault of leaving __del_list as it is.
Kept == del_list
Emptied == <<>>

\* The fault of closing a socket without detaching its handler.
ForgetNothing(fds) == handlers' = handlers
Forget(fds) == handlers' = [f \in Fds |-> IF f \in fds THEN NoConn ELSE handlers[f]]

\* The round is over; an fd whose handler is gone is passed over.
EndRound ==
  /\ reactor = "round" /\ Listen \notin todo
  /\ \A f \in todo : handlers[f] = NoConn
  /\ todo' = {}
  /\ IF IsInjective(del_list) /\ {fd[p] : p \in Deleted} \subseteq registered
     THEN /\ LET fds == {fd[p] : p \in Deleted} IN
               /\ registered' = registered \ fds
               /\ Forget(fds)
               /\ owner' = [f \in Fds |-> IF owner[f] \in Deleted THEN NoConn ELSE owner[f]]
          /\ conn' = [p \in Conns |-> IF p \in Deleted THEN "closed" ELSE conn[p]]
          /\ del_list' = Emptied /\ reactor' = "poll"
     ELSE reactor' = "dead" /\ UNCHANGED <<registered, handlers, owner, conn, del_list>>
  /\ UNCHANGED <<client_class, fd, peerVars, bufVars, cause>>

-----------------------------------------------------------------------------
\* Acceptor.handle_input: the new socket gets the lowest free fd; with none
\* left accept raises, and nobody catches it.
Accept(p) ==
  /\ reactor = "round" /\ Listen \in todo /\ conn[p] = "backlog"
  /\ todo' = todo \ {Listen}
  /\ LET free == {f \in Fds : owner[f] = NoConn} IN
       \/ free = {} /\ reactor' = "dead" /\ UNCHANGED <<fdVars, conn>>
       \/ \E f \in free :
            /\ \A g \in free : f <= g
            /\ handlers' = [handlers EXCEPT ![f] = p]
            /\ owner' = [owner EXCEPT ![f] = p]
            /\ registered' = registered \cup {f}
            /\ fd' = [fd EXCEPT ![p] = f]
            /\ conn' = [conn EXCEPT ![p] = "open"]
            /\ UNCHANGED reactor
  /\ UNCHANGED <<client_class, del_list, peerVars, bufVars, cause>>

\* put_del_list
PutDelList(p, why) ==
  /\ del_list' = Append(del_list, p)
  /\ cause' = [cause EXCEPT ![p] = why]
  /\ UNCHANGED fdVars

KeepOpen == UNCHANGED <<del_list, cause, fdVars>>

\* The handler of fd f is called for an input event.
Input(f, p) ==
  /\ reactor = "round" /\ f \in todo \ {Listen} /\ handlers[f] = p
  /\ todo' = todo \ {f}
  /\ UNCHANGED <<client_class, conn, peerVars>>

\* The fault of logging the end of a connection and no more.
RecvNothingLogged(f, p) ==
  /\ Input(f, p)
  /\ eof[p] \/ got[p] = sent[p]
  /\ KeepOpen /\ UNCHANGED <<bufVars, reactor>>

\* BaseClient.handle_input: the peer has closed, or recv raises: the
\* connection was reset (the peer has gone), or there is nothing to receive.
RecvNothing(f, p) ==
  /\ Input(f, p)
  /\ eof[p] \/ got[p] = sent[p]
  /\ PutDelList(p, IF eof[p] THEN "gone" ELSE "again")
  /\ UNCHANGED <<bufVars, reactor>>

\* CloudClient.process_alarm_msg and send_response: what becomes of the
\* answer.  enable_output after a partial send is a NameError, which ends the
\* Listener.
Answer(p) ==
  \/ KeepOpen /\ UNCHANGED reactor
  \/ p \notin Polite /\ PutDelList(p, "send") /\ UNCHANGED reactor
  \/ p \notin Polite /\ reactor' = "dead" /\ KeepOpen

\* The fault of cutting the data and leaving the length of the header.
TakeData(p, n) ==
  /\ start' = [start EXCEPT ![p] = @ + (n - HeaderLen)]
  /\ handled' = [handled EXCEPT ![p] = @ + 1]

TakePacket(p, n) ==
  /\ start' = [start EXCEPT ![p] = @ + n]
  /\ handled' = [handled EXCEPT ![p] = @ + 1]

\* The fault of taking a packet only when more than it is there.
MoreThere(length) == length > DataLen
Complete(length) == length >= DataLen

\* CloudClient.decode and what handle_input makes of its result.
DecodeCloud(p) ==
  LET length == got'[p] - start[p] IN
    \/ /\ length < HeaderLen
       /\ KeepOpen /\ UNCHANGED <<start, handled, reactor>>
    \/ /\ length >= HeaderLen /\ start[p] % DataLen # 0
       /\ PutDelList(p, "decode") /\ UNCHANGED <<start, handled, reactor>>
    \/ /\ Complete(length) /\ start[p] % DataLen = 0
       /\ TakePacket(p, DataLen) /\ Answer(p)
    \/ /\ length >= HeaderLen /\ p \notin Polite      \* not a good packet
       /\ PutDelList(p, "decode") /\ UNCHANGED <<start, handled, reactor>>
    \/ /\ HeaderLen <= length /\ ~Complete(length) /\ start[p] % DataLen = 0
       /\ start' = [start EXCEPT ![p] = got'[p]]
       /\ KeepOpen /\ UNCHANGED <<handled, reactor>>

\* MonitorClient.decode: the buffer is one message or nothing.
DecodeMonitor(p) ==
  LET message == start[p] % DataLen = 0 /\ got'[p] - start[p] = DataLen IN
    \/ message /\ TakePacket(p, DataLen) /\ KeepOpen /\ UNCHANGED reactor
    \/ /\ ~message \/ p \notin Polite
       /\ PutDelList(p, "decode") /\ UNCHANGED <<start, handled, reactor>>

RecvData(f, p) ==
  /\ Input(f, p) /\ got[p] < sent[p]
  /\ got' = [got EXCEPT ![p] = Min({sent[p], got[p] + RecvMax})]
  /\ IF client_class = "cloud" THEN DecodeCloud(p) ELSE DecodeMonitor(p)

-----------------------------------------------------------------------------
Handle == \/ \E p \in Conns : Accept(p)
          \/ \E f \in Fds, p \in Conns : RecvNothing(f, p) \/ RecvData(f, p)
Reactor == Poll \/ EndRound \/ Handle

Next ==
  \/ Reactor
  \/ \E p \in Conns : Connect(p) \/ Send(p) \/ Close(p)

Spec == Init /\ [][Next]_vars

\* The reactor's thread is scheduled; no peer has to do anything.
FairSpec == Spec /\ WF_vars(Reactor)

-----------------------------------------------------------------------------
Causes == {"none", "gone", "again", "send", "decode"}

TypeOK ==
  /\ client_class \in {"cloud", "monitor"} /\ reactor \in {"poll", "round", "dead"}
  /\ todo \subseteq Fds \cup {Listen} /\ registered \subseteq Fds
  /\ handlers \in [Fds -> Conns \cup {NoConn}]
  /\ owner \in [Fds -> Conns \cup {NoConn}]
  /\ del_list \in Seq(Conns)
  /\ conn \in [Conns -> {"off", "backlog", "open", "closed"}]
  /\ fd \in [Conns -> Fds \cup {0}]
  /\ sent \in [Conns -> Nat] /\ eof \in [Conns -> BOOLEAN]
  /\ got \in [Conns -> Nat]
  /\ start \in [Conns -> Nat]
  /\ handled \in [Conns -> Nat] /\ cause \in [Conns -> Causes]
  /\ \A p \in Conns :
       start[p] <= got[p] /\ got[p] <= sent[p] /\ sent[p] <= MaxPackets[p] * DataLen

\* The Listener's table, what epoll watches and the kernel's table agree at
\* every moment, and a handler's own fd is the fd it is called for: an fd that
\* is closed and given out again never leads to the old handler.
FdTables ==
  /\ handlers = owner /\ registered = {f \in Fds : owner[f] # NoConn}
  /\ \A f \in Fds : owner[f] # NoConn => conn[owner[f]] = "open" /\ fd[owner[f]] = f
  /\ \A p \in Conns : conn[p] = "open" => fd[p] \in Fds /\ owner[fd[p]] = p

\* No connection is on the deletion list twice, nor after it was closed: the
\* second detach would raise, and end the Listener for everybody.
DeletedOnce ==
  IsInjective(del_list) /\ \A p \in Deleted : conn[p] = "open"

\* Why: what is left of a round are events of connections that are not on the
\* list and still have something to receive; between rounds nothing is left.
EventsInRound ==
  /\ reactor = "poll" => todo = {} /\ del_list = <<>>
  /\ \A p \in Deleted : fd[p] \notin todo
  /\ \A f \in todo \ {Listen} :
       owner[f] # NoConn /\ (sent[owner[f]] > got[owner[f]] \/ eof[owner[f]])

\* Whatever other peers do, one that sends a packet at a time (and whose packet
\* arrives in one piece) is never disconnected, and its stream is cut exactly
\* at its packets.
PoliteKept ==
  \A p \in Polite : cause[p] = "none" /\ start[p] = DataLen * handled[p]

\* Why: a polite peer has at most one packet under way, which is not yet received.
OneAtATime ==
  \A p \in Polite :
    /\ ~eof[p] /\ p \notin Deleted
    /\ got[p] = start[p] /\ sent[p] \in {start[p], start[p] + DataLen}

IInv ==
  TypeOK /\ FdTables /\ DeletedOnce /\ EventsInRound /\ PoliteKept /\ OneAtATime

\* A connection whose peer has gone is closed and its fd given back, as long as
\* the Listener lives.
GoneIsReleased ==
  \A p \in Conns : conn[p] = "open" /\ eof[p] ~> conn[p] = "closed" \/ reactor = "dead"

\* Every packet of a polite peer is processed while the Listener lives.
PoliteAnswered ==
  \A p \in Polite :
    sent[p] > DataLen * handled[p] ~> sent[p] = DataLen * handled[p] \/ reactor = "dead"

\* base_client.py:36 takes 0 from decode as "packet not complete", and keeps the
\* buffer: nothing that was received leaves the buffer except as a packet.
NoBytesLost == \A p \in Conns : start[p] <= DataLen * handled[p]

=============================================================================
