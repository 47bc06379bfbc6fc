----------------------------- MODULE MCReactor ------------------------------
(***************************************************************************)
(* The Listener with one polite peer, one that sends and leaves as it      *)
(* pleases and one that only comes and goes, on two descriptors.  A packet *)
(* is a header of two units and one of data, and one recv returns at most  *)
(* four units: more than a packet and less than two.                       *)
(***************************************************************************)
EXTENDS Reactor

CONSTANTS p1, p2, p3

MCConns == {p1, p2, p3}
MCPolite == {p1}
MCMaxPackets == [p \in MCConns |-> CASE p = p1 -> 2 [] p = p2 -> 2 [] p = p3 -> 0]
MCFds == {1, 2}
=============================================================================
