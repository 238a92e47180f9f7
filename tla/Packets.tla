------------------------------- MODULE Packets ------------------------------
(* The packets of include/network.h and the order PacketQueue keeps them in. *)
EXTENDS Integers, FiniteSets

CONSTANTS
  Packets  \* the packets a run sends; their bits are left out

\* The fields of struct Packet that matter here.  A module may add fields of
\* its own to tell packets apart.
PacketRecords == [shard : Nat, seq : Nat]

ASSUME PacketAssumption ==
  /\ \A p \in Packets : [shard |-> p.shard, seq |-> p.seq] \in PacketRecords
  /\ IsFiniteSet(Packets)

\* What priority_queue::top may be: operator< puts a low seq first, whatever
\* the shard is, and leaves the order of packets with equal seq open.
Top(queue) == {p \in queue : \A q \in queue : p.seq <= q.seq}
=============================================================================
