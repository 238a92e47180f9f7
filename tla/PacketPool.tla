----------------------------- MODULE PacketPool -----------------------------
(***************************************************************************)
(* What PacketQueue and the run loops of Sender and Receiver promise: a    *)
(* pool of packets that each step changes in one go.  A consumer takes a   *)
(* packet of the lowest sequence number and either writes it or puts it    *)
(* back and ends.                                                          *)
(***************************************************************************)
EXTENDS Packets

CONSTANTS Consumers

VARIABLES
  unsent,   \* packets nobody has called send() with yet
  pool,     \* packets in the queue
  hand,     \* per consumer, the packet it took
  written,  \* packets written to a socket
  alive     \* consumers whose thread has not ended

poolVars == <<unsent, pool, hand, written, alive>>

Put(p) ==
  /\ p \in unsent
  /\ unsent' = unsent \ {p}
  /\ pool' = pool \cup {p}
  /\ UNCHANGED <<hand, written, alive>>

TakeTop(c) ==
  /\ c \in alive
  /\ hand[c] = {}
  /\ \E p \in Top(pool) :
       /\ pool' = pool \ {p}
       /\ hand' = [hand EXCEPT ![c] = {p}]
  /\ UNCHANGED <<unsent, written, alive>>

WriteOut(c) ==
  /\ hand[c] # {}
  /\ written' = written \cup hand[c]
  /\ hand' = [hand EXCEPT ![c] = {}]
  /\ UNCHANGED <<unsent, pool, alive>>

PutBack(c) ==
  /\ hand[c] # {}
  /\ pool' = pool \cup hand[c]
  /\ hand' = [hand EXCEPT ![c] = {}]
  /\ alive' = alive \ {c}
  /\ UNCHANGED <<unsent, written>>

PoolInit ==
  /\ unsent = Packets
  /\ pool = {}
  /\ hand = [c \in Consumers |-> {}]
  /\ written = {}
  /\ alive = Consumers

PoolNext ==
  \/ \E p \in Packets : Put(p)
  \/ \E c \in Consumers : TakeTop(c) \/ WriteOut(c) \/ PutBack(c)

\* A packet in the pool is taken as long as a consumer is free.
PoolSpec ==
  /\ PoolInit /\ [][PoolNext]_poolVars
  /\ WF_poolVars(\E c \in Consumers : TakeTop(c))
=============================================================================
