------------------------------- MODULE Network ------------------------------
(***************************************************************************)
(* The four hosts as a network of packets (src/network.cpp, trader.cpp,    *)
(* exchange.cpp).  Each connection between a trader and an exchanger has a *)
(* Receiver and a Sender on either side.  A queue changes in one step, as  *)
(* PacketQueue provides (theorem QueueImplementsPool), and a packet enters *)
(* and leaves a socket as a whole: header and data that are cut in two by  *)
(* a break are a packet that was not written.                              *)
(*                                                                         *)
(* Connections are those main() opens and those the console opens later;   *)
(* neither closes one, so nothing tells the two kinds apart.               *)
(***************************************************************************)
EXTENDS Packets, Sequences

CONSTANTS
  Exchangers,   \* hosts that relay
  Connections   \* records [trader, exchanger, k]

Traders == {0, 1}  \* Config::id of the traders
Hosts == Traders \cup Exchangers
Sides == {"trader", "exchanger"}

ASSUME NetworkAssumption ==
  /\ Exchangers \cap Traders = {}
  /\ IsFiniteSet(Connections)
  /\ \A c \in Connections : c.trader \in Traders /\ c.exchanger \in Exchangers
  /\ \A p \in Packets : p.from \in Traders  \* who encodes it

VARIABLES
  unsent,  \* packets the traders' OBitStreams have not flushed
  pool,    \* per host and trader, a queue: pool[t][t] is tx_to_remote of
           \* trader t, pool[t][1 - t] what its Demux was given, and pool[e]
           \* are the queues[] of exchanger e
  link,    \* per connection, its state
  up,      \* per connection, the sides that have spawned their threads
  ended,   \* per connection, the sides whose Sender has ended
  hand,    \* per connection and side, the packet its Sender is writing
  wire,    \* per connection and side, what is on its way to that side
  lost     \* packets that are gone

vars == <<unsent, pool, link, up, ended, hand, wire, lost>>

-----------------------------------------------------------------------------

Host(c, side) == IF side = "trader" THEN c.trader ELSE c.exchanger

Other(side) == IF side = "trader" THEN "exchanger" ELSE "trader"

\* Mistake: the queues of an exchanger are not crossed.
Echo(c, side) == c.trader

\* The queue a Sender drains: tx_to_remote, or queues[1 - id].
Source(c, side) == IF side = "trader" THEN c.trader ELSE 1 - c.trader

\* The queue a Receiver fills: the Demux, or queues[id].
Sink(c, side) == IF side = "trader" THEN 1 - c.trader ELSE c.trader

\* The packets in a wire.
InWire(w) == {w[i] : i \in DOMAIN w}

\* OBitStream::flush: a stock's packet goes to tx_to_remote.
Flush(t) ==
  /\ \E p \in unsent :
       /\ p.from = t
       /\ unsent' = unsent \ {p}
       /\ pool' = [pool EXCEPT ![t][t] = @ \cup {p}]
  /\ UNCHANGED <<link, up, ended, hand, wire, lost>>

\* network_connect: connect() succeeded, key and id are written.
Connect(c) ==
  /\ link[c] = "none"
  /\ link' = [link EXCEPT ![c] = "open"]
  /\ up' = [up EXCEPT ![c] = {"trader"}]
  /\ UNCHANGED <<unsent, pool, ended, hand, wire, lost>>

\* MAX_RETRY attempts have failed.
GiveUp(c) ==
  /\ link[c] = "none"
  /\ link' = [link EXCEPT ![c] = "failed"]
  /\ UNCHANGED <<unsent, pool, up, ended, hand, wire, lost>>

\* network_listen: accept(), key and id are read.  A connection that broke
\* while it was waiting in the backlog may still be accepted.
Accept(c) ==
  /\ link[c] \in {"open", "broken"}
  /\ up[c] = {"trader"}
  /\ up' = [up EXCEPT ![c] = Sides]
  /\ UNCHANGED <<unsent, pool, link, ended, hand, wire, lost>>

\* The sides whose Sender is in run().
Running(c) == up[c] \ ended[c]

\* Sender::run gets a packet from its queue; it does so on a dead connection
\* as well, because it only learns of that when it writes.
Take(c, side) ==
  LET h == Host(c, side)
      q == Source(c, side)
  IN  /\ side \in Running(c)
      /\ hand[c][side] = {}
      /\ \E p \in Top(pool[h][q]) :
           /\ pool' = [pool EXCEPT ![h][q] = @ \ {p}]
           /\ hand' = [hand EXCEPT ![c][side] = {p}]
      /\ UNCHANGED <<unsent, link, up, ended, wire, lost>>

\* Mistake: the guard is still armed when run() goes on.
StillArmed(c, side) == hand[c][side]

\* The packet that is left behind in the Sender when the write is over.
AfterWrite(c, side) == {}

\* write_exact of header and data, guard.reset().
Write(c, side) ==
  /\ link[c] = "open"
  /\ \E p \in hand[c][side] : wire' = [wire EXCEPT ![c][Other(side)] = Append(@, p)]
  /\ hand' = [hand EXCEPT ![c][side] = AfterWrite(c, side)]
  /\ UNCHANGED <<unsent, pool, link, up, ended, lost>>

\* The kernel takes the bytes of a packet nobody will read any more.
WriteIntoVoid(c, side) ==
  /\ link[c] = "broken"
  /\ hand[c][side] # {}
  /\ lost' = lost \cup hand[c][side]
  /\ hand' = [hand EXCEPT ![c][side] = {}]
  /\ UNCHANGED <<unsent, pool, link, up, ended, wire>>

\* Mistake: run() is left without the guard.
NoGuard(c, side) == {}

\* What the guard puts back.
Requeued(c, side) == hand[c][side]

\* write_exact throws: the packet is requeued and the Sender's thread ends.
WriteFails(c, side) ==
  /\ link[c] = "broken"
  /\ hand[c][side] # {}
  /\ pool' = [pool EXCEPT ![Host(c, side)][Source(c, side)] = @ \cup Requeued(c, side)]
  /\ hand' = [hand EXCEPT ![c][side] = {}]
  /\ ended' = [ended EXCEPT ![c] = @ \cup {side}]
  /\ UNCHANGED <<unsent, link, up, wire, lost>>

\* Receiver::run passes on the packet it has read.
Receive(c, side) ==
  /\ side \in up[c]
  /\ wire[c][side] # <<>>
  /\ wire' = [wire EXCEPT ![c][side] = Tail(@)]
  /\ pool' = [pool EXCEPT ![Host(c, side)][Sink(c, side)] = @ \cup {Head(wire[c][side])}]
  /\ UNCHANGED <<unsent, link, up, ended, hand, lost>>

\* A connection breaks.  What its Receivers can still read is cut short at
\* any point: an error drops it all, an end of file none of it.  One that no
\* listener will ever accept (hanging, in Ports) is as good as broken: what is
\* written to it, or waits in a write, reaches nobody.
Break(c) ==
  /\ link[c] = "open"
  /\ link' = [link EXCEPT ![c] = "broken"]
  /\ \E n \in 0..Len(wire[c]["trader"]), m \in 0..Len(wire[c]["exchanger"]) :
       LET kept == [s \in Sides |-> SubSeq(wire[c][s], 1, IF s = "trader" THEN n ELSE m)]
       IN  /\ wire' = [wire EXCEPT ![c] = kept]
           /\ lost' = lost \cup UNION {InWire(wire[c][s]) \ InWire(kept[s]) : s \in Sides}
  /\ UNCHANGED <<unsent, pool, up, ended, hand>>

Init ==
  /\ unsent = Packets
  /\ pool = [h \in Hosts |-> [t \in Traders |-> {}]]
  /\ link = [c \in Connections |-> "none"]
  /\ up = [c \in Connections |-> {}]
  /\ ended = [c \in Connections |-> {}]
  /\ hand = [c \in Connections |-> [s \in Sides |-> {}]]
  /\ wire = [c \in Connections |-> [s \in Sides |-> <<>>]]
  /\ lost = {}

Next ==
  \/ \E t \in Traders : Flush(t)
  \/ \E c \in Connections : Connect(c) \/ GiveUp(c) \/ Accept(c) \/ Break(c)
  \/ \E c \in Connections, side \in Sides :
       \/ Take(c, side) \/ Write(c, side) \/ WriteIntoVoid(c, side)
       \/ WriteFails(c, side) \/ Receive(c, side)

Spec == Init /\ [][Next]_vars

\* Threads run, writes come back, a queue with a packet and an idle Sender
\* yields it (PacketQueue does: ImplementsPool), connectors try, listeners
\* accept what is open or has bytes to read.  Nothing forces a break.
Fairness ==
  /\ \A c \in Connections :
       /\ WF_vars(Connect(c) \/ GiveUp(c))
       /\ WF_vars((link[c] = "open" \/ wire[c]["exchanger"] # <<>>) /\ Accept(c))
  /\ \A h \in Hosts, t \in Traders :
       WF_vars(\E c \in Connections, side \in Sides :
                 Host(c, side) = h /\ Source(c, side) = t /\ Take(c, side))
  /\ \A c \in Connections, side \in Sides :
       /\ WF_vars(Write(c, side) \/ WriteIntoVoid(c, side) \/ WriteFails(c, side))
       /\ WF_vars(Receive(c, side))

FairSpec == Spec /\ Fairness

-----------------------------------------------------------------------------
(* Properties.                                                             *)

\* Types, and a Sender that has ended holds nothing.
TypeOK ==
  /\ unsent \in SUBSET Packets
  /\ pool \in [Hosts -> [Traders -> SUBSET Packets]]
  /\ link \in [Connections -> {"none", "failed", "open", "broken"}]
  /\ up \in [Connections -> SUBSET Sides]
  /\ ended \in [Connections -> SUBSET Sides]
  /\ hand \in [Connections -> [Sides -> SUBSET Packets]]
  /\ wire \in [Connections -> [Sides -> Seq(Packets)]]
  /\ lost \in SUBSET Packets
  /\ \A c \in Connections : \A s \in Sides : s \in ended[c] => hand[c][s] = {}

\* What trader t received: its Demux only ever gets the other one's packets
\* (exchange.cpp:13-14, network.cpp:188-189).
Received(t) == pool[t][1 - t]

OnlyFromPeer == \A t \in Traders : \A p \in Received(t) : p.from = 1 - t

\* The places a packet can be in, one element per packet and place.
Places ==
  {<<"unsent", p>> : p \in unsent} \cup {<<"lost", p>> : p \in lost}
    \cup (UNION {{<<"pool", p, h, t>> : p \in pool[h][t]} : h \in Hosts, t \in Traders})
    \cup (UNION {{<<"hand", p, c, s>> : p \in hand[c][s]} : c \in Connections, s \in Sides})
    \cup (UNION {{<<"wire", wire[c][s][i], c, s, i>> : i \in DOMAIN wire[c][s]} :
                   c \in Connections, s \in Sides})

\* Every packet is in exactly one place: none vanishes without being counted
\* as lost with a connection, and none is duplicated by a requeue.
OnePlace == \A p \in Packets : Cardinality({x \in Places : x[2] = p}) = 1

\* Packets of trader t between its flush and the other trader's Demux.
Transit(t) ==
  {p \in Packets \ (unsent \cup lost) : p.from = t /\ p \notin Received(1 - t)}

\* The packet is queued at a host all of whose connections that could take it
\* on have failed or broken.
Stranded(p) ==
  \E h \in Hosts :
    /\ p \in pool[h][p.from]
    /\ \A c \in Connections, side \in Sides :
         Host(c, side) = h /\ Source(c, side) = p.from => link[c] \in {"failed", "broken"}

\* A packet that is flushed arrives, unless a connection takes it away or it
\* is queued where no connection is left to take it: broken connections whose
\* Senders still take packets delay it but do not stop it.
FlushedArrives ==
  \A p \in Packets :
    p \in Transit(p.from) ~> p \in Received(1 - p.from) \cup lost \/ Stranded(p)

\* To the traders the network is a channel that reorders and may lose, but
\* never duplicates, echoes or invents packets.
Channel == INSTANCE PacketChannel WITH
  unsent <- [t \in Traders |-> {p \in unsent : p.from = t}],
  transit <- [t \in Traders |-> Transit(t)],
  arrived <- [t \in Traders |-> Received(1 - t)],
  lost <- [t \in Traders |-> {p \in lost : p.from = t}]

ImplementsChannel == Channel!ChannelSpec
=============================================================================
