---------------------------- MODULE PacketChannel ---------------------------
(***************************************************************************)
(* What the network promises to the two traders: whatever one sends        *)
(* reaches the other one in any order, at most once, or is lost.           *)
(***************************************************************************)
EXTENDS Packets

CONSTANTS Traders

VARIABLES unsent, transit, arrived, lost  \* per sending trader, packets

channelVars == <<unsent, transit, arrived, lost>>

Submit(t) ==
  /\ \E p \in unsent[t] :
       /\ unsent' = [unsent EXCEPT ![t] = @ \ {p}]
       /\ transit' = [transit EXCEPT ![t] = @ \cup {p}]
  /\ UNCHANGED <<arrived, lost>>

Arrive(t) ==
  /\ \E p \in transit[t] :
       /\ transit' = [transit EXCEPT ![t] = @ \ {p}]
       /\ arrived' = [arrived EXCEPT ![t] = @ \cup {p}]
  /\ UNCHANGED <<unsent, lost>>

\* A broken connection may take several packets with it, of both traders.
Lose ==
  /\ \E gone \in [Traders -> SUBSET Packets] :
       /\ \A t \in Traders : gone[t] \subseteq transit[t]
       /\ transit' = [t \in Traders |-> transit[t] \ gone[t]]
       /\ lost' = [t \in Traders |-> lost[t] \cup gone[t]]
  /\ UNCHANGED <<unsent, arrived>>

ChannelInit ==
  /\ unsent = [t \in Traders |-> {p \in Packets : p.from = t}]
  /\ transit = [t \in Traders |-> {}]
  /\ arrived = [t \in Traders |-> {}]
  /\ lost = [t \in Traders |-> {}]

ChannelNext == Lose \/ \E t \in Traders : Submit(t) \/ Arrive(t)

ChannelSpec == ChannelInit /\ [][ChannelNext]_channelVars
=============================================================================
