----------------------------- MODULE OrderStreams ---------------------------
(***************************************************************************)
(* One stock on both traders: process_stock (trader.cpp) encodes the       *)
(* trader's own orders for both of them and merges the two streams by      *)
(* order id (OrderMerger, include/processor.h).  A stream of orders        *)
(* reaches a trader bit by bit and in order (theorem BitsInOrder, run      *)
(* codec_widths), its own one at once; of the other one a growing part has *)
(* arrived.                                                                *)
(*                                                                         *)
(* The two data files divide the order ids among the traders: the contest  *)
(* generates them so, and nothing in the code tests it.                    *)
(***************************************************************************)
EXTENDS Integers, Sequences, FiniteSets

CONSTANTS
  NumOrders  \* order ids of a stock: 2 * NR_ORDERS_SINGLE_STK_HALF

Traders == {0, 1}
Ids == 1..NumOrders

ASSUME StreamAssumption == NumOrders \in Nat

VARIABLES
  owner,    \* which trader's files hold each order id
  pc,       \* per trader, where its thread for the stock is
  current,  \* per trader, ids passed: by the encoding loop, then by the merger
  stream,   \* per trader, the orders it has encoded
  arrived,  \* per trader, how many orders of the other one have come in
  local,    \* per trader, orders its local decoder has returned
  remote,   \* per trader, orders its remote decoder has returned
  done      \* per trader, the orders its Processor was given

vars == <<owner, pc, current, stream, arrived, local, remote, done>>

Peer(t) == 1 - t

\* order_id_pos[id - 1] # -1
IsOwn(t, id) == owner[id] = t

-----------------------------------------------------------------------------

\* The loop over pos: an own order is encoded; Tee gives its packets to the
\* network and to the local queue.
Encode(t) ==
  /\ pc[t] = "encode"
  /\ current[t] < NumOrders
  /\ current' = [current EXCEPT ![t] = @ + 1]
  /\ stream' = IF IsOwn(t, current[t] + 1)
               THEN [stream EXCEPT ![t] = Append(@, current[t] + 1)]
               ELSE stream
  /\ UNCHANGED <<owner, pc, arrived, local, remote, done>>

\* encoder.flush(); the merger starts with a counter of its own.
StartMerging(t) ==
  /\ pc[t] = "encode"
  /\ current[t] = NumOrders
  /\ pc' = [pc EXCEPT ![t] = "merge"]
  /\ current' = [current EXCEPT ![t] = 0]
  /\ UNCHANGED <<owner, stream, arrived, local, remote, done>>

\* Another order of the peer is complete at trader t.
Arrive(t) ==
  /\ arrived[t] < Len(stream[Peer(t)])
  /\ arrived' = [arrived EXCEPT ![t] = @ + 1]
  /\ UNCHANGED <<owner, pc, current, stream, local, remote, done>>

\* Mistake: the mask is read at the place of the order before.
LateMask(t) == IsOwn(t, IF current[t] = 0 THEN 1 ELSE current[t])

\* mask[current++] # -1
TakesLocal(t) == IsOwn(t, current[t] + 1)

\* Mistake: the merger waits for both decoders before it looks at its mask.
WaitsForBoth(t) == remote[t] < arrived[t] /\ local[t] < Len(stream[t])

\* The decoder the mask names has an order.
Available(t) ==
  IF TakesLocal(t) THEN local[t] < Len(stream[t]) ELSE remote[t] < arrived[t]

\* OrderMerger::next, and the order goes to Processor::process.
Merge(t) ==
  /\ pc[t] = "merge"
  /\ current[t] < NumOrders
  /\ Available(t)
  /\ current' = [current EXCEPT ![t] = @ + 1]
  /\ IF TakesLocal(t)
     THEN /\ done' = [done EXCEPT ![t] = Append(@, stream[t][local[t] + 1])]
          /\ local' = [local EXCEPT ![t] = @ + 1]
          /\ UNCHANGED remote
     ELSE /\ done' = [done EXCEPT ![t] = Append(@, stream[Peer(t)][remote[t] + 1])]
          /\ remote' = [remote EXCEPT ![t] = @ + 1]
          /\ UNCHANGED local
  /\ UNCHANGED <<owner, pc, stream, arrived>>

\* The mask is used up.
Finish(t) ==
  /\ pc[t] = "merge"
  /\ current[t] = NumOrders
  /\ pc' = [pc EXCEPT ![t] = "finished"]
  /\ UNCHANGED <<owner, current, stream, arrived, local, remote, done>>

Init ==
  /\ owner \in [Ids -> Traders]
  /\ pc = [t \in Traders |-> "encode"]
  /\ current = [t \in Traders |-> 0]
  /\ stream = [t \in Traders |-> <<>>]
  /\ arrived = [t \in Traders |-> 0]
  /\ local = [t \in Traders |-> 0]
  /\ remote = [t \in Traders |-> 0]
  /\ done = [t \in Traders |-> <<>>]

Step(t) == Encode(t) \/ StartMerging(t) \/ Merge(t) \/ Finish(t)

Next == \E t \in Traders : Step(t) \/ Arrive(t)

Spec == Init /\ [][Next]_vars

\* Both threads run, and what was sent arrives.
FairSpec == Spec /\ \A t \in Traders : WF_vars(Step(t)) /\ WF_vars(Arrive(t))

-----------------------------------------------------------------------------
(* Properties.                                                             *)

\* Types; a decoder returns no more than has come in.
TypeOK ==
  /\ owner \in [Ids -> Traders]
  /\ pc \in [Traders -> {"encode", "merge", "finished"}]
  /\ current \in [Traders -> 0..NumOrders]
  /\ stream \in [Traders -> Seq(Ids)]
  /\ arrived \in [Traders -> 0..NumOrders]
  /\ local \in [Traders -> 0..NumOrders]
  /\ remote \in [Traders -> 0..NumOrders]
  /\ done \in [Traders -> Seq(Ids)]
  /\ \A t \in Traders :
       remote[t] <= arrived[t] /\ arrived[t] <= Len(stream[Peer(t)])

\* Both traders give their engines the same orders in the same sequence, that
\* of the order ids, however the ids are divided and however far each one is
\* (processor.h:10-28): the number Processor counts is the order's id.
SameOrders ==
  \A t \in Traders : \A i \in DOMAIN done[t] : done[t][i] = i

\* Both finish with all orders processed: neither waits for the other in a
\* circle, because each has encoded everything before it decodes.
BothFinish == <>(\A t \in Traders : pc[t] = "finished" /\ Len(done[t]) = NumOrders)
=============================================================================
