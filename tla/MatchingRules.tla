---------------------------- MODULE MatchingRules ---------------------------
(***************************************************************************)
(* What the exchange promises for each order type (the comments of         *)
(* include/trade.h:20-27), stated without queues, loops or running totals. *)
(* An order is dealt with in one step: every resting order it may trade    *)
(* with gets what the orders ahead of it have left of the volume.          *)
(***************************************************************************)
EXTENDS Integers, FiniteSets

CONSTANTS
  Orders,      \* the orders that may arrive: dir, type, price, volume
  NumOrders,   \* how many arrive
  HookedIds,   \* the ones a hook may drop
  MinPrice, MaxPrice,
  BestLevels

VARIABLES
  arrived,  \* number of orders dealt with
  resting,  \* per direction, the orders waiting for a counterparty
  trades    \* the trades made; an order trades at most once with another

vars == <<arrived, resting, trades>>

-----------------------------------------------------------------------------

CounterSide(o) == IF o.dir = "Bid" THEN "Ask" ELSE "Bid"

BetterPrice(side, p, q) == IF side = "Bid" THEN p > q ELSE p < q

\* Price-time priority on one side.
AheadOf(side, x, y) ==
  \/ BetterPrice(side, x.price, y.price)
  \/ x.price = y.price /\ x.order_id < y.order_id

BestPrice(side) ==
  CHOOSE p \in {x.price : x \in resting[side]} :
    \A x \in resting[side] : ~BetterPrice(side, x.price, p)

\* The volume of a set of orders: its shares are counted.
Volume(S) == Cardinality(UNION {{x} \X (1..x.volume) : x \in S})

\* The orders that o may trade at price p or better.
AtOrBetter(o, p) ==
  {r \in resting[CounterSide(o)] : ~BetterPrice(CounterSide(o), p, r.price)}

\* The counter orders that have fewer than BestLevels price levels ahead.
OnBestLevels(o) ==
  LET C == resting[CounterSide(o)]
      LevelsAhead(r) ==
        {x.price : x \in {y \in C : BetterPrice(CounterSide(o), y.price, r.price)}}
  IN  {r \in C : Cardinality(LevelsAhead(r)) < BestLevels}

\* Which resting orders o may trade with.
Candidates(o) ==
  LET C == resting[CounterSide(o)]
  IN  CASE o.type = "Limit" ->
             IF o.price \in MinPrice..MaxPrice THEN AtOrBetter(o, o.price) ELSE {}
        [] o.type = "CounterBest" ->
             {r \in C : r.price = BestPrice(CounterSide(o))}
        [] o.type = "ClientBest" -> {}
        [] o.type = "BestFive" -> OnBestLevels(o)
        [] o.type = "FAK" -> C
        [] o.type = "FOK" -> IF Volume(C) >= o.volume THEN C ELSE {}

\* What the resting order r gets of o.
Fill(o, r) ==
  LET ahead == {x \in Candidates(o) : AheadOf(CounterSide(o), x, r)}
      left == o.volume - Volume(ahead)
  IN  IF left <= 0 THEN 0 ELSE IF left < r.volume THEN left ELSE r.volume

\* What o gets: everything there is for it, up to its volume.
Filled(o) ==
  LET offered == Volume(Candidates(o))
  IN  IF offered < o.volume THEN offered ELSE o.volume

\* The price at which the rest of o stays in the book, if it stays at all.
RestingPrices(o) ==
  CASE o.type = "Limit" -> {o.price} \cap MinPrice..MaxPrice
    [] o.type = "CounterBest" ->
         IF resting[CounterSide(o)] = {} THEN {} ELSE {BestPrice(CounterSide(o))}
    [] o.type = "ClientBest" ->
         IF resting[o.dir] = {} THEN {} ELSE {BestPrice(o.dir)}
    [] OTHER -> {}

Rest(o, id) ==
  {[order_id |-> id, price |-> p, volume |-> o.volume - Filled(o)] :
     p \in {q \in RestingPrices(o) : o.volume > Filled(o)}}

Reduced(o) ==
  LET C == resting[CounterSide(o)]
      Left(r) == IF r \in Candidates(o) THEN r.volume - Fill(o, r) ELSE r.volume
  IN  {[r EXCEPT !.volume = Left(r)] : r \in {x \in C : Left(x) > 0}}

TradesOf(o, id) ==
  {[bid_id |-> IF o.dir = "Bid" THEN id ELSE r.order_id,
    ask_id |-> IF o.dir = "Bid" THEN r.order_id ELSE id,
    price |-> r.price, volume |-> Fill(o, r)] :
     r \in {x \in Candidates(o) : Fill(o, x) > 0}}

-----------------------------------------------------------------------------

Init ==
  /\ arrived = 0
  /\ resting = [d \in {"Bid", "Ask"} |-> {}]
  /\ trades = {}

\* The order is matched and what may stay of it stays.
Submit(o) ==
  /\ arrived' = arrived + 1
  /\ resting' = [resting EXCEPT ![CounterSide(o)] = Reduced(o),
                                ![o.dir] = @ \cup Rest(o, arrived')]
  /\ trades' = trades \cup TradesOf(o, arrived')

\* The order is dropped by its hook.
Drop ==
  /\ arrived' = arrived + 1
  /\ arrived' \in HookedIds
  /\ UNCHANGED <<resting, trades>>

Next ==
  /\ arrived < NumOrders
  /\ (\E o \in Orders : Submit(o)) \/ Drop

Spec == Init /\ [][Next]_vars
=============================================================================
