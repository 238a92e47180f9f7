------------------------------ MODULE Matching ------------------------------
(***************************************************************************)
(* The matching engine of one stock: class Processor (include/processor.h, *)
(* src/processor.cpp) together with the trade array of its Persister.      *)
(*                                                                         *)
(* One call of Processor::process is a sequence of steps: Process is the   *)
(* part up to the first iteration of a matching loop (the hook filter, the *)
(* dispatch on the order type and every early return), MatchTop is one     *)
(* iteration of the loop and EndSweep is the loop exit.  An iteration is a *)
(* step of its own because commit() publishes the trade: it resolves the   *)
(* hook promises other stocks wait for and writes the mapped output file.  *)
(*                                                                         *)
(* The two priority queues are sets of resting orders.  The comparators    *)
(* order the elements totally (price, then order id, and ids are unique),  *)
(* so the top of the queue is the one element Before all the others.       *)
(***************************************************************************)
EXTENDS Integers, FiniteSets, Sequences

CONSTANTS
  NumOrders,    \* orders of the stock's day: 2 * NR_ORDERS_SINGLE_STK_HALF
  MaxTradeCnt,  \* Persister::max_trade_cnt, the capacity of the mapped file
  PrevClose,    \* last_price, yesterday's closing price in cents
  Prices,       \* the prices limit orders arrive with
  Volumes,      \* the volumes orders arrive with
  HookedIds,    \* ids of the orders for which the HookChecker holds a future
  BestLevels,   \* price levels a BestFive order may sweep (5 in the code)
  Word,         \* modulus of uint32_t arithmetic (2^32)
  PriceField,   \* modulus of the 22-bit field ComOrder::price
  VolumeField   \* modulus of the 10-bit field ComOrder::volume

ASSUME SizesAssumption ==
  /\ NumOrders \in Nat
  /\ MaxTradeCnt \in Nat
  /\ BestLevels \in Nat \ {0}
  /\ HookedIds \subseteq 1..NumOrders

ASSUME WidthsAssumption ==
  /\ Word \in Nat \ {0}
  /\ PriceField \in Nat \ {0}
  /\ VolumeField \in Nat \ {0}
  /\ PrevClose \in 0..(Word - 1)
  /\ Prices \subseteq 0..(Word - 1)
  /\ Volumes \subseteq 0..(VolumeField - 1)  \* get_bits(10) of the decoder

VARIABLES
  order_id,  \* Processor::order_id, orders taken from the stream so far
  book,      \* [Bid |-> buy, Ask |-> sell]
  total,     \* [Bid |-> buy_total, Ask |-> sell_total]
  tp,        \* the trades persisted so far: tp[0 .. now_cnt)
  pc,        \* where the stock thread is
  cur        \* locals of the matching loop it runs

vars == <<order_id, book, total, tp, pc, cur>>

-----------------------------------------------------------------------------

Directions == {"Bid", "Ask"}
OrderTypes == {"Limit", "CounterBest", "ClientBest", "BestFive", "FAK", "FOK"}

Opposite(d) == IF d = "Bid" THEN "Ask" ELSE "Bid"

\* What the OrderDecoder returns: only limit orders carry a price.
Orders ==
  [dir : Directions, type : {"Limit"}, price : Prices, volume : Volumes]
    \cup [dir : Directions, type : OrderTypes \ {"Limit"}, price : {0},
          volume : Volumes]

\* max_price and min_price, in uint32_t arithmetic: a closing price of 0
\* makes min_price wrap around.
MaxPrice ==
  LET up == ((PrevClose * 11 + 5) % Word) \div 10
  IN  IF up = PrevClose THEN (up + 1) % Word ELSE up

MinPrice ==
  LET down == ((PrevClose * 9 + 5) % Word) \div 10
  IN  IF down = PrevClose THEN (down - 1) % Word ELSE down

\* The data sets keep every admissible price inside ComOrder's price field.
ASSUME PriceFitsAssumption == MaxPrice < PriceField

ComOrders == [order_id : Nat, price : Nat, volume : Nat]

ComOrder(id, price, volume) ==
  [order_id |-> id, price |-> price % PriceField, volume |-> volume % VolumeField]

Sweep == [dir : Directions, type : {"Limit", "BestFive", "FAK", "FOK"},
          price : Nat, volume : Nat, last_price : Nat, price_count : Nat]

\* The value of cur before the first loop is entered.
NoSweep == [dir |-> "Bid", type |-> "FAK", price |-> 0, volume |-> 0,
            last_price |-> 0, price_count |-> 0]

-----------------------------------------------------------------------------
(* The books.                                                              *)

\* Mistake: the latest order of a price first.
NewestFirst(d, x, y) ==
  IF x.price = y.price THEN x.order_id > y.order_id
  ELSE IF d = "Bid" THEN x.price > y.price ELSE x.price < y.price

\* ComOrder::operator< (buy) and ComOrder::operator> (sell): x leaves the
\* queue of side d before y does.
Before(d, x, y) ==
  IF x.price = y.price THEN x.order_id < y.order_id
  ELSE IF d = "Bid" THEN x.price > y.price ELSE x.price < y.price

IsTop(d, t) == t \in book[d] /\ \A x \in book[d] \ {t} : Before(d, t, x)

\* Mistake: the running total is forgotten.
PushUncounted(d, order, volume) ==
  /\ book' = [book EXCEPT ![d] = @ \cup {order}]
  /\ UNCHANGED total

\* push(order) on side d, with the running total of that side.
Push(d, order, volume) ==
  /\ book' = [book EXCEPT ![d] = @ \cup {order}]
  /\ total' = [total EXCEPT ![d] = @ + volume]

\* The trade of the order id with the resting order t on side d, as
\* Persister::persist stores it.
TradeWith(d, id, t, volume) ==
  [bid_id |-> IF d = "Ask" THEN id ELSE t.order_id,
   ask_id |-> IF d = "Ask" THEN t.order_id ELSE id,
   price |-> t.price, volume |-> volume]

-----------------------------------------------------------------------------
(* process(): from the hook filter to an early return or a matching loop.  *)

Return == pc' = "idle" /\ UNCHANGED <<book, total, tp, cur>>

StartSweep(o, type, price) ==
  /\ pc' = "sweep"
  /\ cur' = [dir |-> o.dir, type |-> type, price |-> price, volume |-> o.volume,
             last_price |-> 0, price_count |-> 0]
  /\ UNCHANGED <<book, total, tp>>

\* Mistake: only the lower bound is tested.
BelowLimit(price) == price < MinPrice

OutsideLimits(price) == price < MinPrice \/ price > MaxPrice

ProcessLimit(o, price) ==
  IF OutsideLimits(price) THEN Return ELSE StartSweep(o, "Limit", price)

ProcessCounterBest(o) ==
  \/ book[Opposite(o.dir)] = {} /\ Return
  \/ \E t \in book[Opposite(o.dir)] :
       IsTop(Opposite(o.dir), t) /\ ProcessLimit(o, t.price)

\* The order joins the queue at the best price of its own side, whatever
\* its volume.
ProcessClientBest(o) ==
  \/ book[o.dir] = {} /\ Return
  \/ \E t \in book[o.dir] :
       /\ IsTop(o.dir, t)
       /\ Push(o.dir, ComOrder(order_id', t.price, o.volume), o.volume)
       /\ pc' = "idle"
       /\ UNCHANGED <<tp, cur>>

\* Mistake: the total of the order's own side.
OwnSideShort(o) == total[o.dir] < o.volume

CannotFill(o) == total[Opposite(o.dir)] < o.volume

ProcessFok(o) ==
  IF CannotFill(o) THEN Return ELSE StartSweep(o, "FOK", 0)

Dispatch(o) ==
  \/ o.type = "Limit" /\ ProcessLimit(o, o.price)
  \/ o.type = "CounterBest" /\ ProcessCounterBest(o)
  \/ o.type = "ClientBest" /\ ProcessClientBest(o)
  \/ o.type \in {"BestFive", "FAK"} /\ StartSweep(o, o.type, 0)
  \/ o.type = "FOK" /\ ProcessFok(o)

\* checker.check(++order_id) may drop an order that has a hook: what the
\* future yields is decided by the trades of another stock (HookWait).
Process(o) ==
  /\ pc = "idle"
  /\ order_id < NumOrders
  /\ order_id' = order_id + 1
  /\ \/ order_id' \in HookedIds /\ Return
     \/ Dispatch(o)

-----------------------------------------------------------------------------
(* The matching loops.                                                     *)

Counter == Opposite(cur.dir)

\* process_best_five counts a level whenever the price of the top differs
\* from the last one it saw.
NewLevel(t) == t.price # cur.last_price

\* Mistake: a limit order does not trade at its own price.
StrictlyBetter(t) ==
  CASE cur.type = "Limit" /\ cur.dir = "Bid" -> t.price < cur.price
    [] cur.type = "Limit" /\ cur.dir = "Ask" -> t.price > cur.price
    [] cur.type = "BestFive" -> NewLevel(t) => cur.price_count < BestLevels
    [] OTHER -> TRUE

\* The loop condition on the top of the counter book.

Eligible(t) ==
  CASE cur.type = "Limit" /\ cur.dir = "Bid" -> t.price <= cur.price
    [] cur.type = "Limit" /\ cur.dir = "Ask" -> t.price >= cur.price
    [] cur.type = "BestFive" -> NewLevel(t) => cur.price_count < BestLevels
    [] OTHER -> TRUE

Matched(t) == IF t.volume <= cur.volume THEN t.volume ELSE cur.volume

\* A resting order that is not used up goes back with what is left of it.
LeftOver(t) ==
  IF t.volume <= cur.volume THEN {} ELSE {[t EXCEPT !.volume = @ - cur.volume]}

\* assert(volume > 0) in commit, assert(now_cnt < max_trade_cnt) in persist.
CommitAsserts(volume) == volume > 0 /\ Len(tp) < MaxTradeCnt

Abort == pc' = "aborted" /\ UNCHANGED <<order_id, book, total, tp, cur>>

Commit(t) ==
  /\ tp' = Append(tp, TradeWith(Counter, order_id, t, Matched(t)))
  /\ book' = [book EXCEPT ![Counter] = (@ \ {t}) \cup LeftOver(t)]
  /\ total' = [total EXCEPT ![Counter] = @ - Matched(t)]
  /\ cur' = [cur EXCEPT !.volume = @ - Matched(t),
                        !.last_price = t.price,
                        !.price_count = IF NewLevel(t) THEN @ + 1 ELSE @]
  /\ UNCHANGED <<order_id, pc>>

MatchTop ==
  /\ pc = "sweep"
  /\ cur.volume > 0
  /\ \E t \in book[Counter] :
       /\ IsTop(Counter, t)
       /\ Eligible(t)
       /\ IF CommitAsserts(Matched(t)) THEN Commit(t) ELSE Abort

LoopExits ==
  \/ cur.volume = 0
  \/ book[Counter] = {}
  \/ \E t \in book[Counter] : IsTop(Counter, t) /\ ~Eligible(t)

\* Mistake: a limit order rests whatever is left, also nothing.
RestsAlways == cur.type = "Limit"

\* process_limit rests what is left; the other loops cancel it.
Rests == cur.type = "Limit" /\ cur.volume > 0

EndSweep ==
  /\ pc = "sweep"
  /\ LoopExits
  /\ IF Rests
     THEN Push(cur.dir, ComOrder(order_id, cur.price, cur.volume), cur.volume)
     ELSE UNCHANGED <<book, total>>
  /\ pc' = "idle"
  /\ cur' = NoSweep
  /\ UNCHANGED <<order_id, tp>>

\* The merged stream is exhausted: process_stock leaves its loop.
Finished ==
  pc = "idle" /\ order_id = NumOrders /\ UNCHANGED vars

-----------------------------------------------------------------------------

Init ==
  /\ order_id = 0
  /\ book = [d \in Directions |-> {}]
  /\ total = [d \in Directions |-> 0]
  /\ tp = <<>>
  /\ pc = "idle"
  /\ cur = NoSweep

Next ==
  \/ \E o \in Orders : Process(o)
  \/ MatchTop
  \/ EndSweep
  \/ Finished

Spec == Init /\ [][Next]_vars

-----------------------------------------------------------------------------
(* Properties.                                                             *)

\* The state variables of the Processor keep their types; in particular the
\* unsigned totals never drop below zero (process_* subtract without a test).
TypeOK ==
  /\ order_id \in 0..NumOrders
  /\ book \in [Directions -> SUBSET ComOrders]
  /\ total \in [Directions -> Nat]
  /\ tp \in Seq([bid_id : Nat, ask_id : Nat, price : Nat, volume : Nat])
  /\ pc \in {"idle", "sweep", "aborted"}
  /\ cur \in Sweep

\* No assertion on the matching path ever fails: commit() is never called
\* with volume 0 (src/processor.cpp:253) and the trades of a day always fit
\* the file Persister mapped for them (src/persister.cpp:39).
NeverAborts == pc # "aborted"

\* Two orders that could trade with each other never rest at the same time,
\* whatever mixture of order types built the two queues.
Uncrossed == \A b \in book["Bid"], a \in book["Ask"] : b.price < a.price

\* The shares resting in a set of orders: as many per order as its volume.
Shares(S) == UNION {{o} \X (1..o.volume) : o \in S}

\* buy_total and sell_total, kept by hand in twelve places, are the volume
\* resting in each queue: process_fok decides on them alone.
TotalsMatch == \A d \in Directions : total[d] = Cardinality(Shares(book[d]))

\* Every trade is made within the day's price limits, although only limit
\* orders are tested against them: the others inherit the price of an order
\* that was.
TradesWithinLimits ==
  \A i \in DOMAIN tp : tp[i].price \in MinPrice..MaxPrice

\* trade.h:26, "fill completely or cancel": an FOK order that entered its
\* loop leaves it with nothing to fill.
FillOrKill ==
  [][pc = "sweep" /\ cur.type = "FOK" /\ pc' = "idle" => cur.volume = 0]_vars
=============================================================================
