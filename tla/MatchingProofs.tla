---------------------------- MODULE MatchingProofs --------------------------
(***************************************************************************)
(* Proofs about the matching engine, for every number of orders and every  *)
(* price and volume.  They rest on one inductive invariant, IInv; that the *)
(* Processor implements MatchingRules takes a second one, Followed.        *)
(***************************************************************************)
EXTENDS MatchingRefines, FiniteSetTheorems, TLAPS

-----------------------------------------------------------------------------
(* Counting shares.                                                        *)

\* An interval of integers has as many elements as its ends say.
LEMMA IntervalSize ==
  ASSUME NEW n \in Nat
  PROVE  IsFiniteSet(1..n) /\ Cardinality(1..n) = n
BY FS_Interval

\* An order that is not in S adds its volume to the shares of S.
LEMMA SharesAdd ==
  ASSUME NEW S \in SUBSET ComOrders, NEW x \in ComOrders, x \notin S,
         IsFiniteSet(Shares(S))
  PROVE  /\ IsFiniteSet(Shares(S \cup {x}))
         /\ Cardinality(Shares(S \cup {x})) = Cardinality(Shares(S)) + x.volume
<1> DEFINE X == {x} \X (1..x.volume)
<1>1. x.volume \in Nat
  BY DEF ComOrders
<1>2. IsFiniteSet({x}) /\ Cardinality({x}) = 1
  BY FS_Singleton
<1>3. IsFiniteSet(1..x.volume) /\ Cardinality(1..x.volume) = x.volume
  BY <1>1, IntervalSize
<1>4. IsFiniteSet(X) /\ Cardinality(X) = x.volume
  <2>1. /\ IsFiniteSet(X)
        /\ Cardinality(X) = Cardinality({x}) * Cardinality(1..x.volume)
    BY <1>2, <1>3, FS_Product
  <2>2. Cardinality(X) = 1 * x.volume
    BY <1>2, <1>3, <2>1
  <2> QED BY <2>1, <2>2, <1>1
<1>5. Shares(S \cup {x}) = Shares(S) \cup X
  BY DEF Shares
<1>6. Shares(S) \cap X = {}
  BY DEF Shares
<1>7. Cardinality(Shares(S) \cap X) = 0
  BY <1>6, FS_EmptySet
<1>8. Cardinality(Shares(S)) \in Nat
  BY FS_CardinalityType
<1> HIDE DEF X
<1>9. /\ IsFiniteSet(Shares(S) \cup X)
      /\ Cardinality(Shares(S) \cup X) =
           Cardinality(Shares(S)) + Cardinality(X) - Cardinality(Shares(S) \cap X)
  BY <1>4, FS_Union
<1>10. Cardinality(Shares(S) \cup X) = Cardinality(Shares(S)) + x.volume
  BY <1>1, <1>4, <1>7, <1>8, <1>9
<1> QED BY <1>5, <1>9, <1>10

\* Taking an order out of S takes its volume from the shares of S.
LEMMA SharesRemove ==
  ASSUME NEW S \in SUBSET ComOrders, NEW x \in S, IsFiniteSet(Shares(S))
  PROVE  /\ IsFiniteSet(Shares(S \ {x}))
         /\ Cardinality(Shares(S \ {x})) = Cardinality(Shares(S)) - x.volume
<1>1. Shares(S \ {x}) \subseteq Shares(S)
  BY DEF Shares
<1>2. IsFiniteSet(Shares(S \ {x}))
  BY <1>1, FS_Subset
<1>3. (S \ {x}) \cup {x} = S
  OBVIOUS
<1>4. Cardinality(Shares(S)) = Cardinality(Shares(S \ {x})) + x.volume
  BY <1>2, <1>3, SharesAdd
<1>5. Cardinality(Shares(S \ {x})) \in Nat /\ x.volume \in Nat
  BY <1>2, FS_CardinalityType DEF ComOrders
<1> QED BY <1>2, <1>4, <1>5

-----------------------------------------------------------------------------
(* One queue.                                                              *)

\* The elements of a priority queue: finitely many, each with an id of its
\* own among the first n.
GoodQueue(S, n) ==
  /\ S \in SUBSET ComOrders
  /\ IsFiniteSet(S)
  /\ IsFiniteSet(Shares(S))
  /\ \A x \in S : x.order_id <= n
  /\ \A x, y \in S : x.order_id = y.order_id => x = y

\* push() of an order with a fresh id.
LEMMA QueuePush ==
  ASSUME NEW S, NEW n \in Nat, GoodQueue(S, n),
         NEW x \in ComOrders, x.order_id = n + 1
  PROVE  /\ GoodQueue(S \cup {x}, n + 1)
         /\ Cardinality(S \cup {x}) = Cardinality(S) + 1
         /\ Cardinality(Shares(S \cup {x})) = Cardinality(Shares(S)) + x.volume
<1>1. x \notin S
  BY DEF GoodQueue, ComOrders
<1>2. IsFiniteSet(S \cup {x}) /\ Cardinality(S \cup {x}) = Cardinality(S) + 1
  BY <1>1, FS_AddElement DEF GoodQueue
<1>3. /\ IsFiniteSet(Shares(S \cup {x}))
      /\ Cardinality(Shares(S \cup {x})) = Cardinality(Shares(S)) + x.volume
  BY <1>1, SharesAdd DEF GoodQueue
<1>4. \A y \in S \cup {x} : y.order_id <= n + 1
  BY DEF GoodQueue, ComOrders
<1>5. \A y, z \in S \cup {x} : y.order_id = z.order_id => y = z
  BY DEF GoodQueue, ComOrders
<1> QED BY <1>2, <1>3, <1>4, <1>5 DEF GoodQueue

\* pop() of an order that is used up.
LEMMA QueuePop ==
  ASSUME NEW S, NEW n \in Nat, GoodQueue(S, n), NEW t \in S
  PROVE  /\ GoodQueue(S \ {t}, n)
         /\ Cardinality(S \ {t}) = Cardinality(S) - 1
         /\ Cardinality(Shares(S \ {t})) = Cardinality(Shares(S)) - t.volume
<1>1. IsFiniteSet(S \ {t}) /\ Cardinality(S \ {t}) = Cardinality(S) - 1
  BY FS_RemoveElement DEF GoodQueue
<1>2. /\ IsFiniteSet(Shares(S \ {t}))
      /\ Cardinality(Shares(S \ {t})) = Cardinality(Shares(S)) - t.volume
  BY SharesRemove DEF GoodQueue
<1> QED BY <1>1, <1>2 DEF GoodQueue

\* pop() of an order and push() of what is left of it.
LEMMA QueueReduce ==
  ASSUME NEW S, NEW n \in Nat, GoodQueue(S, n), NEW t \in S,
         NEW v \in Nat, v < t.volume
  PROVE  LET u == [t EXCEPT !.volume = @ - v]
             R == (S \ {t}) \cup {u}
         IN  /\ GoodQueue(R, n)
             /\ Cardinality(R) = Cardinality(S)
             /\ Cardinality(Shares(R)) = Cardinality(Shares(S)) - v
<1> DEFINE u == [t EXCEPT !.volume = @ - v]
           R == (S \ {t}) \cup {u}
<1>1. t \in ComOrders /\ u \in ComOrders
  BY DEF GoodQueue, ComOrders
<1>2. u.order_id = t.order_id /\ u.volume = t.volume - v
  BY <1>1 DEF ComOrders
<1>3. u \notin S \ {t}
  BY <1>2, <1>1 DEF GoodQueue, ComOrders
<1>4. /\ GoodQueue(S \ {t}, n)
      /\ Cardinality(S \ {t}) = Cardinality(S) - 1
      /\ Cardinality(Shares(S \ {t})) = Cardinality(Shares(S)) - t.volume
  BY QueuePop
<1> HIDE DEF u
<1>5. IsFiniteSet(R) /\ Cardinality(R) = Cardinality(S \ {t}) + 1
  BY <1>3, <1>4, FS_AddElement DEF GoodQueue
<1>6. /\ IsFiniteSet(Shares(R))
      /\ Cardinality(Shares(R)) = Cardinality(Shares(S \ {t})) + u.volume
  BY <1>1, <1>3, <1>4, SharesAdd DEF GoodQueue
<1>7. Cardinality(S) \in Nat /\ Cardinality(Shares(S)) \in Nat
  BY FS_CardinalityType DEF GoodQueue
<1>8. Cardinality(R) = Cardinality(S)
  BY <1>4, <1>5, <1>7
<1>9. Cardinality(Shares(R)) = Cardinality(Shares(S)) - v
  <2>1. t.volume \in Nat
    BY <1>1 DEF ComOrders
  <2> QED BY <1>2, <1>4, <1>6, <1>7, <2>1
<1>10. \A x \in R : x.order_id <= n
  BY <1>2 DEF GoodQueue
<1>11. \A x, y \in R : x.order_id = y.order_id => x = y
  BY <1>2 DEF GoodQueue
<1>12. R \in SUBSET ComOrders
  BY <1>1 DEF GoodQueue
<1> QED BY <1>5, <1>6, <1>8, <1>9, <1>10, <1>11, <1>12 DEF GoodQueue, u

\* The bound on ids may grow.
LEMMA QueueBound ==
  ASSUME NEW S, NEW m \in Nat, NEW n \in Nat, m <= n, GoodQueue(S, m)
  PROVE  GoodQueue(S, n)
BY DEF GoodQueue, ComOrders

-----------------------------------------------------------------------------
(* The inductive invariant.                                                *)

\* While an order is being matched it is not in the books yet.
LastRested == IF pc = "sweep" THEN order_id - 1 ELSE order_id

QueuesGood == \A d \in Directions : GoodQueue(book[d], LastRested)

RestingWithinLimits ==
  \A d \in Directions : \A x \in book[d] : x.price \in MinPrice..MaxPrice

\* Every trade uses up one of the orders that arrived, and an order that
\* rests or is still being matched is not used up yet.
Pending == IF pc = "sweep" /\ cur.volume > 0 THEN 1 ELSE 0

SlotsLeft ==
  Len(tp) + Cardinality(book["Bid"]) + Cardinality(book["Ask"]) + Pending
    <= order_id

\* The locals of a matching loop: the order was counted, fits the fields of
\* a ComOrder, passed the limits, and an FOK order has enough to trade with.
SweepSound ==
  /\ cur.volume < VolumeField
  /\ pc = "sweep" =>
       /\ order_id > 0
       /\ cur.type = "Limit" => cur.price \in MinPrice..MaxPrice
       /\ cur.type = "FOK" => cur.volume <= total[Counter]

IInv ==
  /\ TypeOK
  /\ QueuesGood
  /\ TotalsMatch
  /\ RestingWithinLimits
  /\ TradesWithinLimits
  /\ SlotsLeft
  /\ SweepSound
  /\ Uncrossed

-----------------------------------------------------------------------------
(* Arithmetic of the fields.                                               *)

\* The limit prices are naturals.
LEMMA LimitsType == MinPrice \in Nat /\ MaxPrice \in Nat
<1>1. PrevClose \in Nat /\ Word \in Nat \ {0}
  BY WidthsAssumption
<1>2. \A k \in Int : k % Word \in Nat
  BY <1>1
<1>3. \A k \in Nat : k \div 10 \in Nat
  OBVIOUS
<1>4. ((PrevClose * 11 + 5) % Word) \div 10 \in Nat
  BY <1>1, <1>2, <1>3
<1>5. ((PrevClose * 9 + 5) % Word) \div 10 \in Nat
  BY <1>1, <1>2, <1>3
<1> QED BY <1>2, <1>4, <1>5 DEF MinPrice, MaxPrice

\* A value below the width is stored as it is.
LEMMA ModSmall ==
  ASSUME NEW n \in Nat, NEW k \in 0..(n - 1)
  PROVE  k % n = k
OBVIOUS

\* A volume and an admissible price survive being stored in the bit fields.
LEMMA ComOrderFits ==
  ASSUME NEW id \in Nat, NEW p \in MinPrice..MaxPrice,
         NEW v \in Nat, v < VolumeField
  PROVE  /\ ComOrder(id, p, v) = [order_id |-> id, price |-> p, volume |-> v]
         /\ ComOrder(id, p, v) \in ComOrders
<1>1. p \in 0..(PriceField - 1)
  BY LimitsType, PriceFitsAssumption, WidthsAssumption
<1>2. p % PriceField = p
  BY <1>1, ModSmall, WidthsAssumption
<1>3. v % VolumeField = v
  BY ModSmall, WidthsAssumption
<1> QED BY <1>1, <1>2, <1>3 DEF ComOrder, ComOrders

\* What the fields of an order are.
LEMMA OrderFields ==
  ASSUME NEW o \in Orders
  PROVE  /\ o.dir \in Directions
         /\ o.type \in OrderTypes
         /\ o.price \in Nat
         /\ o.volume \in Nat /\ o.volume < VolumeField
<1>1. o.volume \in Volumes
  BY DEF Orders
<1>2. o.price \in Prices \cup {0}
  BY DEF Orders
<1>3. /\ Volumes \subseteq 0..(VolumeField - 1) /\ Prices \subseteq 0..(Word - 1)
      /\ VolumeField \in Nat /\ Word \in Nat
  BY WidthsAssumption
<1>4. o.volume \in 0..(VolumeField - 1)
  BY <1>1, <1>3, Zenon
<1>5. o.price \in 0..(Word - 1) \/ o.price = 0
  BY <1>2, <1>3, Zenon
<1>6. o.dir \in Directions /\ o.type \in OrderTypes
  BY DEF Orders, OrderTypes
<1> QED BY <1>3, <1>4, <1>5, <1>6

-----------------------------------------------------------------------------
(* The first step of process().                                            *)

\* An empty book satisfies the invariant.
LEMMA InitInv == Init => IInv
<1> SUFFICES ASSUME Init PROVE IInv
  OBVIOUS
<1> USE DEF Init, Directions
<1>1. TypeOK
  BY SizesAssumption DEF TypeOK, NoSweep, Sweep, ComOrders
<1>2. Shares({}) = {}
  BY DEF Shares
<1>3. IsFiniteSet({}) /\ Cardinality({}) = 0
  BY FS_EmptySet
<1>4. QueuesGood
  BY <1>2, <1>3 DEF QueuesGood, GoodQueue
<1>5. TotalsMatch
  BY <1>2, <1>3 DEF TotalsMatch
<1>6. SlotsLeft
  BY <1>3 DEF SlotsLeft, Pending
<1>7. SweepSound
  BY WidthsAssumption DEF SweepSound, NoSweep
<1> QED BY <1>1, <1>4, <1>5, <1>6, <1>7
  DEF IInv, RestingWithinLimits, TradesWithinLimits, Uncrossed

\* The order is dropped or refused.
LEMMA ReturnInv ==
  ASSUME IInv, pc = "idle", order_id < NumOrders, order_id' = order_id + 1, Return
  PROVE  IInv'
<1> USE DEF Return
<1>1. order_id \in Nat /\ order_id' \in 0..NumOrders /\ order_id' \in Nat
  BY SizesAssumption DEF IInv, TypeOK
<1>2. TypeOK'
  BY <1>1 DEF IInv, TypeOK
<1>3. QueuesGood'
  BY <1>1, QueueBound DEF IInv, QueuesGood, LastRested
<1>4. SlotsLeft'
  <2>1. Pending' = Pending
    BY DEF Pending
  <2>2. /\ Len(tp) \in Nat
        /\ Cardinality(book["Bid"]) \in Nat /\ Cardinality(book["Ask"]) \in Nat
    BY FS_CardinalityType DEF IInv, TypeOK, QueuesGood, GoodQueue, Directions
  <2> QED BY <1>1, <2>1, <2>2 DEF IInv, SlotsLeft, Pending
<1>5. SweepSound'
  BY DEF IInv, SweepSound
<1> QED BY <1>2, <1>3, <1>4, <1>5
  DEF IInv, TotalsMatch, RestingWithinLimits, TradesWithinLimits, Uncrossed

\* A matching loop is entered.
LEMMA StartSweepInv ==
  ASSUME IInv, pc = "idle", order_id < NumOrders, order_id' = order_id + 1,
         NEW o \in Orders, NEW type \in {"Limit", "BestFive", "FAK", "FOK"},
         NEW price \in Nat, StartSweep(o, type, price),
         type = "Limit" => price \in MinPrice..MaxPrice,
         type = "FOK" => o.volume <= total[Opposite(o.dir)]
  PROVE  IInv'
<1> USE DEF StartSweep
<1>1. order_id \in Nat /\ order_id' \in 0..NumOrders /\ order_id' \in Nat
  BY SizesAssumption DEF IInv, TypeOK
<1>2. TypeOK'
  BY <1>1, OrderFields DEF IInv, TypeOK, Sweep
<1>3. QueuesGood'
  BY <1>1 DEF IInv, QueuesGood, LastRested
<1>4. SlotsLeft'
  <2>1. Pending' \in 0..1 /\ Pending = 0
    BY DEF Pending
  <2>2. /\ Len(tp) \in Nat
        /\ Cardinality(book["Bid"]) \in Nat /\ Cardinality(book["Ask"]) \in Nat
    BY FS_CardinalityType DEF IInv, TypeOK, QueuesGood, GoodQueue, Directions
  <2> QED BY <1>1, <2>1, <2>2 DEF IInv, SlotsLeft
<1>5. SweepSound'
  BY <1>1, OrderFields DEF SweepSound, Counter
<1> QED BY <1>2, <1>3, <1>4, <1>5
  DEF IInv, TotalsMatch, RestingWithinLimits, TradesWithinLimits, Uncrossed
-----------------------------------------------------------------------------
(* An order joins the queue of side d.                                     *)

Resting == Cardinality(book["Bid"]) + Cardinality(book["Ask"])

\* The size of a queue is a natural, and so is the number of resting orders.
LEMMA RestingType ==
  ASSUME NEW n \in Nat, \A d \in Directions : GoodQueue(book[d], n)
  PROVE  /\ Cardinality(book["Bid"]) \in Nat /\ Cardinality(book["Ask"]) \in Nat
         /\ Resting \in Nat
<1>1. \A d \in Directions : Cardinality(book[d]) \in Nat
  BY FS_CardinalityType DEF GoodQueue
<1> QED BY <1>1 DEF Resting, Directions

\* Putting an order that is good for its queue into it keeps the book sound.
LEMMA PushSound ==
  ASSUME TypeOK, TotalsMatch, RestingWithinLimits,
         NEW n \in Nat, \A d \in Directions : GoodQueue(book[d], n),
         NEW d \in Directions, NEW p \in MinPrice..MaxPrice,
         NEW v \in Nat, v < VolumeField,
         Push(d, ComOrder(n + 1, p, v), v)
  PROVE  /\ book' \in [Directions -> SUBSET ComOrders]
         /\ total' \in [Directions -> Nat]
         /\ book' = [book EXCEPT ![d] =
                       @ \cup {[order_id |-> n + 1, price |-> p, volume |-> v]}]
         /\ \A e \in Directions : GoodQueue(book'[e], n + 1)
         /\ TotalsMatch'
         /\ RestingWithinLimits'
         /\ Resting' = Resting + 1
<1> DEFINE x == [order_id |-> n + 1, price |-> p, volume |-> v]
<1>1. ComOrder(n + 1, p, v) = x /\ x \in ComOrders
  BY ComOrderFits
<1>2. book' = [book EXCEPT ![d] = @ \cup {x}] /\ total' = [total EXCEPT ![d] = @ + v]
  BY <1>1 DEF Push
<1>3. x.order_id = n + 1 /\ x.price = p /\ x.volume = v
  OBVIOUS
<1> HIDE DEF x
<1>4. /\ book \in [Directions -> SUBSET ComOrders]
      /\ total \in [Directions -> Nat]
  BY DEF TypeOK
<1>5. book'[d] = book[d] \cup {x} /\ total'[d] = total[d] + v
  BY <1>2, <1>4
<1>6. \A e \in Directions \ {d} : book'[e] = book[e] /\ total'[e] = total[e]
  BY <1>2, <1>4
<1>7. /\ GoodQueue(book'[d], n + 1)
      /\ Cardinality(book'[d]) = Cardinality(book[d]) + 1
      /\ Cardinality(Shares(book'[d])) = Cardinality(Shares(book[d])) + v
  BY <1>1, <1>3, <1>5, QueuePush
<1>8. \A e \in Directions : GoodQueue(book'[e], n + 1)
  BY <1>6, <1>7, QueueBound
<1>9. TotalsMatch'
  BY <1>5, <1>6, <1>7 DEF TotalsMatch
<1>10. RestingWithinLimits'
  BY <1>3, <1>5, <1>6 DEF RestingWithinLimits
<1>11. Resting' = Resting + 1
  <2>1. Cardinality(book["Bid"]) \in Nat /\ Cardinality(book["Ask"]) \in Nat
    BY RestingType
  <2>2. CASE d = "Bid"
    BY <1>6, <1>7, <2>1, <2>2 DEF Resting, Directions
  <2>3. CASE d = "Ask"
    BY <1>6, <1>7, <2>1, <2>3 DEF Resting, Directions
  <2> QED BY <2>2, <2>3 DEF Directions
<1>12. book' \in [Directions -> SUBSET ComOrders] /\ total' \in [Directions -> Nat]
  BY <1>1, <1>2, <1>4
<1> QED BY <1>2, <1>8, <1>9, <1>10, <1>11, <1>12 DEF x

\* A ClientBest order joins its side at the best price there.
LEMMA ClientBestInv ==
  ASSUME IInv, pc = "idle", order_id < NumOrders, order_id' = order_id + 1,
         NEW o \in Orders, ProcessClientBest(o)
  PROVE  IInv'
<1>1. CASE book[o.dir] = {} /\ Return
  BY <1>1, ReturnInv
<1>2. ASSUME NEW t \in book[o.dir],
             Push(o.dir, ComOrder(order_id', t.price, o.volume), o.volume),
             pc' = "idle", UNCHANGED <<tp, cur>>
      PROVE  IInv'
  <2>1. order_id \in Nat /\ order_id' \in 0..NumOrders /\ order_id' \in Nat
    BY SizesAssumption DEF IInv, TypeOK
  <2>2. /\ o.dir \in Directions /\ o.volume \in Nat /\ o.volume < VolumeField
    BY OrderFields
  <2>3. t.price \in MinPrice..MaxPrice
    BY <2>2 DEF IInv, RestingWithinLimits
  <2>4. \A d \in Directions : GoodQueue(book[d], order_id)
    BY DEF IInv, QueuesGood, LastRested
  <2>5. DEFINE x == [order_id |-> order_id + 1, price |-> t.price, volume |-> o.volume]
  <2>6. /\ book' \in [Directions -> SUBSET ComOrders]
        /\ total' \in [Directions -> Nat]
        /\ book' = [book EXCEPT ![o.dir] = @ \cup {x}]
        /\ \A e \in Directions : GoodQueue(book'[e], order_id + 1)
        /\ TotalsMatch'
        /\ RestingWithinLimits'
        /\ Resting' = Resting + 1
    BY <1>2, <2>1, <2>2, <2>3, <2>4, PushSound DEF IInv
  <2>7. TypeOK'
    BY <1>2, <2>1, <2>6 DEF IInv, TypeOK
  <2>8. QueuesGood'
    BY <1>2, <2>6 DEF QueuesGood, LastRested
  <2>9. TradesWithinLimits' /\ SweepSound'
    BY <1>2 DEF IInv, TradesWithinLimits, SweepSound
  <2>10. SlotsLeft'
    <3>1. Resting \in Nat /\ Cardinality(book["Bid"]) \in Nat /\ Cardinality(book["Ask"]) \in Nat
      BY <2>1, <2>4, RestingType
    <3>2. Len(tp) \in Nat
      BY DEF IInv, TypeOK
    <3>3. Len(tp) + Resting <= order_id
      BY <3>1, <3>2 DEF IInv, SlotsLeft, Pending, Resting
    <3>4. Len(tp) + Resting' <= order_id'
      BY <2>1, <2>6, <3>1, <3>2, <3>3
    <3>5. Cardinality(book'["Bid"]) \in Nat /\ Cardinality(book'["Ask"]) \in Nat
      BY <2>6, FS_CardinalityType DEF GoodQueue, Directions
    <3> QED BY <1>2, <3>2, <3>4, <3>5 DEF SlotsLeft, Pending, Resting
  <2>11. Uncrossed'
    <3>1. x.price = t.price
      OBVIOUS
    <3> HIDE DEF x
    <3>2. /\ book'[o.dir] = book[o.dir] \cup {x}
          /\ \A e \in Directions \ {o.dir} : book'[e] = book[e]
      BY <2>2, <2>6 DEF IInv, TypeOK
    <3> QED BY <2>2, <3>1, <3>2 DEF IInv, Uncrossed, Directions
  <2> QED BY <2>6, <2>7, <2>8, <2>9, <2>10, <2>11 DEF IInv
<1> QED BY <1>1, <1>2 DEF ProcessClientBest

\* Taking an order keeps the invariant.
LEMMA ProcessInv ==
  ASSUME IInv, NEW o \in Orders, Process(o)
  PROVE  IInv'
<1>1. pc = "idle" /\ order_id < NumOrders /\ order_id' = order_id + 1
  BY DEF Process
<1>2. o.dir \in Directions /\ o.price \in Nat /\ o.volume \in Nat
  BY OrderFields
<1>3. ASSUME NEW p \in Nat, ProcessLimit(o, p) PROVE IInv'
  <2>1. CASE OutsideLimits(p)
    BY <1>1, <1>3, <2>1, ReturnInv DEF ProcessLimit
  <2>2. CASE ~OutsideLimits(p)
    <3>1. p \in MinPrice..MaxPrice
      BY <2>2, LimitsType DEF OutsideLimits
    <3>2. StartSweep(o, "Limit", p)
      BY <1>3, <2>2 DEF ProcessLimit
    <3> QED BY <1>1, <3>1, <3>2, StartSweepInv
  <2> QED BY <2>1, <2>2
<1>4. CASE order_id' \in HookedIds /\ Return
  BY <1>1, <1>4, ReturnInv
<1>5. CASE Dispatch(o)
  <2>1. CASE o.type = "Limit" /\ ProcessLimit(o, o.price)
    BY <1>2, <1>3, <2>1
  <2>2. CASE ProcessCounterBest(o)
    <3>1. CASE Return
      BY <1>1, <3>1, ReturnInv
    <3>2. ASSUME NEW t \in book[Opposite(o.dir)], ProcessLimit(o, t.price)
          PROVE  IInv'
      <4>1. Opposite(o.dir) \in Directions
        BY DEF Opposite, Directions
      <4>2. t.price \in Nat
        BY <4>1 DEF IInv, TypeOK, ComOrders
      <4> QED BY <1>3, <3>2, <4>2
    <3> QED BY <2>2, <3>1, <3>2 DEF ProcessCounterBest
  <2>3. CASE ProcessClientBest(o)
    BY <1>1, <2>3, ClientBestInv
  <2>4. CASE o.type \in {"BestFive", "FAK"} /\ StartSweep(o, o.type, 0)
    BY <1>1, <2>4, StartSweepInv
  <2>5. CASE ProcessFok(o)
    <3>1. CASE CannotFill(o)
      BY <1>1, <2>5, <3>1, ReturnInv DEF ProcessFok
    <3>2. CASE ~CannotFill(o)
      <4>1. Opposite(o.dir) \in Directions
        BY DEF Opposite, Directions
      <4>2. total[Opposite(o.dir)] \in Nat
        BY <4>1 DEF IInv, TypeOK
      <4>3. o.volume <= total[Opposite(o.dir)]
        BY <1>2, <3>2, <4>2 DEF CannotFill
      <4>4. StartSweep(o, "FOK", 0)
        BY <2>5, <3>2 DEF ProcessFok
      <4> QED BY <1>1, <4>3, <4>4, StartSweepInv
    <3> QED BY <3>1, <3>2
  <2> QED BY <1>5, <2>1, <2>2, <2>3, <2>4, <2>5 DEF Dispatch
<1> QED BY <1>4, <1>5 DEF Process

-----------------------------------------------------------------------------
(* One iteration of a matching loop.                                       *)

\* The elements of a sequence with one more at its end.
LEMMA AppendElements ==
  ASSUME NEW T, NEW s \in Seq(T), NEW x \in T
  PROVE  \A i \in DOMAIN Append(s, x) :
           \/ i \in DOMAIN s /\ Append(s, x)[i] = s[i]
           \/ Append(s, x)[i] = x
OBVIOUS

\* The side an order is matched against is a side.
LEMMA CounterType == Counter \in Directions
BY DEF Counter, Opposite, Directions

\* What commit() does to the counter queue and to its total.
LEMMA CommitQueue ==
  ASSUME IInv, NEW n \in Nat, \A d \in Directions : GoodQueue(book[d], n),
         cur.volume > 0, NEW t \in book[Counter], Commit(t)
  PROVE  /\ book' \in [Directions -> SUBSET ComOrders]
         /\ total' \in [Directions -> Nat]
         /\ \A e \in Directions : GoodQueue(book'[e], n)
         /\ \A e \in Directions : \A x \in book'[e] :
              \E y \in book[e] : x.price = y.price
         /\ TotalsMatch'
         /\ total'[Counter] = total[Counter] - Matched(t)
         /\ Matched(t) \in 0..cur.volume
         /\ \/ Resting' = Resting - 1
            \/ Resting' = Resting /\ cur'.volume = 0
<1> DEFINE S == book[Counter]
           R == (S \ {t}) \cup LeftOver(t)
           m == Matched(t)
<1>1. /\ book \in [Directions -> SUBSET ComOrders]
      /\ total \in [Directions -> Nat]
      /\ cur \in Sweep /\ cur.volume \in Nat
  BY DEF IInv, TypeOK, Sweep
<1>2. t \in ComOrders /\ t.volume \in Nat /\ GoodQueue(S, n)
  BY <1>1, CounterType DEF ComOrders
<1>3. /\ book' = [book EXCEPT ![Counter] = R]
      /\ total' = [total EXCEPT ![Counter] = @ - m]
      /\ cur'.volume = cur.volume - m
  BY <1>1 DEF Commit, Sweep
<1>4. m \in Nat /\ m <= cur.volume
  BY <1>1, <1>2 DEF Matched
<1>5. /\ GoodQueue(R, n)
      /\ Cardinality(Shares(R)) = Cardinality(Shares(S)) - m
      /\ \A x \in R : \E y \in S : x.price = y.price
      /\ \/ Cardinality(R) = Cardinality(S) - 1
         \/ Cardinality(R) = Cardinality(S) /\ m = cur.volume
  <2>1. CASE t.volume <= cur.volume
    <3>1. R = S \ {t} /\ m = t.volume
      BY <2>1 DEF LeftOver, Matched
    <3> QED BY <1>2, <3>1, QueuePop
  <2>2. CASE ~(t.volume <= cur.volume)
    <3>1. /\ R = (S \ {t}) \cup {[t EXCEPT !.volume = @ - cur.volume]}
          /\ m = cur.volume
      BY <2>2 DEF LeftOver, Matched
    <3>2. cur.volume < t.volume
      BY <1>1, <1>2, <2>2
    <3> DEFINE Q == (S \ {t}) \cup {[t EXCEPT !.volume = @ - cur.volume]}
    <3> HIDE DEF S, R, m
    <3>a. /\ GoodQueue(Q, n)
          /\ Cardinality(Q) = Cardinality(S)
          /\ Cardinality(Shares(Q)) = Cardinality(Shares(S)) - cur.volume
      BY <1>1, <1>2, <3>2, QueueReduce DEF S
    <3> HIDE DEF Q
    <3>3. /\ GoodQueue(R, n)
          /\ Cardinality(R) = Cardinality(S)
          /\ Cardinality(Shares(R)) = Cardinality(Shares(S)) - m
      BY <3>1, <3>a DEF Q
    <3> USE DEF S, R, m
    <3>4. \A x \in R : \E y \in S : x.price = y.price
      BY <1>2, <3>1 DEF ComOrders
    <3> QED BY <3>1, <3>3, <3>4
  <2> QED BY <2>1, <2>2
<1> HIDE DEF R, m
<1>6. /\ book'[Counter] = R /\ total'[Counter] = total[Counter] - m
      /\ \A e \in Directions \ {Counter} : book'[e] = book[e] /\ total'[e] = total[e]
  BY <1>1, <1>3, CounterType
<1>7. total[Counter] = Cardinality(Shares(S)) /\ Cardinality(Shares(R)) \in Nat
  BY <1>5, CounterType, FS_CardinalityType DEF IInv, TotalsMatch, GoodQueue
<1>8. TotalsMatch'
  BY <1>5, <1>6, <1>7 DEF IInv, TotalsMatch
<1>9. R \in SUBSET ComOrders /\ total[Counter] - m \in Nat
  BY <1>5, <1>7 DEF GoodQueue
<1>10. book' \in [Directions -> SUBSET ComOrders] /\ total' \in [Directions -> Nat]
  BY <1>1, <1>3, <1>9
<1>11. \A e \in Directions : GoodQueue(book'[e], n)
  BY <1>5, <1>6
<1>12. \A e \in Directions : \A x \in book'[e] : \E y \in book[e] : x.price = y.price
  BY <1>5, <1>6
<1>13. \/ Resting' = Resting - 1
       \/ Resting' = Resting /\ m = cur.volume
  <2>1. Cardinality(book["Bid"]) \in Nat /\ Cardinality(book["Ask"]) \in Nat
    BY RestingType
  <2>2. CASE Counter = "Bid"
    BY <1>5, <1>6, <2>1, <2>2 DEF Resting, Directions
  <2>3. CASE Counter = "Ask"
    BY <1>5, <1>6, <2>1, <2>3 DEF Resting, Directions
  <2> QED BY <2>2, <2>3, CounterType DEF Directions
<1>14. m \in 0..cur.volume
  BY <1>1, <1>4
<1>15. m = cur.volume => cur'.volume = 0
  BY <1>1, <1>3
<1> QED BY <1>6, <1>8, <1>10, <1>11, <1>12, <1>13, <1>14, <1>15 DEF m

\* A trade with the best order of the other side keeps the invariant.
LEMMA MatchTopInv ==
  ASSUME IInv, MatchTop
  PROVE  IInv'
<1>1. pc = "sweep" /\ cur.volume > 0
  BY DEF MatchTop
<1>2. PICK t \in book[Counter] :
        IF CommitAsserts(Matched(t)) THEN Commit(t) ELSE Abort
  BY DEF MatchTop
<1>3. order_id \in Nat /\ order_id - 1 \in Nat
  BY <1>1, SizesAssumption DEF IInv, TypeOK, SweepSound
<1>4. \A d \in Directions : GoodQueue(book[d], order_id - 1)
  BY <1>1 DEF IInv, QueuesGood, LastRested
<1>5. Resting \in Nat /\ Cardinality(book["Bid"]) \in Nat /\ Cardinality(book["Ask"]) \in Nat
  BY <1>3, <1>4, RestingType
<1>6. Len(tp) \in Nat /\ cur \in Sweep /\ cur.volume \in Nat
  BY DEF IInv, TypeOK, Sweep
<1>7. Len(tp) + Resting + 1 <= order_id
  BY <1>1, <1>5, <1>6 DEF IInv, SlotsLeft, Pending, Resting
<1>8. CASE Abort
  <2>1. TypeOK'
    BY <1>8 DEF IInv, TypeOK, Abort
  <2>2. QueuesGood'
    BY <1>3, <1>4, <1>8, QueueBound DEF QueuesGood, LastRested, Abort
  <2>3. SlotsLeft'
    BY <1>3, <1>5, <1>6, <1>7, <1>8 DEF SlotsLeft, Pending, Abort, Resting
  <2>4. SweepSound'
    BY <1>8 DEF IInv, SweepSound, Abort
  <2> QED BY <1>8, <2>1, <2>2, <2>3, <2>4
    DEF IInv, Abort, TotalsMatch, RestingWithinLimits, TradesWithinLimits, Uncrossed
<1>9. CASE Commit(t)
  <2>1. /\ book' \in [Directions -> SUBSET ComOrders]
        /\ total' \in [Directions -> Nat]
        /\ \A e \in Directions : GoodQueue(book'[e], order_id - 1)
        /\ \A e \in Directions : \A x \in book'[e] :
             \E y \in book[e] : x.price = y.price
        /\ TotalsMatch'
        /\ total'[Counter] = total[Counter] - Matched(t)
        /\ Matched(t) \in 0..cur.volume
        /\ \/ Resting' = Resting - 1
           \/ Resting' = Resting /\ cur'.volume = 0
    BY <1>1, <1>3, <1>4, <1>9, CommitQueue
  <2>2. /\ order_id' = order_id /\ pc' = pc
        /\ tp' = Append(tp, TradeWith(Counter, order_id, t, Matched(t)))
        /\ cur' = [cur EXCEPT !.volume = @ - Matched(t),
                              !.last_price = t.price,
                              !.price_count = IF NewLevel(t) THEN @ + 1 ELSE @]
    BY <1>9 DEF Commit
  <2>3. /\ t \in ComOrders
        /\ t.order_id \in Nat /\ t.price \in Nat
        /\ t.price \in MinPrice..MaxPrice
    BY CounterType DEF IInv, TypeOK, RestingWithinLimits, ComOrders
  <2>4. /\ cur' \in Sweep /\ cur'.volume = cur.volume - Matched(t)
        /\ cur'.dir = cur.dir /\ cur'.type = cur.type /\ cur'.price = cur.price
    <3> DEFINE v == cur.volume - Matched(t)
               k == IF NewLevel(t) THEN cur.price_count + 1 ELSE cur.price_count
    <3>1. v \in Nat
      BY <1>6, <2>1
    <3>2. k \in Nat
      BY <1>6 DEF Sweep
    <3>3. cur' = [cur EXCEPT !.volume = v, !.last_price = t.price, !.price_count = k]
      BY <1>6, <2>2 DEF Sweep
    <3> HIDE DEF v, k
    <3>4. /\ cur' \in Sweep /\ cur'.volume = v
          /\ cur'.dir = cur.dir /\ cur'.type = cur.type /\ cur'.price = cur.price
      BY <1>6, <2>3, <3>1, <3>2, <3>3 DEF Sweep
    <3> QED BY <3>4 DEF v
  <2>5. TradeWith(Counter, order_id, t, Matched(t))
          \in [bid_id : Nat, ask_id : Nat, price : Nat, volume : Nat]
    BY <1>3, <1>6, <2>1, <2>3 DEF TradeWith
  <2>6. TypeOK'
    BY <1>1, <2>1, <2>2, <2>4, <2>5 DEF IInv, TypeOK
  <2>7. QueuesGood'
    BY <1>1, <2>1, <2>2 DEF QueuesGood, LastRested
  <2>8. RestingWithinLimits'
    BY <2>1 DEF IInv, RestingWithinLimits
  <2>9. TradesWithinLimits'
    <3> DEFINE T == [bid_id : Nat, ask_id : Nat, price : Nat, volume : Nat]
               x == TradeWith(Counter, order_id, t, Matched(t))
    <3>1. tp \in Seq(T) /\ x \in T /\ tp' = Append(tp, x)
      BY <2>2, <2>5 DEF IInv, TypeOK
    <3>2. x.price \in MinPrice..MaxPrice
      BY <2>3 DEF TradeWith
    <3> HIDE DEF T, x
    <3>3. \A i \in DOMAIN tp' : \/ i \in DOMAIN tp /\ tp'[i] = tp[i]
                              \/ tp'[i] = x
      BY <3>1, AppendElements
    <3> QED BY <3>2, <3>3 DEF IInv, TradesWithinLimits
  <2>10. SlotsLeft'
    <3>1. Len(tp') = Len(tp) + 1
      BY <2>2, <2>5 DEF IInv, TypeOK
    <3>2. Cardinality(book'["Bid"]) \in Nat /\ Cardinality(book'["Ask"]) \in Nat
      BY <2>1, FS_CardinalityType DEF GoodQueue, Directions
    <3>3. Pending' \in 0..1 /\ (cur'.volume = 0 => Pending' = 0)
      BY DEF Pending
    <3>4. Resting' = Cardinality(book'["Bid"]) + Cardinality(book'["Ask"])
      BY DEF Resting
    <3>5. Len(tp') + Resting' + Pending' <= order_id'
      BY <1>3, <1>5, <1>6, <1>7, <2>1, <2>2, <3>1, <3>3
    <3> QED BY <1>6, <3>1, <3>2, <3>3, <3>4, <3>5 DEF SlotsLeft
  <2>11. SweepSound'
    <3>1. Counter' = Counter
      BY <2>4 DEF Counter
    <3>2. total[Counter] \in Nat /\ VolumeField \in Nat
      BY CounterType, WidthsAssumption DEF IInv, TypeOK
    <3>3. cur'.volume < VolumeField
      BY <1>6, <2>1, <2>4, <3>2 DEF IInv, SweepSound
    <3>4. cur.type = "FOK" => cur'.volume <= total'[Counter]
      BY <1>1, <1>6, <2>1, <2>4, <3>2 DEF IInv, SweepSound
    <3> QED BY <1>1, <2>2, <2>4, <3>1, <3>3, <3>4 DEF IInv, SweepSound
  <2>12. Uncrossed'
    BY <2>1 DEF IInv, Uncrossed, Directions
  <2> QED BY <2>1, <2>6, <2>7, <2>8, <2>9, <2>10, <2>11, <2>12 DEF IInv
<1> QED BY <1>2, <1>8, <1>9

-----------------------------------------------------------------------------
(* The loop exits.                                                         *)

\* A top that the loop cannot match means that nothing behind it matches.
LEMMA RestUncrossed ==
  ASSUME IInv, pc = "sweep", LoopExits, Rests
  PROVE  \A x \in book[Counter] :
           IF cur.dir = "Bid" THEN x.price > cur.price ELSE x.price < cur.price
<1>1. cur.dir \in Directions /\ cur.type = "Limit" /\ cur.volume > 0 /\ cur.price \in Nat
  BY DEF IInv, TypeOK, Sweep, Rests
<1>2. CASE book[Counter] = {}
  BY <1>2
<1>3. ASSUME NEW t \in book[Counter], IsTop(Counter, t), ~Eligible(t)
      PROVE  \A x \in book[Counter] :
               IF cur.dir = "Bid" THEN x.price > cur.price ELSE x.price < cur.price
  <2>1. \A x \in book[Counter] : x.price \in Nat
    BY CounterType DEF IInv, TypeOK, ComOrders
  <2>2. CASE cur.dir = "Bid"
    <3>1. Counter = "Ask" /\ ~(t.price <= cur.price)
      BY <1>1, <1>3, <2>2 DEF Eligible, Counter, Opposite
    <3>2. \A x \in book[Counter] : x = t \/ Before("Ask", t, x)
      BY <1>3, <3>1 DEF IsTop
    <3>3. \A x \in book[Counter] : t.price <= x.price
      BY <1>3, <2>1, <3>2 DEF Before
    <3> QED BY <1>1, <1>3, <2>1, <2>2, <3>1, <3>3
  <2>3. CASE cur.dir = "Ask"
    <3>1. Counter = "Bid" /\ ~(t.price >= cur.price)
      BY <1>1, <1>3, <2>3 DEF Eligible, Counter, Opposite
    <3>2. \A x \in book[Counter] : x = t \/ Before("Bid", t, x)
      BY <1>3, <3>1 DEF IsTop
    <3>3. \A x \in book[Counter] : x.price <= t.price
      BY <1>3, <2>1, <3>2 DEF Before
    <3> QED BY <1>1, <1>3, <2>1, <2>3, <3>1, <3>3
  <2> QED BY <1>1, <2>2, <2>3 DEF Directions
<1> QED BY <1>1, <1>2, <1>3 DEF LoopExits

\* The end of a sweep keeps the invariant.
LEMMA EndSweepInv ==
  ASSUME IInv, EndSweep
  PROVE  IInv'
<1>1. /\ pc = "sweep" /\ pc' = "idle" /\ LoopExits
      /\ cur' = NoSweep /\ order_id' = order_id /\ tp' = tp
  BY DEF EndSweep
<1>2. order_id \in Nat /\ order_id - 1 \in Nat
  BY <1>1, SizesAssumption DEF IInv, TypeOK, SweepSound
<1>3. \A d \in Directions : GoodQueue(book[d], order_id - 1)
  BY <1>1 DEF IInv, QueuesGood, LastRested
<1>4. Resting \in Nat /\ Cardinality(book["Bid"]) \in Nat /\ Cardinality(book["Ask"]) \in Nat
  BY <1>2, <1>3, RestingType
<1>5. Len(tp) \in Nat /\ cur \in Sweep /\ cur.volume \in Nat /\ cur.dir \in Directions
  BY DEF IInv, TypeOK, Sweep
<1>6. Len(tp) + Resting + Pending <= order_id
  BY <1>4, <1>5 DEF IInv, SlotsLeft, Pending, Resting
<1>7. TradesWithinLimits' /\ SweepSound'
  BY <1>1, WidthsAssumption DEF IInv, TradesWithinLimits, SweepSound, NoSweep
<1>8. NoSweep \in Sweep
  BY DEF NoSweep, Sweep, Directions
<1>9. CASE ~Rests
  <2>1. book' = book /\ total' = total
    BY <1>9 DEF EndSweep
  <2>2. TypeOK'
    BY <1>1, <1>8, <2>1 DEF IInv, TypeOK
  <2>3. QueuesGood'
    BY <1>1, <1>2, <1>3, <2>1, QueueBound DEF QueuesGood, LastRested
  <2>4. SlotsLeft'
    BY <1>1, <1>2, <1>4, <1>5, <1>6, <2>1 DEF SlotsLeft, Pending, Resting
  <2> QED BY <1>7, <2>1, <2>2, <2>3, <2>4
    DEF IInv, TotalsMatch, RestingWithinLimits, Uncrossed
<1>10. CASE Rests
  <2>1. /\ cur.type = "Limit" /\ cur.volume > 0
        /\ Push(cur.dir, ComOrder(order_id, cur.price, cur.volume), cur.volume)
    BY <1>10 DEF EndSweep, Rests
  <2>2. cur.price \in MinPrice..MaxPrice /\ cur.volume < VolumeField
    BY <1>1, <2>1 DEF IInv, SweepSound
  <2> DEFINE x == [order_id |-> (order_id - 1) + 1, price |-> cur.price,
                   volume |-> cur.volume]
  <2>3. (order_id - 1) + 1 = order_id
    BY <1>2
  <2>4. Push(cur.dir, ComOrder((order_id - 1) + 1, cur.price, cur.volume), cur.volume)
    BY <2>1, <2>3
  <2>5. /\ book' \in [Directions -> SUBSET ComOrders]
        /\ total' \in [Directions -> Nat]
        /\ book' = [book EXCEPT ![cur.dir] = @ \cup {x}]
        /\ \A e \in Directions : GoodQueue(book'[e], (order_id - 1) + 1)
        /\ TotalsMatch'
        /\ RestingWithinLimits'
        /\ Resting' = Resting + 1
    BY <1>2, <1>3, <1>5, <2>2, <2>4, PushSound DEF IInv
  <2>6. TypeOK'
    BY <1>1, <1>8, <2>5 DEF IInv, TypeOK
  <2>7. QueuesGood'
    BY <1>1, <2>3, <2>5 DEF QueuesGood, LastRested
  <2>8. SlotsLeft'
    <3>1. Pending = 1 /\ Pending' = 0
      BY <1>1, <2>1 DEF Pending
    <3>2. Cardinality(book'["Bid"]) \in Nat /\ Cardinality(book'["Ask"]) \in Nat
      BY <2>5, FS_CardinalityType DEF GoodQueue, Directions
    <3>3. Len(tp) + Resting' <= order_id
      BY <1>2, <1>4, <1>5, <1>6, <2>5, <3>1
    <3> QED BY <1>1, <1>5, <3>1, <3>2, <3>3 DEF SlotsLeft, Resting
  <2>9. Uncrossed'
    <3>1. x.price = cur.price
      OBVIOUS
    <3> HIDE DEF x
    <3>2. /\ book'[cur.dir] = book[cur.dir] \cup {x}
          /\ \A e \in Directions \ {cur.dir} : book'[e] = book[e]
      BY <1>5, <2>5 DEF IInv, TypeOK
    <3>3. \A y \in book[Counter] :
            IF cur.dir = "Bid" THEN y.price > cur.price ELSE y.price < cur.price
      BY <1>1, <1>10, RestUncrossed
    <3>4. CASE cur.dir = "Bid"
      <4>1. Counter = "Ask"
        BY <3>4 DEF Counter, Opposite
      <4>2. cur.price \in Nat /\ \A y \in book["Ask"] : y.price \in Nat /\ cur.price < y.price
        BY <1>5, <3>3, <3>4, <4>1 DEF IInv, TypeOK, Sweep, ComOrders, Directions
      <4> QED BY <3>1, <3>2, <3>4, <4>2 DEF IInv, Uncrossed, Directions
    <3>5. CASE cur.dir = "Ask"
      <4>1. Counter = "Bid"
        BY <3>5 DEF Counter, Opposite
      <4> QED BY <3>1, <3>2, <3>3, <3>5, <4>1 DEF IInv, Uncrossed, Directions
    <3> QED BY <1>5, <3>4, <3>5 DEF Directions
  <2> QED BY <1>7, <2>5, <2>6, <2>7, <2>8, <2>9 DEF IInv
<1> QED BY <1>9, <1>10

-----------------------------------------------------------------------------
(* The theorems.                                                           *)

\* A step that changes nothing keeps the invariant.
LEMMA StutterInv ==
  ASSUME IInv, UNCHANGED vars
  PROVE  IInv'
BY DEF IInv, vars, TypeOK, QueuesGood, LastRested, TotalsMatch, RestingWithinLimits,
  TradesWithinLimits, SlotsLeft, Pending, SweepSound, Counter, Uncrossed

\* Every step keeps the invariant.
LEMMA Inductive == IInv /\ [Next]_vars => IInv'
<1> SUFFICES ASSUME IInv, [Next]_vars PROVE IInv'
  OBVIOUS
<1>1. CASE \E o \in Orders : Process(o)
  BY <1>1, ProcessInv
<1>2. CASE MatchTop
  BY <1>2, MatchTopInv
<1>3. CASE EndSweep
  BY <1>3, EndSweepInv
<1>4. CASE Finished
  BY <1>4, StutterInv DEF Finished
<1>5. CASE UNCHANGED vars
  BY <1>5, StutterInv
<1> QED BY <1>1, <1>2, <1>3, <1>4, <1>5 DEF Next

\* The invariant that the theorems below are read off.
THEOREM InvariantHolds == Spec => []IInv
BY InitInv, Inductive, PTL DEF Spec

\* The Processor's variables keep their types: no unsigned total underflows.
THEOREM TypeCorrect == Spec => []TypeOK
<1>1. IInv => TypeOK
  BY DEF IInv
<1> QED BY <1>1, InvariantHolds, PTL

\* The two queues of a stock never hold a pair of orders that could trade.
THEOREM NeverCrossed == Spec => []Uncrossed
<1>1. IInv => Uncrossed
  BY DEF IInv
<1> QED BY <1>1, InvariantHolds, PTL

\* buy_total and sell_total are the volume resting in the queues.
THEOREM TotalsExact == Spec => []TotalsMatch
<1>1. IInv => TotalsMatch
  BY DEF IInv
<1> QED BY <1>1, InvariantHolds, PTL

\* Every trade is made at a price within the day's limits.
THEOREM TradesInLimits == Spec => []TradesWithinLimits
<1>1. IInv => TradesWithinLimits
  BY DEF IInv
<1> QED BY <1>1, InvariantHolds, PTL

\* An FOK order that passed the test on the running total is filled: the
\* total is the volume in the queue, so the queue cannot run empty first.
THEOREM FokFilled == Spec => FillOrKill
<1> DEFINE Filled == pc = "sweep" /\ cur.type = "FOK" /\ pc' = "idle" => cur.volume = 0
<1>1. IInv /\ [Next]_vars => [Filled]_vars
  <2> SUFFICES ASSUME IInv, Next, pc = "sweep", cur.type = "FOK", pc' = "idle"
               PROVE  cur.volume = 0
    OBVIOUS
  <2>1. EndSweep
    BY DEF Next, Process, MatchTop, Commit, Abort, Finished
  <2>2. cur.volume \in Nat /\ cur.volume <= total[Counter]
    BY DEF IInv, TypeOK, Sweep, SweepSound
  <2>3. CASE book[Counter] = {}
    <3>1. Shares({}) = {}
      BY DEF Shares
    <3>2. total[Counter] = 0
      BY <2>3, <3>1, CounterType, FS_EmptySet DEF IInv, TotalsMatch
    <3> QED BY <2>2, <3>2
  <2>4. \A t : Eligible(t)
    BY DEF Eligible
  <2> QED BY <2>1, <2>3, <2>4 DEF EndSweep, LoopExits
<1> QED BY <1>1, InvariantHolds, PTL DEF Spec, FillOrKill

\* Orders that ask for nothing are what the assertions are exposed to: with
\* positive volumes no order in the books is ever empty.
NothingEmpty == \A d \in Directions : \A x \in book[d] : x.volume > 0

\* Where orders have volume, no step puts an empty one into the book.
LEMMA NothingEmptyKept ==
  ASSUME 0 \notin Volumes, IInv, NothingEmpty, [Next]_vars
  PROVE  NothingEmpty'
<1>1. /\ book \in [Directions -> SUBSET ComOrders]
      /\ order_id \in Nat
      /\ cur \in Sweep /\ cur.volume \in Nat /\ cur.dir \in Directions
  BY SizesAssumption DEF IInv, TypeOK, Sweep
<1>2. ASSUME NEW d \in Directions, NEW p \in MinPrice..MaxPrice, NEW id \in Nat,
             NEW v \in Nat, v < VolumeField, v > 0, Push(d, ComOrder(id, p, v), v)
      PROVE  NothingEmpty'
  <2>1. ComOrder(id, p, v).volume > 0
    BY <1>2, ComOrderFits
  <2>2. book' = [book EXCEPT ![d] = @ \cup {ComOrder(id, p, v)}]
    BY <1>2 DEF Push
  <2> QED BY <1>1, <2>1, <2>2 DEF NothingEmpty
<1>3. CASE UNCHANGED book
  BY <1>3 DEF NothingEmpty
<1>4. ASSUME NEW o \in Orders, ProcessClientBest(o), order_id' = order_id + 1
      PROVE  NothingEmpty'
  <2>1. /\ o.dir \in Directions /\ o.volume \in Nat /\ o.volume < VolumeField
        /\ o.volume > 0
    <3>1. o.volume \in Volumes
      BY DEF Orders
    <3> QED BY <3>1, OrderFields
  <2>2. ASSUME NEW t \in book[o.dir],
               Push(o.dir, ComOrder(order_id', t.price, o.volume), o.volume)
        PROVE  NothingEmpty'
    <3>1. t.price \in MinPrice..MaxPrice
      BY <2>1 DEF IInv, RestingWithinLimits
    <3>2. order_id' \in Nat
      BY <1>1, <1>4
    <3> QED BY <1>2, <2>1, <2>2, <3>1, <3>2
  <2> QED BY <1>3, <1>4, <2>2 DEF ProcessClientBest, Return
<1>5. ASSUME NEW o \in Orders, Process(o) PROVE NothingEmpty'
  BY <1>3, <1>4, <1>5 DEF Process, Dispatch, ProcessLimit, ProcessCounterBest,
    ProcessFok, Return, StartSweep
<1>6. CASE MatchTop
  <2>1. PICK t \in book[Counter] :
          IF CommitAsserts(Matched(t)) THEN Commit(t) ELSE Abort
    BY <1>6 DEF MatchTop
  <2>2. t \in ComOrders /\ t.volume \in Nat
    BY <1>1, CounterType DEF ComOrders
  <2>3. \A x \in LeftOver(t) : x.volume > 0
    BY <1>1, <2>2 DEF LeftOver, ComOrders
  <2>4. CASE Commit(t)
    BY <1>1, <2>3, <2>4, CounterType DEF Commit, NothingEmpty
  <2> QED BY <1>3, <2>1, <2>4 DEF Abort
<1>7. CASE EndSweep
  <2>1. CASE Rests
    <3>1. /\ cur.type = "Limit" /\ cur.volume > 0 /\ pc = "sweep"
          /\ Push(cur.dir, ComOrder(order_id, cur.price, cur.volume), cur.volume)
      BY <1>7, <2>1 DEF EndSweep, Rests
    <3>2. cur.price \in MinPrice..MaxPrice /\ cur.volume < VolumeField
      BY <3>1 DEF IInv, SweepSound
    <3> QED BY <1>1, <1>2, <3>1, <3>2
  <2> QED BY <1>3, <1>7, <2>1 DEF EndSweep
<1> QED BY <1>3, <1>5, <1>6, <1>7 DEF Next, Finished, vars

\* With room for as many trades as there are orders, no step aborts.
LEMMA NoAbort ==
  ASSUME NumOrders <= MaxTradeCnt, IInv, NothingEmpty, NeverAborts, [Next]_vars
  PROVE  NeverAborts'
<1>1. /\ order_id \in 0..NumOrders /\ NumOrders \in Nat /\ MaxTradeCnt \in Nat
      /\ cur \in Sweep /\ cur.volume \in Nat /\ Len(tp) \in Nat
      /\ book \in [Directions -> SUBSET ComOrders]
  BY SizesAssumption DEF IInv, TypeOK, Sweep
<1>2. CASE MatchTop
  <2>1. pc = "sweep" /\ cur.volume > 0
    BY <1>2 DEF MatchTop
  <2>2. PICK t \in book[Counter] :
          IF CommitAsserts(Matched(t)) THEN Commit(t) ELSE Abort
    BY <1>2 DEF MatchTop
  <2>3. t.volume \in Nat /\ t.volume > 0
    BY <1>1, CounterType DEF NothingEmpty, ComOrders
  <2>4. Matched(t) > 0
    BY <1>1, <2>1, <2>3 DEF Matched
  <2>5. Len(tp) < MaxTradeCnt
    <3>1. order_id - 1 \in Nat /\ \A d \in Directions : GoodQueue(book[d], order_id - 1)
      BY <1>1, <2>1 DEF IInv, SweepSound, QueuesGood, LastRested
    <3>2. Cardinality(book["Bid"]) \in Nat /\ Cardinality(book["Ask"]) \in Nat
      BY <3>1, RestingType
    <3>3. Len(tp) + Cardinality(book["Bid"]) + Cardinality(book["Ask"]) + 1 <= order_id
      BY <2>1 DEF IInv, SlotsLeft, Pending
    <3> QED BY <1>1, <3>2, <3>3
  <2>6. Commit(t)
    BY <2>2, <2>4, <2>5 DEF CommitAsserts
  <2> QED BY <2>1, <2>6 DEF Commit, NeverAborts
<1>3. ASSUME NEW o \in Orders, Process(o) PROVE NeverAborts'
  BY <1>3 DEF NeverAborts, Process, Dispatch, ProcessLimit, ProcessCounterBest,
    ProcessClientBest, ProcessFok, Return, StartSweep
<1> QED BY <1>2, <1>3 DEF Next, EndSweep, Finished, vars, NeverAborts

\* No assertion of commit() or persist() fails, provided no order arrives
\* with volume 0 and the file holds as many trades as there are orders: every
\* trade uses up an order.
THEOREM NoAssertionFails ==
  ASSUME 0 \notin Volumes, NumOrders <= MaxTradeCnt
  PROVE  Spec => []NeverAborts
<1>1. Init => NothingEmpty /\ NeverAborts
  BY DEF Init, NothingEmpty, NeverAborts
<1>2. IInv /\ NothingEmpty /\ NeverAborts /\ [Next]_vars
        => NothingEmpty' /\ NeverAborts'
  BY NothingEmptyKept, NoAbort
<1> QED BY <1>1, <1>2, InvariantHolds, PTL DEF Spec

-----------------------------------------------------------------------------
(* What the rules give away, as functions of the queue.                    *)

\* The orders of C that are served before r.
Ahead(d, C, r) == {x \in C : Before(d, x, r)}

\* What r gets when v shares are handed out to C in queue order.
Given(d, C, v, r) ==
  LET left == v - Cardinality(Shares(Ahead(d, C, r)))
  IN  IF left <= 0 THEN 0 ELSE IF left < r.volume THEN left ELSE r.volume

\* What is left of r, whose queue gives to C only.
LeftOf(d, C, v, r) == IF r \in C THEN r.volume - Given(d, C, v, r) ELSE r.volume

\* The queue S afterwards.
Remaining(d, S, C, v) ==
  {[r EXCEPT !.volume = LeftOf(d, C, v, r)] :
     r \in {x \in S : LeftOf(d, C, v, x) > 0}}

\* The trades the order id makes.
Made(d, C, v, id) ==
  {TradeWith(d, id, r, Given(d, C, v, r)) :
     r \in {x \in C : Given(d, C, v, x) > 0}}

\* The volume it gets.
Taken(C, v) == IF Cardinality(Shares(C)) < v THEN Cardinality(Shares(C)) ELSE v

\* Every order of E is served before the rest of S.
First(d, E, S) == \A x \in E : \A y \in S \ E : Before(d, x, y)

Alive(S) == \A x \in S : x.volume > 0

\* Part of a queue is a queue with at most as many shares.
LEMMA QueuePart ==
  ASSUME NEW n \in Nat, NEW S, GoodQueue(S, n), NEW T \in SUBSET S
  PROVE  /\ GoodQueue(T, n)
         /\ Cardinality(Shares(T)) \in Nat
         /\ Cardinality(Shares(T)) <= Cardinality(Shares(S))
<1>1. Shares(T) \subseteq Shares(S)
  BY DEF Shares
<1>2. /\ IsFiniteSet(Shares(T))
      /\ Cardinality(Shares(T)) <= Cardinality(Shares(S))
  BY <1>1, FS_Subset DEF GoodQueue
<1>3. IsFiniteSet(T)
  BY FS_Subset DEF GoodQueue
<1>4. Cardinality(Shares(T)) \in Nat
  BY <1>2, FS_CardinalityType
<1> QED BY <1>2, <1>3, <1>4 DEF GoodQueue

\* The comparators are strict.
LEMMA BeforeStrict ==
  ASSUME NEW d \in Directions, NEW x \in ComOrders, NEW y \in ComOrders,
         Before(d, x, y)
  PROVE  ~Before(d, y, x) /\ x # y
<1>1. x.price \in Nat /\ y.price \in Nat /\ x.order_id \in Nat /\ y.order_id \in Nat
  BY DEF ComOrders
<1> QED BY <1>1 DEF Before

\* Nothing is served before itself.
LEMMA BeforeIrreflexive ==
  ASSUME NEW d \in Directions, NEW x \in ComOrders
  PROVE  ~Before(d, x, x)
BY BeforeStrict

\* One more order and those before it.
LEMMA SharesWith ==
  ASSUME NEW n \in Nat, NEW S, GoodQueue(S, n), NEW T \in SUBSET S,
         NEW x \in S, x \notin T
  PROVE  Cardinality(Shares(T \cup {x})) = Cardinality(Shares(T)) + x.volume
<1>1. GoodQueue(T, n)
  BY QueuePart
<1>2. S \in SUBSET ComOrders /\ T \in SUBSET ComOrders
  BY <1>1 DEF GoodQueue
<1> QED BY <1>1, <1>2, SharesAdd DEF GoodQueue

\* When E is served first, nobody else stands before an order of E.
LEMMA AheadInside ==
  ASSUME NEW d \in Directions, NEW n \in Nat, NEW C, GoodQueue(C, n),
         NEW E \in SUBSET C, First(d, E, C), NEW r \in E
  PROVE  Ahead(d, C, r) \cup {r} \in SUBSET E /\ r \notin Ahead(d, C, r)
<1>1. C \subseteq ComOrders
  BY DEF GoodQueue
<1>2. \A x \in C \ E : ~Before(d, x, r)
  BY <1>1, BeforeStrict DEF First
<1>3. ~Before(d, r, r)
  BY <1>1, BeforeIrreflexive
<1> QED BY <1>2, <1>3 DEF Ahead

\* An order of E gets all it has when there is enough for E.
LEMMA GivenWhole ==
  ASSUME NEW d \in Directions, NEW n \in Nat, NEW C, GoodQueue(C, n), Alive(C),
         NEW E \in SUBSET C, First(d, E, C), NEW r \in E,
         NEW v \in Nat, Cardinality(Shares(E)) <= v
  PROVE  Given(d, C, v, r) = r.volume
<1> DEFINE A == Ahead(d, C, r)
<1>1. A \cup {r} \in SUBSET E /\ r \notin A
  BY AheadInside
<1> HIDE DEF A
<1>2. A \in SUBSET C /\ A \cup {r} \in SUBSET C /\ A \in SUBSET E
  BY <1>1
<1>3. GoodQueue(E, n) /\ Cardinality(Shares(E)) \in Nat
  BY QueuePart
<1>4. Cardinality(Shares(A \cup {r})) <= Cardinality(Shares(E))
  BY <1>1, <1>3, QueuePart
<1>5. Cardinality(Shares(A \cup {r})) = Cardinality(Shares(A)) + r.volume
  BY <1>1, <1>2, SharesWith
<1>6. Cardinality(Shares(A)) \in Nat
  BY <1>2, QueuePart
<1>7. r.volume \in Nat /\ r.volume > 0
  BY DEF GoodQueue, Alive, ComOrders
<1>8. v - Cardinality(Shares(A)) >= r.volume
  BY <1>3, <1>4, <1>5, <1>6, <1>7
<1> QED BY <1>6, <1>7, <1>8 DEF Given, A

\* An order behind E gets nothing when E takes everything.
LEMMA GivenNone ==
  ASSUME NEW d \in Directions, NEW n \in Nat, NEW C, GoodQueue(C, n),
         NEW E \in SUBSET C, First(d, E, C), NEW r \in C \ E,
         NEW v \in Nat, v <= Cardinality(Shares(E))
  PROVE  Given(d, C, v, r) = 0
<1> DEFINE A == Ahead(d, C, r)
<1>1. E \in SUBSET A /\ A \in SUBSET C
  BY DEF First, Ahead
<1> HIDE DEF A
<1>2. GoodQueue(A, n) /\ Cardinality(Shares(A)) \in Nat
  BY <1>1, QueuePart
<1>3. /\ Cardinality(Shares(E)) \in Nat
      /\ Cardinality(Shares(E)) <= Cardinality(Shares(A))
  BY <1>1, <1>2, QueuePart
<1>4. v - Cardinality(Shares(A)) <= 0
  BY <1>2, <1>3
<1> QED BY <1>4 DEF Given, A

\* The next order behind E gets what E leaves.
LEMMA GivenPart ==
  ASSUME NEW d \in Directions, NEW n \in Nat, NEW C, GoodQueue(C, n),
         NEW E \in SUBSET C, First(d, E, C), NEW t \in C \ E,
         First(d, E \cup {t}, C),
         NEW v \in Nat, Cardinality(Shares(E)) < v,
         v < Cardinality(Shares(E)) + t.volume
  PROVE  Given(d, C, v, t) = v - Cardinality(Shares(E))
<1>1. Ahead(d, C, t) \in SUBSET E
  <2>1. t \in E \cup {t} /\ E \cup {t} \in SUBSET C
    OBVIOUS
  <2>2. Ahead(d, C, t) \cup {t} \in SUBSET (E \cup {t}) /\ t \notin Ahead(d, C, t)
    BY <2>1, AheadInside
  <2> QED BY <2>2
<1>2. E \in SUBSET Ahead(d, C, t)
  BY DEF First, Ahead
<1>3. Ahead(d, C, t) = E
  BY <1>1, <1>2
<1>4. Cardinality(Shares(E)) \in Nat
  BY QueuePart
<1>5. t.volume \in Nat
  BY DEF GoodQueue, ComOrders
<1> QED BY <1>3, <1>4, <1>5 DEF Given

\* An order of a queue with nothing taken is the same order.
LEMMA SameOrder ==
  ASSUME NEW r \in ComOrders
  PROVE  [r EXCEPT !.volume = r.volume] = r
BY DEF ComOrders

\* The rules' outcome when v is used up by, or enough for, the orders of E.
LEMMA SettledWhole ==
  ASSUME NEW d \in Directions, NEW n \in Nat, NEW S, GoodQueue(S, n), Alive(S),
         NEW C \in SUBSET S, NEW E \in SUBSET C, First(d, E, S),
         NEW v \in Nat, NEW id, Cardinality(Shares(E)) <= v,
         E = C \/ Cardinality(Shares(E)) = v
  PROVE  /\ Remaining(d, S, C, v) = S \ E
         /\ Made(d, C, v, id) = {TradeWith(d, id, r, r.volume) : r \in E}
         /\ Taken(C, v) = Cardinality(Shares(E))
<1>1. GoodQueue(C, n) /\ Alive(C) /\ First(d, E, C)
  BY QueuePart DEF Alive, First
<1>2. S \subseteq ComOrders /\ \A r \in S : r.volume \in Nat /\ r.volume > 0
  BY DEF GoodQueue, Alive, ComOrders
<1>3. \A r \in E : Given(d, C, v, r) = r.volume
  BY <1>1, GivenWhole
<1>4. \A r \in C \ E : Given(d, C, v, r) = 0
  BY <1>1, GivenNone
<1>5. \A r \in E : LeftOf(d, C, v, r) = 0
  BY <1>2, <1>3 DEF LeftOf
<1>6. \A r \in S \ E : LeftOf(d, C, v, r) = r.volume
  BY <1>2, <1>4 DEF LeftOf
<1>7. {x \in S : LeftOf(d, C, v, x) > 0} = S \ E
  BY <1>2, <1>5, <1>6
<1>8. \A r \in S \ E : [r EXCEPT !.volume = LeftOf(d, C, v, r)] = r
  BY <1>2, <1>6, SameOrder
<1>9. Remaining(d, S, C, v) = S \ E
  BY <1>7, <1>8 DEF Remaining
<1>10. {x \in C : Given(d, C, v, x) > 0} = E
  BY <1>2, <1>3, <1>4
<1>11. Made(d, C, v, id) = {TradeWith(d, id, r, r.volume) : r \in E}
  BY <1>3, <1>10 DEF Made
<1>12. Taken(C, v) = Cardinality(Shares(E))
  <2>1. /\ Cardinality(Shares(E)) \in Nat /\ Cardinality(Shares(C)) \in Nat
        /\ Cardinality(Shares(E)) <= Cardinality(Shares(C))
    BY <1>1, QueuePart
  <2>2. CASE E = C
    BY <2>1, <2>2 DEF Taken
  <2>3. CASE Cardinality(Shares(E)) = v
    BY <2>1, <2>3 DEF Taken
  <2> QED BY <2>2, <2>3
<1> QED BY <1>9, <1>11, <1>12

\* The orders of E are used up and t gives w.
PartOutcome(d, S, C, E, t, v, w, id) ==
  /\ Remaining(d, S, C, v) = (S \ (E \cup {t})) \cup {[t EXCEPT !.volume = @ - w]}
  /\ Made(d, C, v, id) =
       {TradeWith(d, id, r, r.volume) : r \in E} \cup {TradeWith(d, id, t, w)}
  /\ Taken(C, v) = v

\* The rules' outcome when v ends within the order t behind E.
LEMMA SettledPart ==
  ASSUME NEW d \in Directions, NEW n \in Nat, NEW S, GoodQueue(S, n), Alive(S),
         NEW C \in SUBSET S, NEW E \in SUBSET C, First(d, E, S),
         NEW t \in C \ E, First(d, E \cup {t}, S),
         NEW v \in Nat, NEW id, NEW w \in Nat, 0 < w, w < t.volume,
         w = v - Cardinality(Shares(E))
  PROVE  PartOutcome(d, S, C, E, t, v, w, id)
<1>1. GoodQueue(C, n) /\ Alive(C) /\ First(d, E, C) /\ First(d, E \cup {t}, C)
  BY QueuePart DEF Alive, First
<1>2. S \subseteq ComOrders /\ \A r \in S : r.volume \in Nat /\ r.volume > 0
  BY DEF GoodQueue, Alive, ComOrders
<1>3. Cardinality(Shares(E)) \in Nat
  BY <1>1, QueuePart
<1>4. Cardinality(Shares(E)) < v /\ v < Cardinality(Shares(E)) + t.volume
  BY <1>2, <1>3
<1>5. Cardinality(Shares(E \cup {t})) = Cardinality(Shares(E)) + t.volume
  BY <1>1, SharesWith
<1>6. v <= Cardinality(Shares(E \cup {t}))
  BY <1>2, <1>3, <1>4, <1>5
<1>7. \A r \in E : Given(d, C, v, r) = r.volume
  BY <1>1, <1>3, <1>4, GivenWhole
<1>8. Given(d, C, v, t) = w
  BY <1>1, <1>4, GivenPart
<1>9. \A r \in C \ (E \cup {t}) : Given(d, C, v, r) = 0
  BY <1>1, <1>6, GivenNone
<1>10. Taken(C, v) = v
  <2>1. Cardinality(Shares(C)) \in Nat
    BY <1>1, QueuePart
  <2>2. Cardinality(Shares(E \cup {t})) <= Cardinality(Shares(C))
    BY <1>1, QueuePart
  <2>3. Cardinality(Shares(E \cup {t})) \in Nat
    BY <1>2, <1>3, <1>5
  <2> QED BY <1>6, <2>1, <2>2, <2>3 DEF Taken
<1>11. \A r \in E : LeftOf(d, C, v, r) = 0
  BY <1>2, <1>7 DEF LeftOf
<1>12. LeftOf(d, C, v, t) = t.volume - w
  BY <1>8 DEF LeftOf
<1>13. \A r \in S \ (E \cup {t}) : LeftOf(d, C, v, r) = r.volume
  BY <1>2, <1>9 DEF LeftOf
<1>14. LeftOf(d, C, v, t) > 0
  BY <1>2, <1>12
<1>15. {x \in S : LeftOf(d, C, v, x) > 0} = (S \ (E \cup {t})) \cup {t}
  BY <1>2, <1>11, <1>13, <1>14
<1>16. \A r \in S \ (E \cup {t}) : [r EXCEPT !.volume = LeftOf(d, C, v, r)] = r
  BY <1>2, <1>13, SameOrder
<1>17. [t EXCEPT !.volume = LeftOf(d, C, v, t)] = [t EXCEPT !.volume = @ - w]
  BY <1>12
<1>18. Remaining(d, S, C, v) = (S \ (E \cup {t})) \cup {[t EXCEPT !.volume = @ - w]}
  BY <1>15, <1>16, <1>17 DEF Remaining
<1>19. {x \in C : Given(d, C, v, x) > 0} = E \cup {t}
  BY <1>2, <1>7, <1>8, <1>9
<1>20. Made(d, C, v, id) =
         {TradeWith(d, id, r, r.volume) : r \in E} \cup {TradeWith(d, id, t, w)}
  BY <1>7, <1>8, <1>19 DEF Made
<1> QED BY <1>10, <1>18, <1>20 DEF PartOutcome

-----------------------------------------------------------------------------
(* The rules' operators in those terms.                                    *)

\* The rules count with the same Cardinality.
LEMMA RulesCount == ASSUME NEW S PROVE Rules!Cardinality(S) = Cardinality(S)
BY DEF Rules!Cardinality, Cardinality

\* The rules count volume as the shares there are.
LEMMA RulesVolume == ASSUME NEW S PROVE Rules!Volume(S) = Cardinality(Shares(S))
<1>1. UNION {{x} \X (1..x.volume) : x \in S} = Shares(S)
  BY DEF Shares
<1> QED BY <1>1, RulesCount DEF Rules!Volume

\* The rules' counter side is the side process() matches against.
LEMMA RulesSide ==
  ASSUME NEW o \in Orders
  PROVE  /\ Rules!CounterSide(o) = Opposite(o.dir)
         /\ Opposite(o.dir) \in Directions /\ o.dir \in Directions
         /\ o.dir # Opposite(o.dir)
         /\ o.dir = "Bid" <=> Opposite(o.dir) = "Ask"
BY OrderFields DEF Rules!CounterSide, Opposite, Directions

\* The rules' price-time priority is the order of the queue.
LEMMA RulesAhead ==
  ASSUME NEW d \in Directions, NEW x \in ComOrders, NEW y \in ComOrders
  PROVE  Rules!AheadOf(d, x, y) <=> Before(d, x, y)
<1>1. x.price \in Nat /\ y.price \in Nat
  BY DEF ComOrders
<1> QED BY <1>1 DEF Rules!AheadOf, Rules!BetterPrice, Before, Directions

\* What an order gets by the rules.
LEMMA RulesFill ==
  ASSUME NEW o \in Orders, NEW C \in SUBSET ComOrders, Rules!Candidates(o) = C,
         NEW r \in ComOrders
  PROVE  Rules!Fill(o, r) = Given(Opposite(o.dir), C, o.volume, r)
<1>1. /\ Rules!CounterSide(o) = Opposite(o.dir) /\ Opposite(o.dir) \in Directions
  BY RulesSide
<1>2. {x \in Rules!Candidates(o) : Rules!AheadOf(Rules!CounterSide(o), x, r)} =
        Ahead(Opposite(o.dir), C, r)
  BY <1>1, RulesAhead DEF Ahead
<1>3. Rules!Volume({x \in Rules!Candidates(o) :
                      Rules!AheadOf(Rules!CounterSide(o), x, r)}) =
        Cardinality(Shares(Ahead(Opposite(o.dir), C, r)))
  BY <1>2, RulesVolume
<1> QED BY <1>3 DEF Rules!Fill, Given

\* The whole effect of an order by the rules.
LEMMA RulesOutcome ==
  ASSUME NEW o \in Orders, NEW S \in SUBSET ComOrders, NEW C \in SUBSET S,
         start.book[Opposite(o.dir)] = S, Rules!Candidates(o) = C, NEW id
  PROVE  /\ Rules!Reduced(o) = Remaining(Opposite(o.dir), S, C, o.volume)
         /\ Rules!TradesOf(o, id) = Made(Opposite(o.dir), C, o.volume, id)
         /\ Rules!Filled(o) = Taken(C, o.volume)
<1> DEFINE d == Opposite(o.dir)
<1>1. Rules!CounterSide(o) = d /\ d \in Directions /\ (o.dir = "Bid" <=> d = "Ask")
  BY RulesSide
<1>2. \A r \in S : Rules!Fill(o, r) = Given(d, C, o.volume, r)
  BY RulesFill
<1> HIDE DEF d
<1>3. start.book[d] = S
  BY DEF d
<1>4. Rules!Filled(o) = Taken(C, o.volume)
  BY RulesVolume DEF Rules!Filled, Taken
<1>5. {x \in C : Rules!Fill(o, x) > 0} = {x \in C : Given(d, C, o.volume, x) > 0}
  BY <1>2
<1>6. \A r \in C : [bid_id |-> IF o.dir = "Bid" THEN id ELSE r.order_id,
                    ask_id |-> IF o.dir = "Bid" THEN r.order_id ELSE id,
                    price |-> r.price, volume |-> Rules!Fill(o, r)]
                     = TradeWith(d, id, r, Given(d, C, o.volume, r))
  BY <1>1, <1>2 DEF TradeWith
<1>7. Rules!TradesOf(o, id) = Made(d, C, o.volume, id)
  BY <1>5, <1>6 DEF Rules!TradesOf, Made
<1>8. \A r \in S : (IF r \in C THEN r.volume - Rules!Fill(o, r) ELSE r.volume)
                     = LeftOf(d, C, o.volume, r)
  BY <1>2 DEF LeftOf
<1>9. Rules!Reduced(o) =
        {[r EXCEPT !.volume = IF r \in C THEN r.volume - Rules!Fill(o, r) ELSE r.volume] :
           r \in {x \in S : (IF x \in C THEN x.volume - Rules!Fill(o, x)
                                        ELSE x.volume) > 0}}
  BY <1>1, <1>3 DEF Rules!Reduced
<1>10. Rules!Reduced(o) = Remaining(d, S, C, o.volume)
  BY <1>8, <1>9 DEF Remaining
<1> QED BY <1>4, <1>7, <1>10 DEF d

-----------------------------------------------------------------------------
(* Which orders a loop may trade with.                                     *)

\* The price levels of S ahead of p.
LevelsAhead(d, S, p) ==
  {x.price : x \in {y \in S : Rules!BetterPrice(d, y.price, p)}}

\* The orders of the counter queue S that a loop of this type and price is for.
Offered(d, S, type, p) ==
  CASE type = "Limit" -> {r \in S : ~Rules!BetterPrice(d, p, r.price)}
    [] type = "BestFive" ->
         {r \in S : Cardinality(LevelsAhead(d, S, r.price)) < BestLevels}
    [] OTHER -> S

\* p is the best price in S.
BestOf(d, S, p) ==
  /\ p \in {x.price : x \in S}
  /\ \A x \in S : ~Rules!BetterPrice(d, x.price, p)

\* The loop with the locals c is the one process() runs for o when the counter
\* queue is S.
Serves(o, c, S) ==
  /\ o.dir = c.dir
  /\ \/ /\ c.type = "Limit"
        /\ c.price \in MinPrice..MaxPrice
        /\ \/ o.type = "Limit" /\ o.price = c.price
           \/ o.type = "CounterBest" /\ BestOf(Opposite(c.dir), S, c.price)
     \/ /\ c.type \in {"BestFive", "FAK", "FOK"}
        /\ o.type = c.type
        /\ c.type = "FOK" => o.volume <= Cardinality(Shares(S))

\* A best price is the rules' best price.
LEMMA RulesBest ==
  ASSUME NEW d \in Directions, NEW S \in SUBSET ComOrders, start.book[d] = S,
         NEW p, BestOf(d, S, p)
  PROVE  Rules!BestPrice(d) = p
<1> DEFINE Best(q) == \A x \in S : ~Rules!BetterPrice(d, x.price, q)
           P == {x.price : x \in S}
<1>1. p \in P /\ Best(p)
  BY DEF BestOf
<1>2. \A x \in S : x.price \in Nat
  BY DEF ComOrders
<1>3. P \subseteq Nat
  BY <1>2
<1>4. ASSUME NEW q \in P, Best(q) PROVE q = p
  <2>1. ~Rules!BetterPrice(d, p, q) /\ ~Rules!BetterPrice(d, q, p)
    BY <1>1, <1>4
  <2>2. p \in Nat /\ q \in Nat
    BY <1>1, <1>3
  <2> QED BY <2>1, <2>2 DEF Rules!BetterPrice
<1>5. Rules!BestPrice(d) = CHOOSE q \in P : Best(q)
  BY DEF Rules!BestPrice
<1> HIDE DEF P, Best
<1>6. (CHOOSE q \in P : Best(q)) \in P /\ Best(CHOOSE q \in P : Best(q))
  BY <1>1
<1> QED BY <1>4, <1>5, <1>6

\* The orders at the best price are those no worse than it.
LEMMA AtBest ==
  ASSUME NEW d \in Directions, NEW S \in SUBSET ComOrders, NEW p, BestOf(d, S, p)
  PROVE  {r \in S : r.price = p} = {r \in S : ~Rules!BetterPrice(d, p, r.price)}
<1>1. \A x \in S : x.price \in Nat
  BY DEF ComOrders
<1>2. p \in Nat
  BY <1>1 DEF BestOf
<1>3. \A x \in S : ~Rules!BetterPrice(d, x.price, p)
  BY DEF BestOf
<1>4. \A x \in S : x.price = p <=> ~Rules!BetterPrice(d, p, x.price)
  BY <1>1, <1>2, <1>3 DEF Rules!BetterPrice
<1> QED BY <1>4

\* The loop is for the orders the rules allow, and rests at the rules' price.
LEMMA RulesServe ==
  ASSUME NEW o \in Orders, NEW c \in Sweep, NEW S \in SUBSET ComOrders,
         start.book[Opposite(o.dir)] = S, Serves(o, c, S),
         Cardinality(Shares(S)) \in Nat
  PROVE  /\ Rules!Candidates(o) = Offered(Opposite(o.dir), S, c.type, c.price)
         /\ Rules!RestingPrices(o) = IF c.type = "Limit" THEN {c.price} ELSE {}
<1> DEFINE d == Opposite(o.dir)
<1>1. Rules!CounterSide(o) = d /\ d \in Directions
  BY RulesSide
<1>2. start.book[d] = S /\ o.dir = c.dir
  BY DEF Serves
<1> HIDE DEF d
<1>3. CASE c.type = "Limit" /\ o.type = "Limit"
  <2>1. o.price = c.price /\ c.price \in MinPrice..MaxPrice
    BY <1>3 DEF Serves
  <2>2. Rules!Candidates(o) = Rules!AtOrBetter(o, o.price)
    BY <1>3, <2>1 DEF Rules!Candidates
  <2>3. Rules!AtOrBetter(o, o.price) = {r \in S : ~Rules!BetterPrice(d, o.price, r.price)}
    BY <1>1, <1>2 DEF Rules!AtOrBetter
  <2>4. Offered(d, S, c.type, c.price) = {r \in S : ~Rules!BetterPrice(d, c.price, r.price)}
    BY <1>3 DEF Offered
  <2>5. Rules!RestingPrices(o) = {c.price}
    BY <1>3, <2>1 DEF Rules!RestingPrices
  <2> QED BY <1>3, <2>1, <2>2, <2>3, <2>4, <2>5 DEF d
<1>4. CASE c.type = "Limit" /\ o.type = "CounterBest"
  <2>1. BestOf(d, S, c.price)
    BY <1>2, <1>4 DEF Serves, d
  <2>2. Rules!BestPrice(d) = c.price
    BY <1>1, <1>2, <2>1, RulesBest
  <2>3. Rules!Candidates(o) = {r \in S : r.price = c.price}
    BY <1>1, <1>2, <1>4, <2>2 DEF Rules!Candidates
  <2>4. Offered(d, S, c.type, c.price) = {r \in S : ~Rules!BetterPrice(d, c.price, r.price)}
    BY <1>4 DEF Offered
  <2>5. S # {}
    BY <2>1 DEF BestOf
  <2>6. Rules!RestingPrices(o) = {c.price}
    BY <1>1, <1>2, <1>4, <2>2, <2>5 DEF Rules!RestingPrices
  <2>7. Rules!Candidates(o) = Offered(d, S, c.type, c.price)
    BY <1>1, <2>1, <2>3, <2>4, AtBest
  <2> QED BY <1>4, <2>6, <2>7 DEF d
<1>5. CASE c.type = "BestFive"
  <2>1. o.type = "BestFive"
    BY <1>5 DEF Serves
  <2>2. Rules!Candidates(o) = Rules!OnBestLevels(o)
    BY <2>1 DEF Rules!Candidates
  <2>3. Rules!OnBestLevels(o) =
          {r \in S : Cardinality(LevelsAhead(d, S, r.price)) < BestLevels}
    <3>1. start.book[Rules!CounterSide(o)] = S
      BY <1>1, <1>2
    <3>2. \A r \in S :
            Rules!Cardinality({x.price : x \in {y \in S :
               Rules!BetterPrice(Rules!CounterSide(o), y.price, r.price)}})
              = Cardinality(LevelsAhead(d, S, r.price))
      BY <1>1, RulesCount DEF LevelsAhead
    <3> QED BY <3>1, <3>2 DEF Rules!OnBestLevels
  <2>4. Rules!RestingPrices(o) = {}
    BY <2>1 DEF Rules!RestingPrices
  <2> QED BY <1>5, <2>2, <2>3, <2>4 DEF Offered, d
<1>6. CASE c.type \in {"FAK", "FOK"}
  <2>1. o.type = c.type /\ (c.type = "FOK" => o.volume <= Cardinality(Shares(S)))
    BY <1>6 DEF Serves
  <2>2. o.volume \in Nat
    BY OrderFields
  <2>3. c.type = "FOK" => Rules!Volume(S) >= o.volume
    BY <2>1, <2>2, RulesVolume
  <2>4. Rules!Candidates(o) = S
    BY <1>1, <1>2, <1>6, <2>1, <2>3 DEF Rules!Candidates
  <2>5. Rules!RestingPrices(o) = {}
    BY <1>6, <2>1 DEF Rules!RestingPrices
  <2> QED BY <1>6, <2>4, <2>5 DEF Offered, d
<1> QED BY <1>3, <1>4, <1>5, <1>6 DEF Serves

\* Prices within the limits are finitely many.
LEMMA LevelsFinite ==
  ASSUME NEW L \in SUBSET (MinPrice..MaxPrice)
  PROVE  IsFiniteSet(L) /\ Cardinality(L) \in Nat
<1>1. IsFiniteSet(MinPrice..MaxPrice)
  BY LimitsType, FS_Interval
<1>2. IsFiniteSet(L)
  BY <1>1, FS_Subset
<1> QED BY <1>2, FS_CardinalityType

WithinLimits(S) == \A x \in S : x.price \in MinPrice..MaxPrice

\* Whoever is served before an order that a loop is for is also one.
LEMMA OfferedClosed ==
  ASSUME NEW d \in Directions, NEW S \in SUBSET ComOrders, WithinLimits(S),
         NEW type, NEW p \in Nat, NEW x \in S, NEW y \in S, Before(d, x, y),
         y \in Offered(d, S, type, p)
  PROVE  x \in Offered(d, S, type, p)
<1>1. \A z \in S : z.price \in Nat
  BY DEF ComOrders
<1>2. ~Rules!BetterPrice(d, y.price, x.price)
  BY <1>1 DEF Before, Rules!BetterPrice
<1>3. CASE type = "Limit"
  <2>1. ~Rules!BetterPrice(d, p, y.price)
    BY <1>3 DEF Offered
  <2>2. ~Rules!BetterPrice(d, p, x.price)
    BY <1>1, <1>2, <2>1 DEF Rules!BetterPrice
  <2> QED BY <1>3, <2>2 DEF Offered
<1>4. CASE type = "BestFive"
  <2>1. LevelsAhead(d, S, x.price) \in SUBSET LevelsAhead(d, S, y.price)
    <3>1. \A z \in S : Rules!BetterPrice(d, z.price, x.price)
                         => Rules!BetterPrice(d, z.price, y.price)
      BY <1>1, <1>2 DEF Rules!BetterPrice
    <3> QED BY <3>1 DEF LevelsAhead
  <2>2. LevelsAhead(d, S, y.price) \in SUBSET (MinPrice..MaxPrice)
    BY DEF LevelsAhead, WithinLimits
  <2>3. LevelsAhead(d, S, x.price) \in SUBSET (MinPrice..MaxPrice)
    BY <2>1, <2>2
  <2>4. /\ Cardinality(LevelsAhead(d, S, y.price)) \in Nat
        /\ Cardinality(LevelsAhead(d, S, x.price)) \in Nat
    BY <2>2, <2>3, LevelsFinite
  <2>5. Cardinality(LevelsAhead(d, S, x.price)) <= Cardinality(LevelsAhead(d, S, y.price))
    BY <2>1, <2>2, LevelsFinite, FS_Subset
  <2>6. Cardinality(LevelsAhead(d, S, y.price)) < BestLevels
    BY <1>4 DEF Offered
  <2>7. Cardinality(LevelsAhead(d, S, x.price)) < BestLevels
    BY <2>4, <2>5, <2>6, SizesAssumption
  <2> QED BY <1>4, <2>7 DEF Offered
<1>5. CASE type \notin {"Limit", "BestFive"}
  BY <1>5 DEF Offered
<1> QED BY <1>3, <1>4, <1>5

\* The levels of E are what the locals of process_best_five say.
LevelsCounted(d, E, last, count) ==
  /\ count = Cardinality({x.price : x \in E})
  /\ \/ E = {} /\ last = 0
     \/ /\ last \in {x.price : x \in E}
        /\ \A x \in E : ~Rules!BetterPrice(d, last, x.price)

\* The top of what is left of S after E is at a level of its own exactly if
\* its price is new; then the levels of E are the ones ahead of it.
LEMMA TopLevel ==
  ASSUME NEW d \in Directions, NEW S \in SUBSET ComOrders, WithinLimits(S),
         MinPrice > 0, NEW E \in SUBSET S, First(d, E, S), NEW t \in S \ E,
         First(d, E \cup {t}, S), NEW last, NEW count,
         LevelsCounted(d, E, last, count)
  PROVE  /\ t.price # last => /\ LevelsAhead(d, S, t.price) = {x.price : x \in E}
                              /\ t.price \notin {x.price : x \in E}
         /\ t.price = last => \E z \in E : z.price = t.price
         /\ \A x \in E : ~Rules!BetterPrice(d, t.price, x.price)
<1>1. \A z \in S : z.price \in Nat /\ z.price > 0
  <2>1. \A z \in S : z.price \in MinPrice..MaxPrice
    BY DEF WithinLimits
  <2> QED BY <2>1, LimitsType
<1>2. \A x \in E : Before(d, x, t)
  BY DEF First
<1>3. \A y \in S \ (E \cup {t}) : Before(d, t, y)
  BY DEF First
<1>4. \A x \in E : ~Rules!BetterPrice(d, t.price, x.price)
  BY <1>1, <1>2 DEF Before, Rules!BetterPrice
<1>5. \A y \in S \ E : ~Rules!BetterPrice(d, y.price, t.price)
  BY <1>1, <1>3 DEF Before, Rules!BetterPrice
<1>6. ASSUME t.price # last
      PROVE  \A x \in E : Rules!BetterPrice(d, x.price, t.price) /\ x.price # t.price
  <2> SUFFICES ASSUME NEW x \in E
               PROVE  Rules!BetterPrice(d, x.price, t.price) /\ x.price # t.price
    OBVIOUS
  <2>1. /\ last \in {z.price : z \in E}
        /\ ~Rules!BetterPrice(d, last, x.price)
    BY DEF LevelsCounted
  <2>2. PICK z \in E : z.price = last
    BY <2>1
  <2>3. ~Rules!BetterPrice(d, t.price, z.price) /\ ~Rules!BetterPrice(d, t.price, x.price)
    BY <1>4
  <2>4. x.price \in Nat /\ z.price \in Nat /\ t.price \in Nat
    BY <1>1
  <2>5. ~Rules!BetterPrice(d, z.price, x.price) /\ t.price # z.price
    BY <1>6, <2>1, <2>2
  <2> QED BY <2>3, <2>4, <2>5 DEF Rules!BetterPrice
<1>7. ASSUME t.price # last
      PROVE  /\ LevelsAhead(d, S, t.price) = {x.price : x \in E}
             /\ t.price \notin {x.price : x \in E}
  <2>1. {y \in S : Rules!BetterPrice(d, y.price, t.price)} = E
    BY <1>5, <1>6, <1>7
  <2> QED BY <1>6, <1>7, <2>1 DEF LevelsAhead
<1>8. ASSUME t.price = last PROVE \E z \in E : z.price = t.price
  BY <1>1, <1>8 DEF LevelsCounted
<1> QED BY <1>4, <1>7, <1>8

\* The loop goes on with the top of the queue exactly if it is for it.
LEMMA BestFiveGoesOn ==
  ASSUME NEW d \in Directions, NEW S \in SUBSET ComOrders, WithinLimits(S),
         MinPrice > 0, NEW E \in SUBSET S, First(d, E, S), NEW t \in S \ E,
         First(d, E \cup {t}, S), NEW last, NEW count,
         LevelsCounted(d, E, last, count), NEW p,
         E \in SUBSET Offered(d, S, "BestFive", p)
  PROVE  (t.price # last => count < BestLevels) <=> t \in Offered(d, S, "BestFive", p)
<1>1. t \in Offered(d, S, "BestFive", p)
        <=> Cardinality(LevelsAhead(d, S, t.price)) < BestLevels
  BY DEF Offered
<1>2. CASE t.price # last
  <2>1. LevelsAhead(d, S, t.price) = {x.price : x \in E}
    BY <1>2, TopLevel
  <2>2. count = Cardinality({x.price : x \in E})
    BY DEF LevelsCounted
  <2> QED BY <1>1, <1>2, <2>1, <2>2
<1>3. CASE t.price = last
  <2>1. PICK z \in E : z.price = t.price
    BY <1>3, TopLevel
  <2>2. Cardinality(LevelsAhead(d, S, z.price)) < BestLevels
    BY DEF Offered
  <2> QED BY <1>1, <1>3, <2>1, <2>2
<1> QED BY <1>2, <1>3

\* Counting the level of the order served next.
LEMMA LevelsCountedNext ==
  ASSUME NEW d \in Directions, NEW S \in SUBSET ComOrders, WithinLimits(S),
         MinPrice > 0, NEW E \in SUBSET S, First(d, E, S), NEW t \in S \ E,
         First(d, E \cup {t}, S), NEW last, NEW count,
         LevelsCounted(d, E, last, count)
  PROVE  LevelsCounted(d, E \cup {t}, t.price,
                       IF t.price # last THEN count + 1 ELSE count)
<1> DEFINE L == {x.price : x \in E}
           M == {x.price : x \in E \cup {t}}
<1>1. M = L \cup {t.price}
  OBVIOUS
<1>2. \A z \in S : z.price \in Nat /\ z.price \in MinPrice..MaxPrice
  BY LimitsType DEF WithinLimits
<1>3. L \in SUBSET (MinPrice..MaxPrice)
  BY <1>2
<1>4. t.price # last => t.price \notin L
  BY TopLevel
<1>5. t.price = last => t.price \in L
  <2>1. t.price = last => \E z \in E : z.price = t.price
    BY TopLevel
  <2> QED BY <2>1
<1>6. \A x \in E \cup {t} : ~Rules!BetterPrice(d, t.price, x.price)
  <2>1. \A x \in E : ~Rules!BetterPrice(d, t.price, x.price)
    BY TopLevel
  <2>2. ~Rules!BetterPrice(d, t.price, t.price)
    BY <1>2 DEF Rules!BetterPrice
  <2> QED BY <2>1, <2>2
<1>7. count = Cardinality(L)
  BY DEF LevelsCounted
<1>8. t.price \in M
  OBVIOUS
<1> HIDE DEF L, M
<1>9. Cardinality(M) = IF t.price \in L THEN Cardinality(L) ELSE Cardinality(L) + 1
  BY <1>1, <1>3, LevelsFinite, FS_AddElement
<1>10. Cardinality(M) = IF t.price # last THEN count + 1 ELSE count
  BY <1>4, <1>5, <1>7, <1>9
<1> QED BY <1>6, <1>8, <1>10 DEF LevelsCounted, M

-----------------------------------------------------------------------------
(* The invariant of the refinement.                                        *)

\* The counter queue the call found, the orders of it that are used up, those
\* the loop is for, and the trades of the call.
Queue == start.book[Counter]

Sold == Queue \ book[Counter]

Offer == Offered(Counter, Queue, cur.type, cur.price)

NewTrades == {tp[i] : i \in (start.count + 1)..Len(tp)}

\* The loop has used up the orders at the front of the queue, one after the
\* other, and nothing else.
Whole(v) ==
  /\ book[Counter] \subseteq Queue
  /\ Sold \subseteq Offer
  /\ First(Counter, Sold, Queue)
  /\ cur.volume = v - Cardinality(Shares(Sold))
  /\ NewTrades = {TradeWith(Counter, order_id, x, x.volume) : x \in Sold}
  /\ LevelsCounted(Counter, Sold, cur.last_price, cur.price_count)

\* What the rules ask for has been done.
Settled(v) ==
  /\ book[Counter] = Remaining(Counter, Queue, Offer, v)
  /\ NewTrades = Made(Counter, Offer, v, order_id)
  /\ cur.volume = v - Taken(Offer, v)

QueueGood == GoodQueue(Queue, order_id - 1) /\ Alive(Queue) /\ WithinLimits(Queue)

\* A loop is on its way to what the rules ask for some order.
Sweeping ==
  /\ start.book \in [Directions -> SUBSET ComOrders]
  /\ start.book[cur.dir] = book[cur.dir]
  /\ start.count \in 0..Len(tp)
  /\ QueueGood
  /\ \E o \in Orders :
       /\ Serves(o, cur, Queue)
       /\ Whole(o.volume) \/ (cur.volume = 0 /\ Settled(o.volume))

Followed ==
  /\ pc = "idle" => start = Snapshot
  /\ pc = "sweep" => Sweeping

\* The top of the queue is the next to be served.
LEMMA TopIsNext ==
  ASSUME NEW v, Whole(v), NEW t \in book[Counter], IsTop(Counter, t)
  PROVE  /\ t \in Queue \ Sold
         /\ First(Counter, Sold \cup {t}, Queue)
<1>1. t \in Queue \ Sold
  BY DEF Whole, Sold
<1>2. Queue \ Sold = book[Counter]
  BY DEF Whole, Sold
<1> QED BY <1>1, <1>2 DEF Whole, First, IsTop

\* The loop condition asks what the rules ask.
LEMMA EligibleOffered ==
  ASSUME MinPrice > 0, cur \in Sweep, QueueGood, NEW v, Whole(v),
         NEW t \in book[Counter], IsTop(Counter, t)
  PROVE  Eligible(t) <=> t \in Offer
<1>1. t \in Queue \ Sold /\ First(Counter, Sold \cup {t}, Queue)
  BY TopIsNext
<1>2. Counter \in Directions /\ Queue \in SUBSET ComOrders
  BY CounterType DEF QueueGood, GoodQueue
<1>3. CASE cur.type = "Limit"
  <2>1. t.price \in Nat /\ cur.price \in Nat
    BY <1>1, <1>2 DEF ComOrders, Sweep
  <2>2. t \in Offer <=> ~Rules!BetterPrice(Counter, cur.price, t.price)
    BY <1>1, <1>3 DEF Offer, Offered
  <2>3. cur.dir \in {"Bid", "Ask"}
    BY DEF Sweep, Directions
  <2>4. cur.dir = "Bid" => (t \in Offer <=> t.price <= cur.price)
    BY <2>1, <2>2 DEF Rules!BetterPrice, Counter, Opposite
  <2>5. cur.dir = "Ask" => (t \in Offer <=> t.price >= cur.price)
    BY <2>1, <2>2 DEF Rules!BetterPrice, Counter, Opposite
  <2> QED BY <1>3, <2>3, <2>4, <2>5 DEF Eligible
<1>4. CASE cur.type = "BestFive"
  <2>1. Sold \in SUBSET Offered(Counter, Queue, "BestFive", cur.price)
    BY <1>4 DEF Whole, Offer
  <2>2. /\ WithinLimits(Queue) /\ Sold \in SUBSET Queue /\ First(Counter, Sold, Queue)
        /\ LevelsCounted(Counter, Sold, cur.last_price, cur.price_count)
    BY DEF Whole, Sold, QueueGood
  <2>3. (t.price # cur.last_price => cur.price_count < BestLevels)
          <=> t \in Offered(Counter, Queue, "BestFive", cur.price)
    BY <1>1, <1>2, <2>1, <2>2, BestFiveGoesOn
  <2> QED BY <1>4, <2>3 DEF Eligible, NewLevel, Offer
<1>5. CASE cur.type \notin {"Limit", "BestFive"}
  BY <1>1, <1>5 DEF Eligible, Offer, Offered
<1> QED BY <1>3, <1>4, <1>5

\* A loop that stops has done what the rules ask.
LEMMA ExitSettled ==
  ASSUME MinPrice > 0, cur \in Sweep, order_id - 1 \in Nat, QueueGood,
         NEW v \in Nat, Whole(v), LoopExits
  PROVE  Settled(v)
<1>1. Counter \in Directions /\ Queue \in SUBSET ComOrders
  BY CounterType DEF QueueGood, GoodQueue
<1>2. Offer \in SUBSET Queue
  BY DEF Offer, Offered
<1>3. /\ Sold \in SUBSET Offer /\ First(Counter, Sold, Queue)
      /\ GoodQueue(Queue, order_id - 1) /\ Alive(Queue) /\ WithinLimits(Queue)
  BY DEF Whole, QueueGood
<1>4. Cardinality(Shares(Sold)) \in Nat
  BY <1>2, <1>3, QueuePart
<1>5. cur.volume \in Nat /\ cur.price \in Nat /\ cur.volume = v - Cardinality(Shares(Sold))
  BY DEF Sweep, Whole
<1>6. Cardinality(Shares(Sold)) <= v
  BY <1>4, <1>5
<1>7. Queue \ Sold = book[Counter]
  BY DEF Whole, Sold
<1>8. Sold = Offer \/ Cardinality(Shares(Sold)) = v
  <2>1. CASE cur.volume = 0
    BY <1>4, <1>5, <2>1
  <2>2. CASE book[Counter] = {}
    BY <1>2, <1>3, <1>7, <2>2
  <2>3. ASSUME NEW t \in book[Counter], IsTop(Counter, t), ~Eligible(t)
        PROVE  Sold = Offer
    <3>1. t \in Queue /\ t \notin Offer
      BY <1>7, <2>3, EligibleOffered
    <3>2. ASSUME NEW y \in book[Counter], y \in Offer PROVE FALSE
      <4>1. y \in Queue /\ y # t /\ Before(Counter, t, y)
        BY <1>7, <2>3, <3>1, <3>2 DEF IsTop
      <4> QED BY <1>1, <1>3, <1>5, <3>1, <3>2, <4>1, OfferedClosed DEF Offer
    <3> QED BY <1>2, <1>3, <1>7, <3>2
  <2> QED BY <2>1, <2>2, <2>3 DEF LoopExits
<1>9. /\ Remaining(Counter, Queue, Offer, v) = Queue \ Sold
      /\ Made(Counter, Offer, v, order_id)
           = {TradeWith(Counter, order_id, r, r.volume) : r \in Sold}
      /\ Taken(Offer, v) = Cardinality(Shares(Sold))
  <2>1. PICK n \in Nat : n = order_id - 1
    OBVIOUS
  <2>2. PICK S : S = Queue
    OBVIOUS
  <2>3. PICK C : C = Offer
    OBVIOUS
  <2>4. PICK E : E = Sold
    OBVIOUS
  <2>5. PICK d \in Directions : d = Counter
    BY <1>1
  <2>6. /\ GoodQueue(S, n) /\ Alive(S) /\ C \in SUBSET S /\ E \in SUBSET C
        /\ First(d, E, S) /\ Cardinality(Shares(E)) <= v
        /\ E = C \/ Cardinality(Shares(E)) = v
    BY <1>2, <1>3, <1>6, <1>8, <2>1, <2>2, <2>3, <2>4, <2>5
  <2>7. /\ Remaining(d, S, C, v) = S \ E
        /\ Made(d, C, v, order_id) = {TradeWith(d, order_id, r, r.volume) : r \in E}
        /\ Taken(C, v) = Cardinality(Shares(E))
    BY <2>6, SettledWhole
  <2> QED BY <2>2, <2>3, <2>4, <2>5, <2>7
<1> QED BY <1>5, <1>7, <1>9 DEF Settled, Whole

\* The trade of an iteration joins the trades of the call.
LEMMA NewTradesAppend ==
  ASSUME NEW T, tp \in Seq(T), NEW x \in T, tp' = Append(tp, x), start' = start,
         start.count \in 0..Len(tp)
  PROVE  NewTrades' = NewTrades \cup {x} /\ start'.count \in 0..Len(tp')
<1>1. Len(tp) \in Nat /\ Len(tp') = Len(tp) + 1
  OBVIOUS
<1>2. \A i \in (start.count + 1)..Len(tp) : tp'[i] = tp[i]
  OBVIOUS
<1>3. tp'[Len(tp) + 1] = x
  OBVIOUS
<1>4. (start.count + 1)..Len(tp') = ((start.count + 1)..Len(tp)) \cup {Len(tp) + 1}
  BY <1>1
<1>5. {tp'[i] : i \in (start.count + 1)..Len(tp')} = NewTrades \cup {x}
  BY <1>2, <1>3, <1>4 DEF NewTrades
<1>6. NewTrades' = {tp'[i] : i \in (start.count + 1)..Len(tp')}
  BY DEF NewTrades
<1>7. start'.count \in 0..Len(tp')
  BY <1>1
<1> QED BY <1>5, <1>6, <1>7

\* What an iteration changes and what it leaves.
LEMMA CommitEffect ==
  ASSUME IInv, pc = "sweep", start.count \in 0..Len(tp),
         NEW t \in book[Counter], Commit(t), start' = start
  PROVE  /\ Counter' = Counter /\ Queue' = Queue /\ Offer' = Offer
         /\ order_id' = order_id /\ pc' = pc
         /\ cur'.dir = cur.dir /\ cur'.type = cur.type /\ cur'.price = cur.price
         /\ book'[Counter] = (book[Counter] \ {t}) \cup LeftOver(t)
         /\ book'[cur.dir] = book[cur.dir]
         /\ cur'.volume = cur.volume - Matched(t)
         /\ cur'.last_price = t.price
         /\ cur'.price_count = IF NewLevel(t) THEN cur.price_count + 1
                                              ELSE cur.price_count
         /\ NewTrades' = NewTrades \cup {TradeWith(Counter, order_id, t, Matched(t))}
         /\ start'.count \in 0..Len(tp')
<1>1. cur \in Sweep /\ book \in [Directions -> SUBSET ComOrders]
  BY DEF IInv, TypeOK
<1>2. /\ cur'.dir = cur.dir /\ cur'.type = cur.type /\ cur'.price = cur.price
      /\ cur'.volume = cur.volume - Matched(t)
      /\ cur'.last_price = t.price
      /\ cur'.price_count = IF NewLevel(t) THEN cur.price_count + 1
                                           ELSE cur.price_count
  BY <1>1 DEF Commit, Sweep
<1>3. Counter' = Counter
  BY <1>2 DEF Counter
<1>4. Queue' = Queue
  BY <1>3 DEF Queue
<1>5. Offer' = Offer
  BY <1>2, <1>3, <1>4 DEF Offer
<1>6. /\ book'[Counter] = (book[Counter] \ {t}) \cup LeftOver(t)
      /\ book'[cur.dir] = book[cur.dir]
  BY <1>1, CounterType DEF Commit, Counter, Opposite, Directions, Sweep
<1>7. cur.volume \in Nat /\ order_id \in Nat /\ t \in ComOrders
  BY <1>1, CounterType, SizesAssumption DEF Sweep, IInv, TypeOK
<1>8. Matched(t) \in Nat /\ t.order_id \in Nat /\ t.price \in Nat
  BY <1>7 DEF Matched, ComOrders
<1> DEFINE T == [bid_id : Nat, ask_id : Nat, price : Nat, volume : Nat]
           x == TradeWith(Counter, order_id, t, Matched(t))
<1>9. x \in T
  BY <1>7, <1>8 DEF TradeWith
<1>10. tp \in Seq(T) /\ tp' = Append(tp, x)
  BY DEF IInv, TypeOK, Commit
<1> HIDE DEF T, x
<1>11. NewTrades' = NewTrades \cup {x} /\ start'.count \in 0..Len(tp')
  BY <1>9, <1>10, NewTradesAppend
<1>12. order_id' = order_id /\ pc' = pc
  BY DEF Commit
<1> QED BY <1>2, <1>3, <1>4, <1>5, <1>6, <1>11, <1>12 DEF x

\* An iteration that uses its order up.
LEMMA MatchWhole ==
  ASSUME MinPrice > 0, IInv, pc = "sweep", start.count \in 0..Len(tp),
         QueueGood, NEW v \in Nat, Whole(v), NEW t \in book[Counter],
         IsTop(Counter, t), Eligible(t), Commit(t), start' = start,
         t.volume <= cur.volume
  PROVE  Whole(v)'
<1>1. /\ Counter' = Counter /\ Queue' = Queue /\ Offer' = Offer
      /\ order_id' = order_id
      /\ book'[Counter] = (book[Counter] \ {t}) \cup LeftOver(t)
      /\ cur'.volume = cur.volume - Matched(t)
      /\ cur'.last_price = t.price
      /\ cur'.price_count = IF NewLevel(t) THEN cur.price_count + 1
                                           ELSE cur.price_count
      /\ NewTrades' = NewTrades \cup {TradeWith(Counter, order_id, t, Matched(t))}
  BY CommitEffect
<1>2. LeftOver(t) = {} /\ Matched(t) = t.volume
  BY DEF LeftOver, Matched
<1>3. t \in Queue \ Sold /\ First(Counter, Sold \cup {t}, Queue)
  BY TopIsNext
<1>4. cur \in Sweep /\ Counter \in Directions /\ Queue \in SUBSET ComOrders
  BY CounterType DEF IInv, TypeOK, QueueGood, GoodQueue
<1>5. t \in Offer
  BY <1>4, EligibleOffered
<1>6. book[Counter] \subseteq Queue
  BY DEF Whole
<1>7. book'[Counter] = book[Counter] \ {t}
  BY <1>1, <1>2
<1>8. book'[Counter'] \subseteq Queue'
  BY <1>1, <1>6, <1>7
<1>9. Sold' = Sold \cup {t}
  BY <1>1, <1>3, <1>6, <1>7 DEF Sold
<1>10. Sold' \subseteq Offer'
  BY <1>1, <1>5, <1>9 DEF Whole
<1>11. First(Counter', Sold', Queue')
  BY <1>1, <1>3, <1>9
<1>12. cur'.volume = v - Cardinality(Shares(Sold'))
  <2>1. order_id - 1 \in Nat /\ Sold \in SUBSET Queue
    BY SizesAssumption DEF IInv, TypeOK, SweepSound, Sold
  <2>2. /\ Cardinality(Shares(Sold \cup {t})) = Cardinality(Shares(Sold)) + t.volume
        /\ Cardinality(Shares(Sold)) \in Nat
    <3>1. PICK n \in Nat : n = order_id - 1
      BY <2>1
    <3>2. PICK S : S = Queue
      OBVIOUS
    <3>3. PICK E : E = Sold
      OBVIOUS
    <3>4. GoodQueue(S, n) /\ E \in SUBSET S /\ t \in S /\ t \notin E
      BY <1>3, <2>1, <3>1, <3>2, <3>3 DEF QueueGood
    <3> QED BY <3>3, <3>4, SharesWith, QueuePart
  <2>3. t.volume \in Nat /\ cur.volume \in Nat
    BY <1>3, <1>4 DEF ComOrders, Sweep
  <2>4. cur.volume = v - Cardinality(Shares(Sold))
    BY DEF Whole
  <2> QED BY <1>1, <1>2, <1>9, <2>2, <2>3, <2>4
<1>13. NewTrades' = {TradeWith(Counter', order_id', x, x.volume) : x \in Sold'}
  BY <1>1, <1>2, <1>9 DEF Whole
<1>14. LevelsCounted(Counter', Sold', cur'.last_price, cur'.price_count)
  <2>1. /\ WithinLimits(Queue) /\ Sold \in SUBSET Queue /\ First(Counter, Sold, Queue)
        /\ LevelsCounted(Counter, Sold, cur.last_price, cur.price_count)
    BY DEF Whole, Sold, QueueGood
  <2>2. LevelsCounted(Counter, Sold \cup {t}, t.price,
          IF t.price # cur.last_price THEN cur.price_count + 1 ELSE cur.price_count)
    BY <1>3, <1>4, <2>1, LevelsCountedNext
  <2> QED BY <1>1, <1>9, <2>2 DEF NewLevel
<1> QED BY <1>8, <1>10, <1>11, <1>12, <1>13, <1>14 DEF Whole

\* An iteration that uses up the volume within an order.
LEMMA MatchPart ==
  ASSUME MinPrice > 0, IInv, pc = "sweep", start.count \in 0..Len(tp),
         QueueGood, NEW v \in Nat, Whole(v), cur.volume > 0,
         NEW t \in book[Counter],
         IsTop(Counter, t), Eligible(t), Commit(t), start' = start,
         ~(t.volume <= cur.volume)
  PROVE  cur'.volume = 0 /\ Settled(v)'
<1>1. /\ Counter' = Counter /\ Queue' = Queue /\ Offer' = Offer
      /\ order_id' = order_id
      /\ book'[Counter] = (book[Counter] \ {t}) \cup LeftOver(t)
      /\ cur'.volume = cur.volume - Matched(t)
      /\ NewTrades' = NewTrades \cup {TradeWith(Counter, order_id, t, Matched(t))}
  BY CommitEffect
<1>2. /\ LeftOver(t) = {[t EXCEPT !.volume = @ - cur.volume]}
      /\ Matched(t) = cur.volume
  BY DEF LeftOver, Matched
<1>3. t \in Queue \ Sold /\ First(Counter, Sold \cup {t}, Queue)
  BY TopIsNext
<1>4. cur \in Sweep /\ Counter \in Directions /\ Queue \in SUBSET ComOrders
  BY CounterType DEF IInv, TypeOK, QueueGood, GoodQueue
<1>5. t \in Offer /\ Offer \in SUBSET Queue
  BY <1>4, EligibleOffered DEF Offer, Offered
<1>6. t.volume \in Nat /\ cur.volume \in Nat
  BY <1>3, <1>4 DEF ComOrders, Sweep
<1>7. cur'.volume = 0
  BY <1>1, <1>2, <1>6
<1>8. /\ book[Counter] = Queue \ Sold
      /\ cur.volume = v - Cardinality(Shares(Sold))
      /\ NewTrades = {TradeWith(Counter, order_id, x, x.volume) : x \in Sold}
  BY DEF Whole, Sold
<1>9. order_id - 1 \in Nat
  BY SizesAssumption DEF IInv, TypeOK, SweepSound
<1>10. PICK n \in Nat : n = order_id - 1
  BY <1>9
<1>11. PICK S : S = Queue
  OBVIOUS
<1>12. PICK C : C = Offer
  OBVIOUS
<1>13. PICK E : E = Sold
  OBVIOUS
<1>14. PICK d \in Directions : d = Counter
  BY <1>4
<1>15. PICK w \in Nat : w = cur.volume
  BY <1>6
<1>16. /\ GoodQueue(S, n) /\ Alive(S) /\ C \in SUBSET S /\ E \in SUBSET C
       /\ First(d, E, S) /\ First(d, E \cup {t}, S) /\ t \in C \ E
  BY <1>3, <1>5, <1>10, <1>11, <1>12, <1>13, <1>14 DEF QueueGood, Whole
<1>17. Cardinality(Shares(E)) \in Nat
  <2>1. E \in SUBSET S
    BY <1>16
  <2> QED BY <1>16, <2>1, QueuePart
<1>18. 0 < w /\ w < t.volume /\ w = v - Cardinality(Shares(E))
  BY <1>6, <1>8, <1>13, <1>15, <1>17
<1>19. /\ Remaining(d, S, C, v) = (S \ (E \cup {t})) \cup {[t EXCEPT !.volume = @ - w]}
       /\ Made(d, C, v, order_id) =
            {TradeWith(d, order_id, r, r.volume) : r \in E}
              \cup {TradeWith(d, order_id, t, w)}
       /\ Taken(C, v) = v
  <2>1. PartOutcome(d, S, C, E, t, v, w, order_id)
    BY <1>16, <1>18, SettledPart
  <2> QED BY <2>1 DEF PartOutcome
<1>20. book'[Counter] = Remaining(d, S, C, v)
  BY <1>1, <1>2, <1>8, <1>11, <1>13, <1>15, <1>19
<1>21. NewTrades' = Made(d, C, v, order_id)
  BY <1>1, <1>2, <1>8, <1>13, <1>14, <1>15, <1>19
<1>22. cur'.volume = v - Taken(C, v)
  BY <1>7, <1>19
<1> QED BY <1>1, <1>7, <1>11, <1>12, <1>14, <1>20, <1>21, <1>22 DEF Settled

-----------------------------------------------------------------------------
(* Each step of process() is a step of the rules or none.                  *)

\* The rules' orders and trades so far.
Arrived == IF pc = "idle" THEN order_id ELSE order_id - 1

Past == {tp[i] : i \in 1..start.count}

\* Steps that leave the abstract state alone.
LEMMA RulesStutter ==
  ASSUME Arrived' = Arrived, start' = start, Past' = Past
  PROVE  UNCHANGED Rules!vars
BY DEF Rules!vars, Arrived, Past

\* The trades of earlier calls do not change.
LEMMA PastKept ==
  ASSUME NEW T, tp \in Seq(T), start.count \in 0..Len(tp), start' = start,
         tp' = tp \/ \E x \in T : tp' = Append(tp, x)
  PROVE  Past' = Past
<1>1. \A i \in 1..start.count : tp'[i] = tp[i]
  OBVIOUS
<1>2. Past' = {tp'[i] : i \in 1..start'.count}
  BY DEF Past
<1> QED BY <1>1, <1>2 DEF Past

\* What makes a step the rules' step for the order o.
LEMMA RulesSubmit ==
  ASSUME NEW o \in Orders, Arrived < NumOrders, Arrived' = Arrived + 1,
         start'.book = [start.book EXCEPT
                          ![Opposite(o.dir)] = Rules!Reduced(o),
                          ![o.dir] = @ \cup Rules!Rest(o, Arrived')],
         Past' = Past \cup Rules!TradesOf(o, Arrived')
  PROVE  Rules!Next
<1>1. Rules!CounterSide(o) = Opposite(o.dir)
  BY RulesSide
<1>2. Rules!Submit(o)
  BY <1>1 DEF Rules!Submit, Arrived, Past
<1> QED BY <1>2 DEF Rules!Next, Arrived

\* An iteration of a loop is no step of the rules.
LEMMA MatchTopFollows ==
  ASSUME MinPrice > 0, IInv, Followed, MatchTop, start' = start
  PROVE  Followed' /\ UNCHANGED Rules!vars
<1>1. pc = "sweep" /\ cur.volume > 0 /\ Sweeping
  BY DEF MatchTop, Followed
<1>2. PICK t \in book[Counter] :
        /\ IsTop(Counter, t)
        /\ Eligible(t)
        /\ IF CommitAsserts(Matched(t)) THEN Commit(t) ELSE Abort
  BY DEF MatchTop
<1>3. start.count \in 0..Len(tp) /\ QueueGood
  BY <1>1 DEF Sweeping
<1>4. CASE Abort
  <2>1. pc' = "aborted" /\ order_id' = order_id /\ tp' = tp
    BY <1>4 DEF Abort
  <2>2. Followed'
    BY <2>1 DEF Followed
  <2>3. Arrived' = Arrived /\ Past' = Past
    BY <1>1, <2>1 DEF Arrived, Past
  <2> QED BY <2>2, <2>3, RulesStutter
<1>5. CASE Commit(t)
  <2>1. /\ Counter' = Counter /\ Queue' = Queue /\ Offer' = Offer
        /\ order_id' = order_id /\ pc' = pc
        /\ cur'.dir = cur.dir /\ cur'.type = cur.type /\ cur'.price = cur.price
        /\ book'[cur.dir] = book[cur.dir]
        /\ start'.count \in 0..Len(tp')
    BY <1>1, <1>3, <1>5, CommitEffect
  <2>2. PICK o \in Orders :
          /\ Serves(o, cur, Queue)
          /\ Whole(o.volume) \/ (cur.volume = 0 /\ Settled(o.volume))
    BY <1>1 DEF Sweeping
  <2>3. o.volume \in Nat
    BY OrderFields
  <2>4. Whole(o.volume)
    BY <1>1, <2>2
  <2>5. Whole(o.volume)' \/ (cur'.volume = 0 /\ Settled(o.volume)')
    <3>1. PICK v \in Nat : v = o.volume
      BY <2>3
    <3>2. Whole(v)
      BY <2>4, <3>1
    <3>3. CASE t.volume <= cur.volume
      BY <1>1, <1>2, <1>3, <1>5, <3>1, <3>2, <3>3, MatchWhole
    <3>4. CASE ~(t.volume <= cur.volume)
      BY <1>1, <1>2, <1>3, <1>5, <3>1, <3>2, <3>4, MatchPart
    <3> QED BY <3>3, <3>4
  <2>6. Serves(o, cur', Queue')
    BY <2>1, <2>2 DEF Serves
  <2>7. QueueGood'
    BY <1>3, <2>1 DEF QueueGood
  <2>8. Sweeping'
    BY <1>1, <2>1, <2>5, <2>6, <2>7 DEF Sweeping
  <2>9. Followed'
    BY <1>1, <2>1, <2>8 DEF Followed
  <2>10. Arrived' = Arrived
    BY <2>1 DEF Arrived
  <2>11. Past' = Past
    <3> DEFINE T == [bid_id : Nat, ask_id : Nat, price : Nat, volume : Nat]
               x == TradeWith(Counter, order_id, t, Matched(t))
    <3>1. tp \in Seq(T) /\ tp' \in Seq(T) /\ tp' = Append(tp, x)
      BY <1>5, Inductive DEF IInv, TypeOK, Commit, Next
    <3>2. x \in T
      <4>1. order_id \in Nat /\ cur \in Sweep /\ t \in ComOrders
        BY CounterType, SizesAssumption DEF IInv, TypeOK
      <4> QED BY <4>1 DEF TradeWith, Matched, ComOrders, Sweep
    <3> HIDE DEF T, x
    <3> QED BY <1>3, <3>1, <3>2, PastKept
  <2> QED BY <2>9, <2>10, <2>11, RulesStutter
<1> QED BY <1>2, <1>4, <1>5

\* The trades of the call join those of the earlier ones.
LEMMA PastGrows ==
  ASSUME NEW T, tp \in Seq(T), start.count \in 0..Len(tp), start' = Snapshot',
         tp' = tp
  PROVE  Past' = Past \cup NewTrades
<1>1. start'.count = Len(tp)
  BY DEF Snapshot
<1>2. Past' = {tp[i] : i \in 1..Len(tp)}
  BY <1>1 DEF Past
<1>3. 1..Len(tp) = (1..start.count) \cup ((start.count + 1)..Len(tp))
  OBVIOUS
<1> QED BY <1>2, <1>3 DEF Past, NewTrades

\* The loop's exit is the rules' step for the order it ran for.
LEMMA EndSweepFollows ==
  ASSUME MinPrice > 0, IInv, Followed, EndSweep, start' = Snapshot'
  PROVE  Followed' /\ Rules!Next
<1>1. /\ pc = "sweep" /\ pc' = "idle" /\ LoopExits /\ Sweeping
      /\ order_id' = order_id /\ tp' = tp
  BY DEF EndSweep, Followed
<1>2. Followed'
  BY <1>1 DEF Followed
<1>3. /\ start.book \in [Directions -> SUBSET ComOrders]
      /\ start.book[cur.dir] = book[cur.dir]
      /\ start.count \in 0..Len(tp)
      /\ QueueGood
  BY <1>1 DEF Sweeping
<1>4. PICK o \in Orders :
        /\ Serves(o, cur, Queue)
        /\ Whole(o.volume) \/ (cur.volume = 0 /\ Settled(o.volume))
  BY <1>1 DEF Sweeping
<1>5. /\ o.volume \in Nat /\ cur \in Sweep /\ cur.volume \in Nat /\ cur.price \in Nat
      /\ order_id \in 1..NumOrders /\ order_id - 1 \in Nat /\ order_id \in Nat
      /\ cur.volume < VolumeField
      /\ cur.type = "Limit" => cur.price \in MinPrice..MaxPrice
      /\ book \in [Directions -> SUBSET ComOrders]
  BY <1>1, OrderFields, SizesAssumption DEF IInv, TypeOK, SweepSound, Sweep
<1>6. Settled(o.volume)
  BY <1>1, <1>3, <1>4, <1>5, ExitSettled
<1>7. /\ o.dir = cur.dir /\ Counter = Opposite(o.dir) /\ Queue = start.book[Opposite(o.dir)]
      /\ Counter \in Directions /\ cur.dir \in Directions /\ cur.dir # Counter
  BY <1>4, RulesSide DEF Serves, Counter, Queue
<1>8. Queue \in SUBSET ComOrders /\ Offer \in SUBSET Queue
  BY <1>3 DEF QueueGood, GoodQueue, Offer, Offered
<1>9. Cardinality(Shares(Queue)) \in Nat
  BY <1>3, FS_CardinalityType DEF QueueGood, GoodQueue
<1>10. /\ Rules!Candidates(o) = Offer
       /\ Rules!RestingPrices(o) = IF cur.type = "Limit" THEN {cur.price} ELSE {}
  <2>1. PICK c \in Sweep : c = cur
    BY <1>5
  <2>2. PICK S \in SUBSET ComOrders : S = Queue
    BY <1>8
  <2>3. Serves(o, c, S) /\ Cardinality(Shares(S)) \in Nat /\ start.book[Opposite(o.dir)] = S
    BY <1>4, <1>7, <1>9, <2>1, <2>2
  <2>4. /\ Rules!Candidates(o) = Offered(Opposite(o.dir), S, c.type, c.price)
        /\ Rules!RestingPrices(o) = IF c.type = "Limit" THEN {c.price} ELSE {}
    BY <2>3, RulesServe
  <2> QED BY <1>7, <2>1, <2>2, <2>4 DEF Offer
<1>11. /\ book[Counter] = Rules!Reduced(o)
       /\ NewTrades = Rules!TradesOf(o, order_id)
       /\ cur.volume = o.volume - Rules!Filled(o)
  <2>1. PICK S \in SUBSET ComOrders : S = Queue
    BY <1>8
  <2>2. PICK C \in SUBSET S : C = Offer
    BY <1>8, <2>1
  <2>3. start.book[Opposite(o.dir)] = S /\ Rules!Candidates(o) = C
    BY <1>7, <1>10, <2>1, <2>2
  <2>4. /\ Rules!Reduced(o) = Remaining(Opposite(o.dir), S, C, o.volume)
        /\ Rules!TradesOf(o, order_id) = Made(Opposite(o.dir), C, o.volume, order_id)
        /\ Rules!Filled(o) = Taken(C, o.volume)
    BY <2>3, RulesOutcome
  <2> QED BY <1>6, <1>7, <2>1, <2>2, <2>4 DEF Settled
<1>12. Arrived = order_id - 1 /\ Arrived' = order_id
  BY <1>1 DEF Arrived
<1>13. Arrived < NumOrders /\ Arrived' = Arrived + 1
  BY <1>5, <1>12, SizesAssumption
<1>14. Past' = Past \cup Rules!TradesOf(o, Arrived')
  <2>1. tp \in Seq([bid_id : Nat, ask_id : Nat, price : Nat, volume : Nat])
    BY DEF IInv, TypeOK
  <2>2. Past' = Past \cup NewTrades
    BY <1>1, <1>3, <2>1, PastGrows
  <2> QED BY <1>11, <1>12, <2>2
<1>15. Rules!Filled(o) \in Int
  <2>1. Rules!Filled(o) = Taken(Offer, o.volume)
    BY <1>7, <1>8, <1>10, RulesOutcome
  <2>2. Cardinality(Shares(Offer)) \in Nat
    BY <1>3, <1>5, <1>8, QueuePart DEF QueueGood
  <2> QED BY <1>5, <2>1, <2>2 DEF Taken
<1>16. Rules!Rest(o, Arrived') =
         IF Rests THEN {[order_id |-> order_id, price |-> cur.price, volume |-> cur.volume]}
                  ELSE {}
  <2>1. o.volume > Rules!Filled(o) <=> cur.volume > 0
    BY <1>5, <1>11, <1>15
  <2>2. {q \in Rules!RestingPrices(o) : o.volume > Rules!Filled(o)} =
          IF Rests THEN {cur.price} ELSE {}
    BY <1>10, <2>1 DEF Rests
  <2> QED BY <1>11, <1>12, <2>2 DEF Rules!Rest
<1>17. book' = [start.book EXCEPT ![Opposite(o.dir)] = Rules!Reduced(o),
                                  ![o.dir] = @ \cup Rules!Rest(o, Arrived')]
  <2>1. PICK R : R = Rules!Rest(o, Arrived')
    OBVIOUS
  <2>2. PICK B : B = Rules!Reduced(o)
    OBVIOUS
  <2>3. book' = [book EXCEPT ![cur.dir] = @ \cup R]
    <3>1. CASE Rests
      <4>1. Push(cur.dir, ComOrder(order_id, cur.price, cur.volume), cur.volume)
        BY <3>1 DEF EndSweep
      <4>2. ComOrder(order_id, cur.price, cur.volume)
              = [order_id |-> order_id, price |-> cur.price, volume |-> cur.volume]
        BY <1>5, <3>1, ComOrderFits DEF Rests
      <4> QED BY <1>16, <2>1, <3>1, <4>1, <4>2 DEF Push
    <3>2. CASE ~Rests
      <4>1. book' = book /\ R = {}
        BY <1>16, <2>1, <3>2 DEF EndSweep
      <4> QED BY <1>5, <4>1
    <3> QED BY <3>1, <3>2
  <2>4. book = [start.book EXCEPT ![Counter] = B]
    <3>1. \A d \in Directions : d = Counter \/ d = cur.dir
      BY <1>7 DEF Directions
    <3> QED BY <1>3, <1>5, <1>7, <1>11, <2>2, <3>1
  <2>5. book' = [start.book EXCEPT ![Counter] = B, ![cur.dir] = @ \cup R]
    BY <1>3, <1>7, <2>3, <2>4
  <2> QED BY <1>7, <2>1, <2>2, <2>5
<1>18. start'.book = book'
  BY DEF Snapshot
<1>19. Rules!Next
  BY <1>13, <1>14, <1>17, <1>18, RulesSubmit
<1> QED BY <1>2, <1>19

\* A loop begins: nothing has happened yet, and the loop is for the order.
LEMMA StartSweepFollows ==
  ASSUME IInv, NothingEmpty, Followed, pc = "idle", order_id' = order_id + 1,
         NEW o \in Orders, NEW type, NEW price, StartSweep(o, type, price),
         start' = start, Serves(o, cur', book[Opposite(o.dir)])
  PROVE  Followed' /\ UNCHANGED Rules!vars
<1>1. /\ pc' = "sweep" /\ book' = book /\ tp' = tp
      /\ cur'.dir = o.dir /\ cur'.volume = o.volume
      /\ cur'.last_price = 0 /\ cur'.price_count = 0
  BY DEF StartSweep
<1>2. start.book = book /\ start.count = Len(tp)
  BY DEF Followed, Snapshot
<1>3. /\ book \in [Directions -> SUBSET ComOrders] /\ order_id \in Nat /\ Len(tp) \in Nat
  BY SizesAssumption DEF IInv, TypeOK
<1>4. o.dir \in Directions /\ Opposite(o.dir) \in Directions /\ o.volume \in Nat
  BY OrderFields, RulesSide
<1>5. Counter' = Opposite(o.dir)
  BY <1>1 DEF Counter
<1>6. Queue' = book[Opposite(o.dir)] /\ book'[Counter'] = Queue'
  BY <1>1, <1>2, <1>5 DEF Queue
<1>7. QueueGood'
  <2>1. GoodQueue(book[Opposite(o.dir)], order_id)
    BY <1>4 DEF IInv, QueuesGood, LastRested
  <2>2. order_id' - 1 = order_id
    BY <1>3
  <2>3. Alive(book[Opposite(o.dir)]) /\ WithinLimits(book[Opposite(o.dir)])
    BY <1>4 DEF NothingEmpty, IInv, RestingWithinLimits, Alive, WithinLimits
  <2> QED BY <1>6, <2>1, <2>2, <2>3 DEF QueueGood
<1>8. Sold' = {}
  BY <1>6 DEF Sold
<1>9. NewTrades' = {}
  <2>1. NewTrades' = {tp'[i] : i \in (start'.count + 1)..Len(tp')}
    BY DEF NewTrades
  <2>2. (Len(tp) + 1)..Len(tp) = {}
    BY <1>3
  <2> QED BY <1>1, <1>2, <2>1, <2>2
<1>10. Shares({}) = {} /\ Cardinality({}) = 0
  BY FS_EmptySet DEF Shares
<1>11. LevelsCounted(Counter', Sold', cur'.last_price, cur'.price_count)
  BY <1>1, <1>8, <1>10 DEF LevelsCounted
<1>12. cur'.volume = o.volume - Cardinality(Shares(Sold'))
  <2>1. Cardinality(Shares(Sold')) = 0
    BY <1>8, <1>10, Zenon
  <2>2. o.volume = o.volume - 0
    BY <1>4
  <2> QED BY <1>1, <2>1, <2>2
<1>13. Whole(o.volume)'
  BY <1>6, <1>8, <1>9, <1>11, <1>12 DEF Whole, First
<1>14. Serves(o, cur', Queue')
  BY <1>6
<1>15. start'.count \in 0..Len(tp')
  BY <1>1, <1>2, <1>3
<1>16. Sweeping'
  BY <1>1, <1>2, <1>3, <1>7, <1>13, <1>14, <1>15 DEF Sweeping
<1>17. Followed'
  BY <1>1, <1>16 DEF Followed
<1>18. Arrived' = Arrived
  BY <1>1, <1>3 DEF Arrived
<1>19. Past' = Past
  BY <1>1 DEF Past
<1> QED BY <1>17, <1>18, <1>19, RulesStutter

\* By the rules, an order for no one leaves the other side as it is and makes
\* no trade.
LEMMA NobodyServed ==
  ASSUME IInv, NothingEmpty, pc = "idle", start = Snapshot, NEW o \in Orders,
         o.volume > 0, Rules!Candidates(o) = {}, NEW id
  PROVE  /\ Rules!Reduced(o) = book[Opposite(o.dir)]
         /\ Rules!TradesOf(o, id) = {}
         /\ Rules!Filled(o) = 0
<1> DEFINE d == Opposite(o.dir)
           S == book[d]
<1>1. d \in Directions /\ start.book[d] = S
  BY RulesSide DEF Snapshot
<1>2. S \in SUBSET ComOrders /\ GoodQueue(S, order_id) /\ Alive(S) /\ order_id \in Nat
  BY <1>1, SizesAssumption
  DEF IInv, TypeOK, QueuesGood, LastRested, NothingEmpty, Alive
<1>3. Shares({}) = {} /\ Cardinality({}) = 0
  BY FS_EmptySet DEF Shares
<1>4. o.volume \in Nat
  BY OrderFields
<1> HIDE DEF d, S
<1>5. PICK n \in Nat : n = order_id
  BY <1>2
<1>6. PICK Q \in SUBSET ComOrders : Q = S
  BY <1>2
<1>7. PICK v \in Nat : v = o.volume
  BY <1>4
<1>8. PICK e \in Directions : e = d
  BY <1>1
<1>9. PICK Z : Z = {}
  OBVIOUS
<1>10. /\ GoodQueue(Q, n) /\ Alive(Q) /\ First(e, Z, Q) /\ Cardinality(Shares(Z)) <= v
       /\ Z \in SUBSET Q /\ Z \in SUBSET Z
  BY <1>2, <1>3, <1>5, <1>6, <1>7, <1>9 DEF First
<1>11. /\ Remaining(e, Q, Z, v) = Q \ Z
       /\ Made(e, Z, v, id) = {TradeWith(e, id, r, r.volume) : r \in Z}
       /\ Taken(Z, v) = Cardinality(Shares(Z))
  BY <1>10, SettledWhole
<1>12. start.book[Opposite(o.dir)] = Q
  BY <1>1, <1>6 DEF d
<1>13. /\ Rules!Reduced(o) = Remaining(Opposite(o.dir), Q, Z, o.volume)
       /\ Rules!TradesOf(o, id) = Made(Opposite(o.dir), Z, o.volume, id)
       /\ Rules!Filled(o) = Taken(Z, o.volume)
  BY <1>9, <1>10, <1>12, RulesOutcome
<1> QED BY <1>3, <1>6, <1>7, <1>8, <1>9, <1>11, <1>13 DEF S, d

\* An order that finds nobody and does not rest: an early return.
LEMMA ReturnFollows ==
  ASSUME IInv, NothingEmpty, Followed, pc = "idle", order_id < NumOrders,
         order_id' = order_id + 1, Return, start' = Snapshot',
         NEW o \in Orders, o.volume > 0,
         Rules!Candidates(o) = {}, Rules!RestingPrices(o) = {}
  PROVE  Followed' /\ Rules!Next
<1>1. pc' = "idle" /\ book' = book /\ tp' = tp
  BY DEF Return
<1>2. start = Snapshot
  BY DEF Followed
<1>3. /\ book \in [Directions -> SUBSET ComOrders]
      /\ order_id \in Nat /\ NumOrders \in Nat
  BY SizesAssumption DEF IInv, TypeOK
<1>4. Followed'
  BY <1>1 DEF Followed
<1>5. Arrived < NumOrders /\ Arrived' = Arrived + 1
  BY <1>1 DEF Arrived
<1>6. /\ Rules!Reduced(o) = book[Opposite(o.dir)]
      /\ Rules!TradesOf(o, Arrived') = {}
  BY <1>2, NobodyServed
<1>7. Rules!Rest(o, Arrived') = {}
  BY DEF Rules!Rest
<1>8. start'.book = [start.book EXCEPT
                       ![Opposite(o.dir)] = Rules!Reduced(o),
                       ![o.dir] = @ \cup Rules!Rest(o, Arrived')]
  BY <1>1, <1>2, <1>3, <1>6, <1>7, RulesSide DEF Snapshot
<1>9. Past' = Past \cup Rules!TradesOf(o, Arrived')
  BY <1>1, <1>2, <1>6 DEF Past, Snapshot
<1>10. Rules!Next
  BY <1>5, <1>8, <1>9, RulesSubmit
<1> QED BY <1>4, <1>10

\* An order whose hook drops it.
LEMMA DropFollows ==
  ASSUME IInv, Followed, pc = "idle", order_id < NumOrders,
         order_id' = order_id + 1, order_id' \in HookedIds, Return,
         start' = Snapshot'
  PROVE  Followed' /\ Rules!Next
<1>1. pc' = "idle" /\ book' = book /\ tp' = tp /\ start = Snapshot
  BY DEF Return, Followed
<1>2. Followed'
  BY <1>1 DEF Followed
<1>3. start'.book = start.book /\ start'.count = start.count
  BY <1>1 DEF Snapshot
<1>4. Rules!Drop
  BY <1>1, <1>3 DEF Rules!Drop
<1>5. Rules!Next
  BY <1>1, <1>4 DEF Rules!Next
<1> QED BY <1>2, <1>5

\* The top of a queue has its best price.
LEMMA TopIsBest ==
  ASSUME NEW d \in Directions, book[d] \in SUBSET ComOrders,
         NEW t \in book[d], IsTop(d, t)
  PROVE  BestOf(d, book[d], t.price)
<1>1. \A x \in book[d] : x.price \in Nat
  BY DEF ComOrders
<1>2. \A x \in book[d] : ~Rules!BetterPrice(d, x.price, t.price)
  BY <1>1 DEF IsTop, Before, Rules!BetterPrice
<1> QED BY <1>2 DEF BestOf

\* A ClientBest order joins its side at the best price there, as the rules say.
LEMMA ClientBestFollows ==
  ASSUME IInv, NothingEmpty, Followed, pc = "idle", order_id < NumOrders,
         order_id' = order_id + 1, start' = Snapshot',
         NEW o \in Orders, o.type = "ClientBest", o.volume > 0,
         ProcessClientBest(o)
  PROVE  Followed' /\ Rules!Next
<1>1. start = Snapshot /\ start.book = book
  BY DEF Followed, Snapshot
<1>2. /\ book \in [Directions -> SUBSET ComOrders]
      /\ order_id \in Nat /\ NumOrders \in Nat
      /\ o.dir \in Directions /\ o.volume \in Nat /\ o.volume < VolumeField
  BY OrderFields, SizesAssumption DEF IInv, TypeOK
<1>3. Rules!Candidates(o) = {}
  BY DEF Rules!Candidates
<1>4. CASE book[o.dir] = {} /\ Return
  <2>1. Rules!RestingPrices(o) = {}
    BY <1>1, <1>4 DEF Rules!RestingPrices
  <2> QED BY <1>3, <1>4, <2>1, ReturnFollows
<1>5. ASSUME NEW t \in book[o.dir], IsTop(o.dir, t),
             Push(o.dir, ComOrder(order_id', t.price, o.volume), o.volume),
             pc' = "idle", UNCHANGED <<tp, cur>>
      PROVE  Followed' /\ Rules!Next
  <2>1. Followed'
    BY <1>5 DEF Followed
  <2>2. Arrived < NumOrders /\ Arrived' = Arrived + 1 /\ Arrived' = order_id'
    BY <1>5 DEF Arrived
  <2>3. t.price \in MinPrice..MaxPrice
    BY <1>2 DEF IInv, RestingWithinLimits
  <2>4. order_id' \in Nat
    BY <1>2
  <2>5. ComOrder(order_id', t.price, o.volume)
          = [order_id |-> order_id', price |-> t.price, volume |-> o.volume]
    <3>1. PICK i \in Nat : i = order_id'
      BY <2>4
    <3> QED BY <1>2, <2>3, <3>1, ComOrderFits
  <2>6. Rules!BestPrice(o.dir) = t.price
    <3>1. book[o.dir] \in SUBSET ComOrders
      BY <1>2
    <3>2. BestOf(o.dir, book[o.dir], t.price)
      BY <1>2, <1>5, <3>1, TopIsBest
    <3> QED BY <1>1, <1>2, <3>1, <3>2, RulesBest
  <2>7. Rules!RestingPrices(o) = {t.price}
    BY <1>1, <2>6 DEF Rules!RestingPrices
  <2>8. /\ Rules!Reduced(o) = book[Opposite(o.dir)]
        /\ Rules!TradesOf(o, Arrived') = {}
        /\ Rules!Filled(o) = 0
    BY <1>1, <1>3, NobodyServed
  <2>9. Rules!Rest(o, Arrived')
          = {[order_id |-> order_id', price |-> t.price, volume |-> o.volume]}
    <3>1. o.volume - Rules!Filled(o) = o.volume /\ o.volume > Rules!Filled(o)
      BY <1>2, <2>8
    <3>2. {q \in Rules!RestingPrices(o) : o.volume > Rules!Filled(o)} = {t.price}
      BY <2>7, <3>1
    <3> QED BY <2>2, <3>1, <3>2 DEF Rules!Rest
  <2>10. book' = [book EXCEPT ![o.dir] = @ \cup Rules!Rest(o, Arrived')]
    BY <1>5, <2>5, <2>9 DEF Push
  <2>11. start'.book = [start.book EXCEPT
                          ![Opposite(o.dir)] = Rules!Reduced(o),
                          ![o.dir] = @ \cup Rules!Rest(o, Arrived')]
    <3>1. PICK R : R = Rules!Rest(o, Arrived')
      OBVIOUS
    <3>2. start'.book = [book EXCEPT ![o.dir] = @ \cup R]
      BY <2>10, <3>1 DEF Snapshot
    <3>3. [book EXCEPT ![Opposite(o.dir)] = book[Opposite(o.dir)]] = book
      BY <1>2
    <3> QED BY <1>1, <2>8, <3>1, <3>2, <3>3
  <2>12. Past' = Past \cup Rules!TradesOf(o, Arrived')
    BY <1>1, <1>5, <2>8 DEF Past, Snapshot
  <2>13. Rules!Next
    BY <2>2, <2>11, <2>12, RulesSubmit
  <2> QED BY <2>1, <2>13
<1> QED BY <1>4, <1>5 DEF ProcessClientBest

\* Taking an order is its step of the rules, or the beginning of it.
LEMMA ProcessFollows ==
  ASSUME 0 \notin Volumes, IInv, NothingEmpty, Followed,
         NEW o \in Orders, Process(o),
         start' = IF pc' = "idle" THEN Snapshot' ELSE start
  PROVE  Followed' /\ (Rules!Next \/ UNCHANGED Rules!vars)
<1>1. pc = "idle" /\ order_id < NumOrders /\ order_id' = order_id + 1
  BY DEF Process
<1>2. start.book = book
  BY <1>1 DEF Followed, Snapshot
<1>3. /\ o.dir \in Directions /\ o.volume \in Nat /\ o.volume > 0 /\ o.price \in Nat
      /\ Opposite(o.dir) \in Directions /\ Rules!CounterSide(o) = Opposite(o.dir)
  <2>1. o.volume \in Volumes
    BY DEF Orders
  <2> QED BY <2>1, OrderFields, RulesSide
<1>4. book \in [Directions -> SUBSET ComOrders]
  BY DEF IInv, TypeOK
<1>5. Return => start' = Snapshot'
  BY DEF Return
<1>6. ASSUME Return, Rules!Candidates(o) = {}, Rules!RestingPrices(o) = {}
      PROVE  Followed' /\ Rules!Next
  BY <1>1, <1>3, <1>5, <1>6, ReturnFollows
<1>7. ASSUME NEW type, NEW price, StartSweep(o, type, price),
             Serves(o, cur', book[Opposite(o.dir)])
      PROVE  Followed' /\ UNCHANGED Rules!vars
  <2>1. start' = start
    BY <1>7 DEF StartSweep
  <2> QED BY <1>1, <1>7, <2>1, StartSweepFollows
<1>8. CASE order_id' \in HookedIds /\ Return
  BY <1>1, <1>5, <1>8, DropFollows
<1>9. CASE o.type = "Limit" /\ ProcessLimit(o, o.price)
  <2>1. CASE OutsideLimits(o.price)
    <3>1. o.price \notin MinPrice..MaxPrice
      BY <1>3, <2>1, LimitsType DEF OutsideLimits
    <3>2. Return
      BY <1>9, <2>1 DEF ProcessLimit
    <3>3. Rules!Candidates(o) = {} /\ Rules!RestingPrices(o) = {}
      BY <1>9, <3>1 DEF Rules!Candidates, Rules!RestingPrices
    <3> QED BY <1>6, <3>2, <3>3
  <2>2. CASE ~OutsideLimits(o.price)
    <3>1. o.price \in MinPrice..MaxPrice
      BY <1>3, <2>2, LimitsType DEF OutsideLimits
    <3>2. StartSweep(o, "Limit", o.price)
      BY <1>9, <2>2 DEF ProcessLimit
    <3>3. Serves(o, cur', book[Opposite(o.dir)])
      BY <1>9, <3>1, <3>2 DEF StartSweep, Serves
    <3> QED BY <1>7, <3>2, <3>3
  <2> QED BY <2>1, <2>2
<1>10. CASE o.type = "CounterBest" /\ ProcessCounterBest(o)
  <2>1. CASE book[Opposite(o.dir)] = {} /\ Return
    <3>1. Rules!Candidates(o) = {}
      BY <1>2, <1>3, <1>10, <2>1 DEF Rules!Candidates
    <3>2. Rules!RestingPrices(o) = {}
      BY <1>2, <1>3, <1>10, <2>1 DEF Rules!RestingPrices
    <3> QED BY <1>6, <2>1, <3>1, <3>2
  <2>2. ASSUME NEW t \in book[Opposite(o.dir)], IsTop(Opposite(o.dir), t),
               ProcessLimit(o, t.price)
        PROVE  Followed' /\ UNCHANGED Rules!vars
    <3>1. t.price \in MinPrice..MaxPrice
      BY <1>3 DEF IInv, RestingWithinLimits
    <3>2. ~OutsideLimits(t.price)
      BY <3>1, LimitsType DEF OutsideLimits
    <3>3. StartSweep(o, "Limit", t.price)
      BY <2>2, <3>2 DEF ProcessLimit
    <3>4. BestOf(Opposite(o.dir), book[Opposite(o.dir)], t.price)
      BY <1>3, <1>4, <2>2, TopIsBest
    <3>5. Serves(o, cur', book[Opposite(o.dir)])
      BY <1>10, <3>1, <3>3, <3>4 DEF StartSweep, Serves
    <3> QED BY <1>7, <3>3, <3>5
  <2> QED BY <1>10, <2>1, <2>2 DEF ProcessCounterBest
<1>11. CASE o.type = "ClientBest" /\ ProcessClientBest(o)
  <2>1. start' = Snapshot'
    BY <1>11 DEF ProcessClientBest, Return
  <2> QED BY <1>1, <1>3, <1>11, <2>1, ClientBestFollows
<1>12. CASE o.type \in {"BestFive", "FAK"} /\ StartSweep(o, o.type, 0)
  <2>1. Serves(o, cur', book[Opposite(o.dir)])
    BY <1>12 DEF StartSweep, Serves
  <2> QED BY <1>7, <1>12, <2>1
<1>13. CASE o.type = "FOK" /\ ProcessFok(o)
  <2>1. /\ total[Opposite(o.dir)] = Cardinality(Shares(book[Opposite(o.dir)]))
        /\ total[Opposite(o.dir)] \in Nat
    BY <1>3 DEF IInv, TotalsMatch, TypeOK
  <2>2. CASE CannotFill(o)
    <3>1. Return
      BY <1>13, <2>2 DEF ProcessFok
    <3>2. ~(Rules!Volume(book[Opposite(o.dir)]) >= o.volume)
      <4>1. Rules!Volume(book[Opposite(o.dir)]) = total[Opposite(o.dir)]
        BY <2>1, RulesVolume
      <4> QED BY <1>3, <2>1, <2>2, <4>1 DEF CannotFill
    <3>3. Rules!Candidates(o) = {}
      BY <1>2, <1>3, <1>13, <3>2 DEF Rules!Candidates
    <3>4. Rules!RestingPrices(o) = {}
      BY <1>13 DEF Rules!RestingPrices
    <3> QED BY <1>6, <3>1, <3>3, <3>4
  <2>3. CASE ~CannotFill(o)
    <3>1. StartSweep(o, "FOK", 0)
      BY <1>13, <2>3 DEF ProcessFok
    <3>2. o.volume <= Cardinality(Shares(book[Opposite(o.dir)]))
      BY <1>3, <2>1, <2>3 DEF CannotFill
    <3>3. Serves(o, cur', book[Opposite(o.dir)])
      BY <1>13, <3>1, <3>2 DEF StartSweep, Serves
    <3> QED BY <1>7, <3>1, <3>3
  <2> QED BY <2>2, <2>3
<1> QED BY <1>8, <1>9, <1>10, <1>11, <1>12, <1>13 DEF Process, Dispatch

\* The day begins as the rules say.
LEMMA RulesInit == RInit => Rules!Init /\ Followed
<1> SUFFICES ASSUME RInit PROVE Rules!Init /\ Followed
  OBVIOUS
<1>1. /\ pc = "idle" /\ order_id = 0 /\ tp = <<>> /\ start = Snapshot
      /\ book = [d \in {"Bid", "Ask"} |-> {}]
  BY DEF RInit, Init, Directions
<1>2. Past = {}
  BY <1>1 DEF Past, Snapshot
<1>3. Rules!Init
  BY <1>1, <1>2 DEF Rules!Init, Past, Snapshot
<1> QED BY <1>1, <1>3 DEF Followed

\* Every step is a step of the rules or none.
LEMMA RulesStep ==
  ASSUME 0 \notin Volumes, MinPrice > 0, IInv, NothingEmpty, Followed,
         [RNext]_<<vars, start>>
  PROVE  Followed' /\ [Rules!Next]_(Rules!vars)
<1>1. CASE UNCHANGED <<vars, start>>
  <2>1. /\ pc' = pc /\ order_id' = order_id /\ book' = book /\ tp' = tp
        /\ cur' = cur /\ start' = start
    BY <1>1 DEF vars
  <2>2. Counter' = Counter /\ Queue' = Queue /\ Sold' = Sold
    BY <2>1 DEF Counter, Queue, Sold
  <2>3. Offer' = Offer /\ NewTrades' = NewTrades /\ (QueueGood => QueueGood')
    BY <2>1, <2>2 DEF Offer, NewTrades, QueueGood
  <2>4. \A o \in Orders : (Whole(o.volume) => Whole(o.volume)')
                            /\ (Settled(o.volume) => Settled(o.volume)')
    BY <2>1, <2>2, <2>3 DEF Whole, Settled
  <2>5. Sweeping => Sweeping'
    BY <2>1, <2>2, <2>3, <2>4 DEF Sweeping
  <2>6. Followed'
    BY <2>1, <2>5 DEF Followed, Snapshot
  <2> QED BY <2>1, <2>6, RulesStutter DEF Arrived, Past
<1>2. CASE RNext
  <2>1. Next /\ start' = IF pc' = "idle" THEN Snapshot' ELSE start
    BY <1>2 DEF RNext
  <2>2. ASSUME NEW o \in Orders, Process(o) PROVE Followed' /\ [Rules!Next]_(Rules!vars)
    BY <2>1, <2>2, ProcessFollows
  <2>3. CASE MatchTop
    <3>1. start' = start
      BY <2>1, <2>3 DEF MatchTop, Commit, Abort
    <3> QED BY <2>3, <3>1, MatchTopFollows
  <2>4. CASE EndSweep
    <3>1. start' = Snapshot'
      BY <2>1, <2>4 DEF EndSweep
    <3> QED BY <2>4, <3>1, EndSweepFollows
  <2>5. CASE Finished
    <3>1. /\ pc = "idle" /\ pc' = pc /\ order_id' = order_id /\ book' = book /\ tp' = tp
      BY <2>5 DEF Finished, vars
    <3>2. start' = start /\ Followed'
      BY <2>1, <3>1 DEF Followed, Snapshot
    <3> QED BY <3>1, <3>2, RulesStutter DEF Arrived, Past
  <2> QED BY <2>1, <2>2, <2>3, <2>4, <2>5 DEF Next
<1> QED BY <1>1, <1>2

\* The Processor implements the exchange's rules: in whatever order the steps
\* of its loops leave it, each call of process() that returns has given every
\* resting order, and the order itself, exactly what include/trade.h:20-27
\* promises.  An order of volume 0 would rest where the rules know no order, and
\* a resting price of 0 would be a level that process_best_five does not count.
THEOREM MatchingImplementsRules ==
  ASSUME 0 \notin Volumes, MinPrice > 0
  PROVE  RSpec => ImplementsRules
<1> DEFINE RInv == IInv /\ NothingEmpty /\ Followed
<1>1. RInit => RInv /\ Rules!Init
  BY InitInv, RulesInit DEF RInit, Init, NothingEmpty
<1>2. RInv /\ [RNext]_<<vars, start>> => RInv' /\ [Rules!Next]_(Rules!vars)
  <2> SUFFICES ASSUME IInv, NothingEmpty, Followed, [RNext]_<<vars, start>>
               PROVE  RInv' /\ [Rules!Next]_(Rules!vars)
    OBVIOUS
  <2>1. [Next]_vars
    BY DEF RNext
  <2>2. IInv' /\ NothingEmpty'
    BY <2>1, Inductive, NothingEmptyKept
  <2> QED BY <2>2, RulesStep
<1> QED BY <1>1, <1>2, PTL DEF RSpec, ImplementsRules, Rules!Spec
=============================================================================
