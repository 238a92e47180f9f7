----------------------------- MODULE TradingDay -----------------------------
(***************************************************************************)
(* The two traders of a day side by side.  Both run every order of every   *)
(* stock through the same engine and wait for each other's stocks through  *)
(* the same hooks, each at a speed of its own and each with threads that   *)
(* may end early; check.sh compares their trade files byte by byte.        *)
(*                                                                         *)
(* HookWait leaves open what an order trades.  Here the engine decides:    *)
(* which trades a stock makes is a function of the orders that reached its *)
(* books (Matching has no choice left once the orders are given, and an    *)
(* order changes nothing that happened before it).                         *)
(***************************************************************************)
EXTENDS HookWait

CONSTANTS
  Engines  \* what an engine may do: for a set of order ids, the volumes of
           \* the trades made when these orders are processed by rising id

Orders == 1..NumOrders

\* p is the beginning of q.
Begins(p, q) == Len(p) <= Len(q) /\ \A i \in 1..Len(p) : p[i] = q[i]

ASSUME EngineAssumption ==
  /\ Engines \subseteq [SUBSET Orders -> Seq(Volumes)]
  /\ \A e \in Engines : \A A \in SUBSET Orders :
       \* at most one trade per order
       /\ \A n \in 0..NumOrders : A \subseteq 1..n => Len(e[A]) <= n
       \* later orders do not undo earlier trades
       /\ \A n \in 0..NumOrders : Begins(e[A \cap (1..n)], e[A])

VARIABLES
  engine,  \* per stock, its engine
  peer     \* what the other trader has decided so far: per stock, how many
           \* orders it has taken, and which of them it has matched

dayVars == <<vars, engine, peer>>

-----------------------------------------------------------------------------

\* The trades that the matched orders of the stock make.
Earned(s) == engine[s][matched[s]]

\* commit() for the next trade of the order, or the end of process().
Follows(s) ==
  trades' = [trades EXCEPT ![s] =
               IF idx(s) < Len(Earned(s)) THEN Append(@, Earned(s)[idx(s) + 1]) ELSE @]

DayStep(s) == Step(s) /\ (pc[s] = "match" => Follows(s))

\* The orders of a day so far are decided by the trades of that day: every
\* hook on an order names a trade that is made, and the order is matched when
\* none of them exceeds its threshold.
IsDay(day) ==
  \A s \in Stocks :
    /\ day.matched[s] \subseteq 1..day.taken[s]
    /\ \A n \in 1..day.taken[s] :
         LET on == {h \in Hooks : hook[h].src = s /\ hook[h].self_order_id = n}
             made(h) == engine[hook[h].target][day.matched[hook[h].target]]
         IN  /\ \A h \in on : hook[h].trade_id \in DOMAIN made(h)
             /\ n \in day.matched[s] <=>
                  \A h \in on : made(h)[hook[h].trade_id] <= hook[h].threshold

DayRecords == [taken : [Stocks -> 0..NumOrders], matched : [Stocks -> SUBSET Orders]]

DayInit ==
  /\ Init
  /\ engine \in [Stocks -> Engines]
  /\ peer \in {day \in DayRecords : IsDay(day)}

DayNext == ((\E s \in Stocks : DayStep(s)) \/ Joined) /\ UNCHANGED <<engine, peer>>

DaySpec == DayInit /\ [][DayNext]_dayVars

-----------------------------------------------------------------------------
(* Properties.  A checker that sticks ignores hooks (CheckerSticks); the   *)
(* tables that make one stick are set aside.                               *)

NoneSticks == \A s \in Stocks : ~CheckerSticks(s)

\* The order at hand is not decided while its hook is waited for, and never
\* will be once the hook is broken.
Decided(s) ==
  IF \/ pc[s] = "wait"
     \/ \E h \in Hooks : /\ hook[h].src = s /\ hook[h].self_order_id = order_id[s]
                         /\ shared[h] = Broken
  THEN order_id[s] - 1
  ELSE order_id[s]

\* At any moment the orders decided so far form a day: the timing of promises
\* and futures, and threads that die, never decide an order in a way the
\* trades of the day do not (hook.h:60-69, hook.h:86-92).
OwnDay ==
  NoneSticks => IsDay([taken |-> [s \in Stocks |-> Decided(s)], matched |-> matched])

\* Whatever the other trader has decided, the two files of a stock hold the
\* same trades as far as both go, and are equal once both traders have
\* processed all orders (check.sh:5).
TradersAgree ==
  NoneSticks =>
    \A s \in Stocks :
      LET theirs == engine[s][peer.matched[s]]
      IN  /\ Begins(trades[s], theirs) \/ Begins(theirs, trades[s])
          /\ pc[s] = "done" /\ Decided(s) = NumOrders /\ peer.taken[s] = NumOrders
               => trades[s] = theirs

\* The whole day is possible, and every thread has got hold of its file.
AllStarted ==
  /\ \A s \in Stocks : peer.taken[s] = NumOrders /\ ~NotifierSticks(s)
  /\ \A s \in Stocks : pc[s] \in {"exit", "done"} => order_id[s] > 0

\* If the other trader can go through the whole day, no thread is ended by a
\* broken promise here as long as none fails to start: each that returns has
\* written the complete file (hook.h:63, trader.cpp:67-73).
NoneLeftBehind ==
  NoneSticks /\ AllStarted =>
    \A s \in Stocks : pc[s] = "done" => trades[s] = engine[s][peer.matched[s]]
=============================================================================
