---------------------------- MODULE MCTradingDay ----------------------------
(* Two stocks whose orders wait for each other's trades.                   *)
EXTENDS TradingDay, SequencesExt

CONSTANTS h1, h2

\* Two hooks on stock 0, or one in each direction: on any order, for any trade.
CrossTables ==
  {t \in [Hooks -> [src : Stocks, self_order_id : Orders, target : Stocks,
                    trade_id : 1..(NumOrders - 1), threshold : Thresholds]] :
     t[h1].src = 0 /\ \A h \in Hooks : t[h].target = 1 - t[h].src}

\* An order trades with the one before it, if that was not dropped.
Engine(volume) ==
  [A \in SUBSET Orders |->
     LET takers == SetToSortSeq({n \in A : n - 1 \in A}, <)
     IN  [i \in DOMAIN takers |-> volume[takers[i]]]]

PairEngines == {Engine(volume) : volume \in {f \in [Orders -> Volumes] : f[1] = 1}}
=============================================================================
