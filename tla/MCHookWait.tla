----------------------------- MODULE MCHookWait ----------------------------
(* Hook tables small enough to run every schedule of the stock threads.    *)
EXTENDS HookWait

CONSTANTS h1, h2

\* Every table of two hooks over two stocks, up to the names of the stocks, the
\* ones that make a checker or a notifier stick and the ones whose waits form a
\* circle included.
AllTables ==
  {t \in [Hooks -> [src : Stocks, self_order_id : 0..NumOrders, target : Stocks,
                    trade_id : 0..NumOrders, threshold : Thresholds]] : t[h1].src = 0}
=============================================================================
