---------------------------- MODULE MCTradeFile -----------------------------
EXTENDS TradeFile

\* No file, a shorter and a longer one.
FilesBefore == {[i \in 1..n |-> Foreign] : n \in {0, 1, MaxTrades}}
=============================================================================
