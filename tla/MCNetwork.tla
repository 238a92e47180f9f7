----------------------------- MODULE MCNetwork ------------------------------
EXTENDS Network

\* Each exchanger with one connection to each trader.
TwoExchangers == {[trader |-> t, exchanger |-> e, k |-> 1] : t \in Traders, e \in Exchangers}

\* One packet each way.
TwoPackets == {[from |-> t, shard |-> 0, seq |-> 0] : t \in Traders}
=============================================================================
