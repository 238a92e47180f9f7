------------------------------ MODULE MCReader ------------------------------
EXTENDS Reader

\* Ids of the two stocks; the others are in the other trader's files.
Ids == <<<<1, 3, 5, 8>>, <<2, 3, 7, 8>>>>

Orders(last) == {p \in [1..4 -> 1..4] : {p[i] : i \in 1..4} = 1..4 /\ p[4] <= last}

\* The k-th row of a stock among its rows, with two slices of two rows.
Nth(i) == 2 * (i \div 4) + (i % 2) + 1

\* The ids of stock 0 in any order, those of stock 1 in a few.
SomeFiles ==
  {[i \in 0..7 |-> Ids[StockOf(i) + 1][(IF StockOf(i) = 0 THEN p ELSE q)[Nth(i)]]] :
     p \in Orders(4), q \in Orders(1)}
=============================================================================
