------------------------------- MODULE Reader -------------------------------
(***************************************************************************)
(* How a trader's orders get from its files to its streams (src/reader.cpp,*)
(* main and the encoding loop of process_stock in src/trader.cpp).  Five   *)
(* threads read a column each while the main thread scatters the rows over *)
(* the stocks by their order ids; then each stock sends its rows.  What is *)
(* in a column does not matter here, only that it was read.                *)
(***************************************************************************)
EXTENDS Integers, Sequences, FiniteSets

CONSTANTS
  NR_STOCKS,
  ORDER_DX, ORDER_DY, ORDER_DZ,  \* the shape of the columns
  IdFiles  \* what may be in the column order_id

Rows == ORDER_DX * ORDER_DY * ORDER_DZ
NR_ORDERS_SINGLE_STK_HALF == Rows \div NR_STOCKS
MaxId == 2 * NR_ORDERS_SINGLE_STK_HALF  \* the other trader has the other half

Stocks == 0..(NR_STOCKS - 1)
Columns == {"order_id", "direction", "type", "price", "volume"}

\* What main does after it waited for a column, and the other steps it takes.
After ==
  [order_id |-> "scatter", direction |-> "type", type |-> "price", price |-> "volume",
   volume |-> "hooks"]

\* The stock of row i: the files have the stocks' slices in turn.
StockOf(i) == (i \div (ORDER_DY * ORDER_DZ)) % NR_STOCKS

\* A stock's ids are distinct in a trader's file.
ASSUME ReaderAssumption ==
  /\ {NR_STOCKS, ORDER_DX, ORDER_DY, ORDER_DZ} \subseteq Nat \ {0}
  /\ ORDER_DX % NR_STOCKS = 0
  /\ \A f \in IdFiles :
       /\ f \in [0..(Rows - 1) -> 1..MaxId]
       /\ \A i, j \in 0..(Rows - 1) : StockOf(i) = StockOf(j) /\ f[i] = f[j] => i = j

VARIABLES
  order_id,      \* the column of that name, rows in the order of the file
  columns,       \* the five std::async
  main,            \* where main is; "dead": an exception ended the process
  cell,          \* the next x, y, z of the scatter
  order_id_pos,  \* per stock and id - 1 a row, or -1
  at,            \* per stock, the position of its encoding loop
  sent           \* per stock, the rows given to the encoder

readerVars == <<order_id, columns, main, cell, order_id_pos, at, sent>>

-----------------------------------------------------------------------------

\* A thread of std::async ends: its column is there, or a file is missing or
\* of another shape.
ReadOne(c) ==
  /\ main # "dead"
  /\ columns[c] = "reading"
  /\ \E result \in {"there", "failed"} : columns' = [columns EXCEPT ![c] = result]
  /\ UNCHANGED <<order_id, main, cell, order_id_pos, at, sent>>

\* Mistake: a column is taken as it is.
NotAwaited(c) == columns[c] # "failed"

Ready(c) == columns[c] = "there"

\* Mistake: the exception stays in its thread.
Swallowed(c) == FALSE

Rethrown(c) == columns[c] = "failed"

\* get() of a future; an exception comes out of main.
Get(c) ==
  /\ main = c
  /\ \/ Ready(c) /\ main' = After[c]
     \/ Rethrown(c) /\ main' = "dead"
  /\ UNCHANGED <<order_id, columns, cell, order_id_pos, at, sent>>

InTurn(x) == x % NR_STOCKS

\* Mistake: the loops count from the other end.
Transposed(x, y, z) == (z * ORDER_DY + y) * ORDER_DX + x

Index(x, y, z) == (x * ORDER_DY + y) * ORDER_DZ + z

\* The loop's next cell, z first.
Following(x, y, z) ==
  CASE z + 1 < ORDER_DZ -> <<x, y, z + 1>>
    [] z + 1 = ORDER_DZ /\ y + 1 < ORDER_DY -> <<x, y + 1, 0>>
    [] OTHER -> <<x + 1, 0, 0>>

Scatter ==
  LET x == cell[1]  y == cell[2]  z == cell[3]  idx == Index(x, y, z)
  IN  /\ main = "scatter"
      /\ x < ORDER_DX
      /\ order_id_pos' = [order_id_pos EXCEPT ![InTurn(x)][order_id[idx] - 1] = idx]
      /\ cell' = Following(x, y, z)
      /\ UNCHANGED <<order_id, columns, main, at, sent>>

\* main reads the closing prices beside the threads that are still reading.
ReadPrevClose ==
  /\ main = "scatter"
  /\ cell[1] = ORDER_DX
  /\ main' \in {"direction", "dead"}
  /\ UNCHANGED <<order_id, columns, cell, order_id_pos, at, sent>>

\* The hooks are read after all columns, and the stocks start.
ReadHooks ==
  /\ main = "hooks"
  /\ main' \in {"run", "dead"}
  /\ UNCHANGED <<order_id, columns, cell, order_id_pos, at, sent>>

HasRow(idx) == idx # -1

\* The encoding loop of process_stock.
EncodeRow(s) ==
  LET idx == order_id_pos[s][at[s]]
  IN  /\ main = "run"
      /\ at[s] < MaxId
      /\ at' = [at EXCEPT ![s] = @ + 1]
      /\ sent' = [sent EXCEPT ![s] = IF HasRow(idx) THEN Append(@, idx) ELSE @]
      /\ UNCHANGED <<order_id, columns, main, cell, order_id_pos>>

ReaderInit ==
  /\ order_id \in IdFiles
  /\ columns = [c \in Columns |-> "reading"]
  /\ main = "order_id"
  /\ cell = <<0, 0, 0>>
  /\ order_id_pos = [s \in Stocks |-> [i \in 0..(MaxId - 1) |-> -1]]
  /\ at = [s \in Stocks |-> 0]
  /\ sent = [s \in Stocks |-> <<>>]

ReaderNext ==
  \/ \E c \in Columns : ReadOne(c) \/ Get(c)
  \/ Scatter \/ ReadPrevClose \/ ReadHooks
  \/ \E s \in Stocks : EncodeRow(s)

ReaderSpec == ReaderInit /\ [][ReaderNext]_readerVars

\* Threads run, and files are read or fail.
ReaderFairness ==
  /\ \A c \in Columns : WF_readerVars(ReadOne(c))
  /\ WF_readerVars(Scatter \/ ReadPrevClose \/ ReadHooks \/ \E c \in Columns : Get(c))
  /\ \A s \in Stocks : WF_readerVars(EncodeRow(s))

ReaderFairSpec == ReaderSpec /\ ReaderFairness

-----------------------------------------------------------------------------
(* Properties.                                                             *)

\* A stock sends rows of its own, in the order of their ids, the order in
\* which OrderMerger takes them up again, and when its loop is over it has
\* sent every one of them (reader.cpp:215, trader.cpp:48).
OwnRowsById ==
  \A s \in Stocks :
    /\ \A i \in DOMAIN sent[s] : StockOf(sent[s][i]) = s
    /\ \A i, j \in DOMAIN sent[s] : i < j => order_id[sent[s][i]] < order_id[sent[s][j]]
    /\ at[s] = MaxId => \A i \in 0..(Rows - 1) : StockOf(i) = s => \E k \in DOMAIN sent[s] : sent[s][k] = i

\* No row is encoded from a column that is not there (reader.cpp:223).
OnlyWhatWasRead == (\E s \in Stocks : at[s] > 0) => \A c \in Columns : columns[c] = "there"

\* The orders are sent, or a file ended the process: main waits for nothing
\* that does not come (reader.cpp:208).
SentOrDead == <>(main = "dead" \/ \A s \in Stocks : at[s] = MaxId)
=============================================================================
