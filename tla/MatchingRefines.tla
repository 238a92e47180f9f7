--------------------------- MODULE MatchingRefines --------------------------
(***************************************************************************)
(* The Processor implements the exchange's rules.  An order takes effect   *)
(* in MatchingRules when process() returns; while its loop runs, the       *)
(* abstract state is the one the call started from, which the history      *)
(* variable start remembers.                                               *)
(***************************************************************************)
EXTENDS Matching

VARIABLE start  \* the books and the number of trades at the last idle point

Snapshot == [book |-> book, count |-> Len(tp)]

RInit == Init /\ start = Snapshot

RNext ==
  /\ Next
  /\ start' = IF pc' = "idle" THEN Snapshot' ELSE start

RSpec == RInit /\ [][RNext]_<<vars, start>>

Rules == INSTANCE MatchingRules WITH
  arrived <- IF pc = "idle" THEN order_id ELSE order_id - 1,
  resting <- start.book,
  trades  <- {tp[i] : i \in 1..start.count}

\* Whatever the loops do, each order ends up with exactly the trades, the
\* remainder and the place in the book that its type promises
\* (include/trade.h:20-27), in price-time priority.
ImplementsRules == Rules!Spec
=============================================================================
