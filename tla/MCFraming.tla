----------------------------- MODULE MCFraming ------------------------------
EXTENDS Framing, TLC

P(s, n) == [from |-> 0, shard |-> s, seq |-> n]

\* Packets of two stocks: one with two bytes of data, its last one without
\* any, and one with a byte that is not full.
ThreePackets == {P(0, 0), P(0, 1), P(1, 0)}

Bits == (P(0, 0) :> 9 @@ P(0, 1) :> 0 @@ P(1, 0) :> 3)
=============================================================================
