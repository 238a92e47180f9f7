--------------------------- MODULE MCPacketQueue ----------------------------
EXTENDS PacketQueue

\* Two shards, sequence numbers that coincide across them.
MCPackets == {[shard |-> 0, seq |-> 0], [shard |-> 0, seq |-> 1],
              [shard |-> 1, seq |-> 0]}
=============================================================================
