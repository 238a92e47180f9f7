\* Two exchangers, one connection to each trader, a packet each way; any
\* connection may fail, break, or break after having been used.  Then packets
\* may be lost and nothing is left to do: deadlock is not checked.
SPECIFICATION FairSpec
CONSTANTS
  Exchangers = {2, 3}
  Connections <- TwoExchangers
  Packets <- TwoPackets
INVARIANTS
  OnlyFromPeer
  OnePlace
PROPERTIES
  ImplementsChannel
  FlushedArrives
CHECK_DEADLOCK FALSE
