\* Fair schedules of two producers and two Senders over three packets.  When
\* all are written nothing is left to do: deadlock is not checked.
SPECIFICATION FairSpec
CONSTANTS
  Producers = {p1, p2}
  Consumers = {c1, c2}
  NoThread = NoThread
  Packets <- MCPackets
INVARIANTS
  NoLostWakeup
  OnePlace
PROPERTIES
  SentIsWritten
  ImplementsPool
CHECK_DEADLOCK FALSE
