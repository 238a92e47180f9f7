\* Three packets over one connection that may break between any two bytes.  It
\* may be given up or broken with nothing left to do: deadlock is not checked.
SPECIFICATION FairSpec
CONSTANTS
  Packets <- ThreePackets
  NumBits <- Bits
  Room = 3
INVARIANTS
  WholePackets
PROPERTIES
  HeldArrives
  ImplementsNetwork
CHECK_DEADLOCK FALSE
