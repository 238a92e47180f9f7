\* Two connections of a trader and a move.  When everything is served,
\* nothing has to happen any more: deadlock is not checked.
SPECIFICATION PortsFairSpec
CONSTANTS
  Ends <- TwoEnds
  ConfPort <- FilePorts
  ConfOwn <- FileOwn
  NewPorts = {4}
  NewOwn = {9}
  MAX_RETRY = 2
  MaxMoves = 1
  MaxFailures = 3
INVARIANTS
  TablesAgree
  NoneTurnedAway
  StillAwaited
PROPERTIES
  Settles
CHECK_DEADLOCK FALSE
