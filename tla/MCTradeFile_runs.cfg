\* Three runs over an old file.  The last run may be the end of it all:
\* deadlock is not checked.
SPECIFICATION Spec
CONSTANTS
  MaxTrades = 4
  NumTrades = 3
  Lives = 3
  OldFiles <- FilesBefore
INVARIANTS
  TradesStand
  CutIsClean
  ClosedIsDurable
CHECK_DEADLOCK FALSE
