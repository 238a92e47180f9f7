\* Two stocks, each with two slices of two rows.  When the orders are sent, or a
\* file is missing, nothing follows: deadlock is not checked.
SPECIFICATION ReaderFairSpec
CONSTANTS
  NR_STOCKS = 2
  ORDER_DX = 4
  ORDER_DY = 1
  ORDER_DZ = 2
  IdFiles <- SomeFiles
INVARIANTS
  OwnRowsById
  OnlyWhatWasRead
PROPERTIES
  SentOrDead
CHECK_DEADLOCK FALSE
