\* Every division of six order ids among the traders, every schedule.
SPECIFICATION FairSpec
CONSTANTS
  NumOrders = 6
INVARIANTS
  SameOrders
PROPERTIES
  BothFinish
CHECK_DEADLOCK FALSE
