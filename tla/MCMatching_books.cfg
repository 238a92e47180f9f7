\* Every sequence of four orders over three admissible prices and one that
\* is above the limit; the third order may be dropped by its hook.
SPECIFICATION RSpec
CONSTANTS
  NumOrders = 4
  MaxTradeCnt = 4
  PrevClose = 10
  Prices = {9, 10, 11, 12}
  Volumes = {1, 2, 3}
  HookedIds = {3}
  BestLevels = 2
  Word = 65536
  PriceField = 16
  VolumeField = 4
INVARIANTS
  NeverAborts
  Uncrossed
  TotalsMatch
  TradesWithinLimits
PROPERTIES
  FillOrKill
  ImplementsRules
