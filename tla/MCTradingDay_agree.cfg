\* Two stocks, hooks in both directions, every day the peer may have had.
\* Hooks in a circle stop: deadlock is not checked.
SPECIFICATION DaySpec
CONSTANTS
  NR_STOCKS = 2
  h1 = h1
  h2 = h2
  Hooks = {h1, h2}
  HookTables <- CrossTables
  NumOrders = 3
  Volumes = {1, 2}
  Thresholds = {1}
  Engines <- PairEngines
INVARIANTS
  OwnDay
  TradersAgree
  NoneLeftBehind
CHECK_DEADLOCK FALSE
