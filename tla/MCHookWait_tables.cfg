\* All schedules of two stocks under every table of two hooks.  Tables with
\* a cycle of waits stop: deadlock is not checked.
SPECIFICATION FairSpec
CONSTANTS
  NR_STOCKS = 2
  h1 = h1
  h2 = h2
  Hooks = {h1, h2}
  HookTables <- AllTables
  NumOrders = 2
  Volumes = {1, 2}
  Thresholds = {1}
INVARIANTS
  NoOrphanWait
  ValuesRight
  HooksHonoured
  BrokenMeansMissing
PROPERTIES
  EndsOrEncircled
CHECK_DEADLOCK FALSE
