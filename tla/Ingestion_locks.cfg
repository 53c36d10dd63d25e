SPECIFICATION FairSpec
CONSTANTS
  s1 = s1
  s2 = s2
  f1 = f1
  f2 = f2
  Stations = {s1, s2}
  Fuels = {f1, f2}
  Batches <- TwoOrders
  Runs = {r1, r2}
  MaxAttempts = 2
  MaxOpenConns = 2
  MaxFeeds = 2
  Faults = {}
INVARIANTS
  DeadlockNeedsTwoFeeds
PROPERTIES
  EveryRunEnds
