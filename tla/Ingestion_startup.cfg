SPECIFICATION FairSpec
CONSTANTS
  s1 = s1
  s2 = s2
  f1 = f1
  f2 = f2
  Stations = {s1, s2}
  Fuels = {f1, f2}
  Batches <- LiveBatches
  Runs = {r1, r2}
  MaxAttempts = 2
  MaxOpenConns = 1
  MaxFeeds = 1
  Faults = {"fetch", "commit", "database", "process"}
INVARIANTS
  SomeRunGoesOn
PROPERTIES
  EveryRunEnds
  SchedulerComesUp
