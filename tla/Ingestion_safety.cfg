SPECIFICATION Spec
CONSTANTS
  s1 = s1
  s2 = s2
  f1 = f1
  f2 = f2
  Stations = {s1, s2}
  Fuels = {f1, f2}
  Batches <- MixedBatches
  Runs = {r1, r2}
  MaxAttempts = 2
  MaxOpenConns = 2
  MaxFeeds = 2
  Faults = {"fetch", "commit", "database", "process"}
SYMMETRY AnyRun
INVARIANTS
  TypeOK
  ReportedIsWhole
  StoredPriceIsPublished
  SomeRunGoesOn
PROPERTIES
  NoSilentRollback
  RowsAreKept
  WholeFeedsOnly
