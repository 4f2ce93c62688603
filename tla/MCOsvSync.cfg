CONSTANTS
  Ids = {i1, i2}
  Kinds = {"affected"}
  Runners = {r1, r2}
  MaxTime = 3
  MaxStaleness = 1
  BlockOnStale = TRUE
  RequireFullDataset = TRUE
SPECIFICATION Spec
SYMMETRY Symmetry
INVARIANTS
  NothingMissedBelowWatermark
  HealthyReadIsFresh
PROPERTIES
  NoAdvisoryRegresses
CHECK_DEADLOCK FALSE
