CONSTANTS
  Ids = {i1}
  Kinds = {"affected", "withdrawn", "malformed"}
  Runners = {r1}
  MaxTime = 3
  MaxStaleness = 1
  BlockOnStale = TRUE
  RequireFullDataset = TRUE
SPECIFICATION FairSpec
INVARIANTS
  FailureKeepsServing
PROPERTIES
  RevisionTracksContent
  StoreCatchesUp
CHECK_DEADLOCK FALSE
