CONSTANTS
  small = small
  large = large
  Requests = {r1, r2, r3}
  Paths <- OnlySmall
  Weight <- SmallWeight
  Capacity = 1
  FillConcurrency = 1
  TTL = 1
  MaxTime = 2
  MaxRevision = 0
  Nobody = Nobody
SPECIFICATION FairSpec
PROPERTIES
  EveryRequestAnswered
CHECK_DEADLOCK FALSE
