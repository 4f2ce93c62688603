CONSTANTS
  small = small
  large = large
  Requests = {r1, r2, r3}
  Paths <- SmallAndLarge
  Weight <- Weights
  Capacity = 2
  FillConcurrency = 1
  TTL = 2
  MaxTime = 2
  MaxRevision = 1
  Nobody = Nobody
SPECIFICATION Spec
SYMMETRY Symmetry
INVARIANTS
  AnswersAreFresh
  OneFillPerKey
  NoLostWaiter
PROPERTIES
  HitsAreCurrent
CHECK_DEADLOCK FALSE
