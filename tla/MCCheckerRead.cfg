CONSTANTS
  Ids = {i1}
  Checks = {c1, c2}
  Concurrency = 1
  MaxCommits = 2
SPECIFICATION FairSpec
INVARIANTS
  AnswersComeFromHealthyStore
  SteadyMatchesAreReported
  PermitsBoundReads
PROPERTIES
  EveryCheckEnds
CHECK_DEADLOCK FALSE
