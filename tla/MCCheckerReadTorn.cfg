CONSTANTS
  Ids = {i1}
  Checks = {c1}
  Concurrency = 1
  MaxCommits = 2
SPECIFICATION Spec
INVARIANTS
  VerdictOfOneRevision
CHECK_DEADLOCK FALSE
