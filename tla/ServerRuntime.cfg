CONSTANTS
  Requests = {r1, r2, r3}
  IngressLimit = 2
  EgressLimit = 1
SPECIFICATION FairSpec
INVARIANTS
  PermitsBoundResponses
  OverloadNeverServed
  NoLostWakeup
PROPERTIES
  ShutdownCompletes
CHECK_DEADLOCK FALSE
