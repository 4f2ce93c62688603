CONSTANTS
  Ecosystems = {e1, e2}
  SyncInterval = 6
  MaxDelay = 8
  MaxFailures = 4
  MaxRestarts = 0
SPECIFICATION FairLoopSpec
PROPERTIES
  HealthyEcosystemsRefreshed
CHECK_DEADLOCK FALSE
