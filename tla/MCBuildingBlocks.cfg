SPECIFICATION Spec
CONSTANTS
  Parts = {"policy", "range", "order", "lru", "lock", "egress", "body", "routes", "loop"}
  T1 = T1
  T2 = T2
  T3 = T3
  P1 = P1
  P2 = P2
  AnyVersion = AnyVersion
  Policies <- MCPolicies
  Advisories <- MCAdvisories
  Artifacts <- MCArtifacts
  LastTime = 4
  NugetVersions <- MCNugetVersions
  GemVersions <- MCGemVersions
  MavenVersions <- MCMavenVersions
  Boundaries = {0, 1, 2, 3, 4}
  RangeVersions = {1, 2, 3, 4, 5}
  MaxEvents = 4
  CacheKeys = {1, 2, 3, 4}
  Weights = {1, 2}
  CapacityBytes = 4
  Tasks = {T1, T2, T3}
  Processes = {P1, P2}
  ProcessOf <- MCProcessOf
  Paths = {"plain", "link", "other"}
  StoreFiles = {"a", "b"}
  Normalized <- MCNormalized
  Nobody = Nobody
  ProxiedEcosystems = {"cargo", "nuget"}
  Literal <- MCLiteral
  Configurations <- MCServers
  Urls <- MCUrls
  UsizeMax = 7
  Limit = 5
  Chunks = {0, 1, 2, 3, 4}
  MaxSent = 12
  Starts <- PathStarts
  Tokens <- PathTokens
  MaxTokens = 4
  Ecosystems = {e1, e2, e3}
  SyncInterval = 6
  MaxDelay = 8
  MaxFailures = 4
  MaxRestarts = 1
INVARIANTS
  BatchAgreesWithSingle
  RangeVerdictIsReference
  EntriesLiftOnlyTheirGates
  VersionsCompareConsistently
  LockLeavesNothingBehind
  EgressFollowsConfiguration
  BodyIsWhole
  RoutesAgree
  FailuresStayRequested
  RetriesComeSoon
PROPERTIES
  DecisionHoldsUntilValid
  PublishNeverUnblocks
  LruImplementsList
  LockImplementsMutex
  OutagesEnd
