SPECIFICATION Spec
CONSTANTS
  AnyVersion = AnyVersion
  NoLink = NoLink
  Latest = Latest
  ListInfoLimit = 2
  PageLimit = 2
  NameLimit = 2
  Registries <- MCRegistries
  Policies <- MCPolicies
  Documents <- MCDocuments
  Stores <- MCStores
  Links <- MCLinks
  Versions <- MCVersions
  MaxWorlds = 2
  MaxTime = 2
INVARIANTS
  DeliveredWasAllowed
  ShownIsDeliverable
  HiddenIsRefused
  CheckAgreesWithListing
  PointersNameShown
  ClientCopyIsCurrent
