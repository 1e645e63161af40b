SPECIFICATION FairSpec
CONSTANTS
  a = a
  b = b
  None = None
  Contexts <- TwoContexts
  TargetLists <- ThreeLists
  Keys = {1, 2}
  Limits = {1, 2, 3}
  IgnoresLimit = {}
  MaxVersion = 2
  MaxLosses = 1
INVARIANTS
  TypeOK
  CompleteListIsASnapshot
  VersionsAreStable
  TokenReturnsToItsIssuer
  PageIsWithinItsLimit
PROPERTIES
  ListingEnds
CHECK_DEADLOCK FALSE
