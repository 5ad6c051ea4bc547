CONSTANTS
  Policies = {home}
  NoPolicy = NoPolicy
  NoConfig = NoConfig
  StoreSelected = FALSE
  TproxySupport = {TRUE}
  MaxRequests = 2
  MaxFaults = 1
SPECIFICATION FairSpec
INVARIANTS
  TypeOK
  ActivatedCoreMatches
  AnswerHolds
  RolledBackToBefore
PROPERTIES
  PolicyChangeIsAllOrNothing
  CoreComesBack
  DirtyIsSaved
