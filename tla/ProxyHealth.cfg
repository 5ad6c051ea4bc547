CONSTANTS
  p = p
  q = q
  r = r
  Profiles = {p, q, r}
  NoProfile = NoProfile
  Subscribed = {p, q}
  InitialLists <- MCInitialLists
  MaxRequests = 1
  MaxFaults = 1
  MaxEvents = 2
SPECIFICATION FairSpec
INVARIANTS
  TypeOK
  ActiveIsServed
  SelectorMovesOnEvidence
PROPERTIES
  FailoverReplacesTheFailed
  HealthyIsServed
