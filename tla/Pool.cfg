CONSTANTS
  a = a
  b = b
  Servers = {a, b}
  Memberships <- MCMemberships
  Reject = Reject
  NoServer = NoServer
  Threshold = 2
  Cooldown = 1
  RetryAfter = 1
  KeepFor = 1
  MaxRequests = 3
  MaxFaults = 1
SPECIFICATION FairSpec
INVARIANT CarriesOnlyVerified
PROPERTIES WorkingMemberFound
CHECK_DEADLOCK FALSE
