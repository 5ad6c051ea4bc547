CONSTANTS
  a = a
  b = b
  Domains = {a, b}
  NoDomain = NoDomain
  DomainOf <- MCDomainOf
  Lines = 6
  StartLimit = 1
  TickLimit = 2
  ReadLimit = 2
  MaxPending = 2
  BatchSize = 1
  MaxExceptions = 1
  MaxRequests = 2
SPECIFICATION Spec
INVARIANT CursorIsExact
PROPERTY DrainedAreDecided
