CONSTANTS
  a = a
  a2 = a2
  b = b
  c = c
  sa = sa
  sb = sb
  sc = sc
  u = u
  Links = {a, a2, b, c}
  ServerOf <- MCServerOf
  Sources = {u}
  Ungrouped = Ungrouped
  Delivered <- MCDelivered
  InitialStates <- MCInitialStates
  Clients = {c1, c2}
  SplitRouting = TRUE
  NoLink = NoLink
  MaxUndo = 1
  MaxRequests = 3
  MaxFaults = 1
SPECIFICATION Spec
INVARIANTS TypeOK CoreFollowsState PinnedServersPresent
PROPERTIES  ImplementsStore
CHECK_DEADLOCK FALSE
