CONSTANTS
  p1 = p1
  p2 = p2
  p3 = p3
  p4 = p4
  s1 = s1
  s2 = s2
  s3 = s3
  ProfileList <- MCProfileList
  ServerOf <- MCServerOf
  Worlds <- MCWorlds
  DeadChoices <- MCDeadChoices
  Requests <- MCRequests
  MaxWorkers = 2
  Stoppers = {c1}
  Nobody = Nobody
  CursorSpan = 4
  MaxStops = 1
  MaxAged = 1
SPECIFICATION BenchSpec
INVARIANTS BenchTypeOK SearchTellsTheTruth CandidatesAccounted
PROPERTY UnknownServersExplored
