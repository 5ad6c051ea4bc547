CONSTANTS
  Ids = {ru, by}
  NoBase = NoBase
  NoFile = NoFile
  Clients = {c1, c2}
  MaxBases = 1
  MaxArtifacts = 4
  MaxRequests = 4
  MaxFaults = 1
SPECIFICATION FairSpec
INVARIANTS
  TypeOK
  ArtifactsExist
  AppliedSnapshotTrue
PROPERTY
  AnalysisEnds
