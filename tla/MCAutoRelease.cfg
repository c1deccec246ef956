SPECIFICATION FairSpec
CONSTANTS
  PageSize = 1
  Faults = TRUE
  MaxMRs = 2
  MaxReleases = 2
  MaxChanges = 5
INVARIANTS
  TypeOK
  OneRelease
PROPERTIES
  FeatureIsolated
  RescuesOrphans
  Settles
