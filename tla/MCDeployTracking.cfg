SPECIFICATION FairSpec
CONSTANTS
  Rules = {1, 2}
  Jobs = {1}
  Faults = TRUE
INVARIANTS
  TypeOK
  MarkedWasSent
PROPERTIES
  NothingSentTwice
  KeepsPromise
  EndTold
CHECK_DEADLOCK FALSE
