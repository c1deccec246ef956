SPECIFICATION FairSpec
CONSTANTS
  Entries = {e1, e2}
  Faults = TRUE
  MaxChanges = 4
INVARIANTS
  TypeOK
  RecordedWasAnnounced
PROPERTIES
  NothingToldTwice
  MergeTold
  EntriesReach
