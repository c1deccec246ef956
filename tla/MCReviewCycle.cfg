SPECIFICATION FairSpec
CONSTANTS
  Threads = {t}
  Faults = TRUE
  MaxNotes = 2
  MaxChanges = 2
INVARIANTS
  TypeOK
  CommentsLogged
  RereviewAfterFixes
PROPERTIES
  MarkedMeansTold
  StateConverges
  AllHandled
