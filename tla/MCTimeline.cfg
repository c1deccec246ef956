SPECIFICATION MCSpec
CONSTANTS
  ann = ann
  bob = bob
  eve = eve
  d1 = d1
  d2 = d2
  l1 = l1
  l2 = l2
  Author = ann
  Reviewers <- MCReviewers
  Discs <- MCDiscs
  Labels <- MCLabels
  Gaps <- MCGaps
  Calendars <- MCCalendars
  DayLength = 4
  DedupWindow = 3
  Start = 14
  MaxChanges = 5
  Faults = TRUE
  Settings = TRUE
SYMMETRY MCSymmetry
INVARIANTS
  TimeMeasured
  ClocksTrue
  CopiesAgree
CHECK_DEADLOCK FALSE
