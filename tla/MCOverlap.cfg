SPECIFICATION Spec
CONSTANTS
  ann = ann
  bob = bob
  eve = eve
  d1 = d1
  d2 = d2
  l1 = l1
  l2 = l2
  Author = ann
  Reviewers <- MCReviewers
  Discs <- MCDiscs
  Labels <- MCLabels
  Gaps <- MCGaps
  Calendars <- MCCalendars
  DayLength = 4
  DedupWindow = 1
  Start = 14
  MaxChanges = 3
  Faults = FALSE
  Settings = FALSE
SYMMETRY MCSymmetry
INVARIANT
  OverlapCounted
CHECK_DEADLOCK FALSE
