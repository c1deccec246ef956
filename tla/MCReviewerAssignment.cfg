CONSTANTS
  People <- MCPeople
  Author = "author"
  Labels <- MCLabels
  MaxCount = 2
  Starts <- MCStarts
  Faults = TRUE
  MaxChanges = 3

SPECIFICATION Spec

INVARIANTS TypeOK GroupsServed Filled NotCrowded
PROPERTIES KnownReviewersStay Staffed
