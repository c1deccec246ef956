SPECIFICATION FairSpec
CONSTANTS
  Users = {u1, u2}
  BlockLabels = {blocked}
  ReadyLabels = {ready}
  None = None
  DedupWindow = 1
  MaxTime = 3
  MaxChanges = 3
INVARIANTS
  TypeOK
  LogReplays
  MergeLoggedOnce
PROPERTIES
  FullApprovalSound
  Converges
