SPECIFICATION Spec
CONSTANTS
  Users = {u1, u2}
  BlockLabels = {}
  ReadyLabels = {}
  None = None
  DedupWindow = 1
  MaxTime = 3
  MaxChanges = 3
INVARIANT
  NoStaleApproval
