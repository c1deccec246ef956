CONSTANTS
  r1 = r1
  r2 = r2
  c1 = c1
  c2 = c2
  Repos = {r1, r2}
  Chats = {c1, c2}
  Users = {"u"}
  Added = {"sla"}
  Cleared = {"holiday"}
  Kept = {"label"}
  DbFaults = FALSE
  Managers = {"m1", "m2"}
  MaxGiven = 6

SYMMETRY MCSymmetry

SPECIFICATION SubSpec

INVARIANT SubscribeWorks
