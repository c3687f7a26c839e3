CONSTANTS
  k1 = k1
  p1 = p1
  f1 = f1
  NULL = NULL
  Ticket = {k1}
  Pass = {p1}
  Phone = {f1}
  PassOf <- Passes
  UndoSlack = 2
  PassClaimCap = 1
  RoomCap = 2
  MaxTries = 2
  RacyEnqueue = FALSE
  TornCatchUp = FALSE
  MaxCommits = 2
  MaxSeq = 4
  MaxEpoch = 1
SPECIFICATION Spec
CHECK_DEADLOCK FALSE
INVARIANT UndoStands
