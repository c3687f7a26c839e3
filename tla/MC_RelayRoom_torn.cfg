CONSTANTS
  k1 = k1
  k2 = k2
  p1 = p1
  f1 = f1
  f2 = f2
  NULL = NULL
  Ticket = {k1,k2}
  Pass = {p1}
  Phone = {f1,f2}
  PassOf <- Passes
  UndoSlack = 1
  PassClaimCap = 2
  RoomCap = 2
  MaxTries = 1
  RacyEnqueue = FALSE
  TornCatchUp = TRUE
  MaxCommits = 1
  MaxSeq = 3
  MaxEpoch = 1
SPECIFICATION Spec
CHECK_DEADLOCK FALSE
INVARIANT PhoneKnowsRoom
