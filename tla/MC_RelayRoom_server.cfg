CONSTANTS
  k1 = k1
  p1 = p1
  f1 = f1
  NULL = NULL
  Ticket = {k1}
  Pass = {p1}
  Phone = {f1}
  PassOf <- Passes
  UndoSlack = 1
  PassClaimCap = 1
  RoomCap = 1
  MaxTries = 2
  RacyEnqueue = TRUE
  TornCatchUp = TRUE
  MaxCommits = 3
  MaxSeq = 4
  MaxEpoch = 1
SPECIFICATION Spec
CHECK_DEADLOCK FALSE
INVARIANTS RoomMatchesServer RevokedPassSilent
PROPERTY ConfirmedFallsToItsUndo
