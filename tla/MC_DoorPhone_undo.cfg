CONSTANTS
  k1 = k1
  NULL = NULL
  Ticket = {k1}
  SyncBatch = 1
  Grace = 2
  MaxSkew = 0
  MaxScans = 2
  MaxClock = 0
  MaxLosses = 1
  MaxReloads = 1
  MaxEvents = 1
SPECIFICATION Spec
CHECK_DEADLOCK FALSE
INVARIANT UndoneIsNeverIn
