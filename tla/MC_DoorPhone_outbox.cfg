CONSTANTS
  k1 = k1
  NULL = NULL
  Ticket = {k1}
  SyncBatch = 2
  Grace = 2
  MaxSkew = 1
  MaxScans = 2
  MaxClock = 2
  MaxLosses = 1
  MaxReloads = 1
  MaxEvents = 2
SPECIFICATION LiveSpec
CHECK_DEADLOCK FALSE
INVARIANTS TypeOK OneVerdictSent EveryAdmitAccounted DoubleEntryIsReal OwnAdmitsRemembered
PROPERTY OutboxDrains
