CONSTANTS
  o1 = o1
  o2 = o2
  x1 = x1
  b1 = b1
  tA = tA
  tB = tB
  NULL = NULL
  Order = {o1, o2}
  TicketType = {tA, tB}
  Buyer = {b1}
  TrxId = {x1}
  MaxQuantity = 2
  MaxOpenOrders = 2
  HoldTime = 1
  GraceTime = 1
  MaxCapacity = 3
  MaxResubmits = 1
  Lag = 1
  Horizon = 3
SPECIFICATION Spec
SYMMETRY Symmetry
INVARIANTS TypeOK CountersMatchRows SeatsWithinCapacity TicketsMatchOrder AdmittedHoldLiveTickets AuditTrailExplainsStatus
PROPERTIES OnlyLapsedHoldsExpire EndedOrdersFrozen ImplementsLedger
