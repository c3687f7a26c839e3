CONSTANTS
  o1 = o1
  o2 = o2
  x1 = x1
  x2 = x2
  b1 = b1
  tA = tA
  NULL = NULL
  Order = {o1, o2}
  TicketType = {tA}
  Buyer = {b1}
  TrxId = {x1, x2}
  MaxQuantity = 1
  MaxOpenOrders = 1
  HoldTime = 1
  GraceTime = 1
  MaxCapacity = 2
  MaxResubmits = 1
  Lag = 0
  Horizon = 4
SPECIFICATION LiveSpec
INVARIANTS OnePaymentOneOrder OpenOrdersCapped
PROPERTY LapsedHoldsExpire
