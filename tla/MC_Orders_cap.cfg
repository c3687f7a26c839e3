CONSTANTS
  o1 = o1
  o2 = o2
  o3 = o3
  x1 = x1
  x2 = x2
  b1 = b1
  b2 = b2
  tA = tA
  NULL = NULL
  Order = {o1, o2, o3}
  TicketType = {tA}
  Buyer = {b1}
  TrxId = {x1, x2}
  MaxQuantity = 1
  MaxOpenOrders = 2
  HoldTime = 1
  GraceTime = 1
  MaxCapacity = 3
  MaxResubmits = 1
  Lag = 1
  Horizon = 4
SPECIFICATION Spec
SYMMETRY Symmetry
INVARIANT OpenOrdersCapped
