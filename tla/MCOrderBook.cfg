SPECIFICATION Spec
CONSTANTS
  o1 = o1
  o2 = o2
  o3 = o3
  o4 = o4
  u1 = u1
  u2 = u2
  OrderIds = {o1, o2, o3, o4}
  Users = {u1, u2}
  Orders <- MCOrders
  MaxPrice = 2
  MaxQty = 3
  MaxOrders = 7
  FreedReads = {TRUE, FALSE}
CHECK_DEADLOCK FALSE
INVARIANTS TypeOK MapFindsTheOrder Uncrossed TickIsLastMove
PROPERTIES PriceTimePriority FillsAddUp UnrestrictedFillsReported
