SPECIFICATION Spec
CONSTANTS
  o1 = o1
  o2 = o2
  OrderIds = {o1, o2}
  Requests <- MCRequests
  MaxQty = 2
  MaxRequests = 3
  FreedReads = {TRUE, FALSE}
CHECK_DEADLOCK FALSE
PROPERTIES NoUnknownAfterAck
