SPECIFICATION FairSpec
CONSTANTS
  o1 = o1
  o2 = o2
  OrderIds = {o1, o2}
  Requests <- StallRequests
  MaxQty = 2
  MaxRequests = 3
  FreedReads = {TRUE}
CHECK_DEADLOCK FALSE
PROPERTIES LimitOrderAnswered
