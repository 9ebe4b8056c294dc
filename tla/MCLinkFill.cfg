SPECIFICATION Spec
CONSTANTS
  o1 = o1
  None = None
  Orders = {o1}
  FirstNum = 1
  MaxNum = 11
  MaxBeats = 1
  MaxAsks = 1
CHECK_DEADLOCK FALSE
PROPERTY FillShown
