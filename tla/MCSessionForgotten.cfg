SPECIFICATION MCSpec
CONSTANTS
  c1 = c1
  c2 = c2
  w1 = w1
  w2 = w2
  None = None
  Clients = {c1, c2}
  Workers = {w1}
  Bodies <- SessionBodies
  MaxSent = 2
  MaxEvents = 0
CHECK_DEADLOCK FALSE
INVARIANT SessionStaysOpen
