SPECIFICATION Spec
CONSTANTS
  g1 = g1
  g2 = g2
  r1 = r1
  right = right
  wrong = wrong
  Guis = {g1, g2}
  None = None
  Accounts = {r1}
  Typed <- MCTyped
  MaxSubmits = 2
  Impatient = {g1}
  ApiKey <- MCApiKey
  Key <- MCKey
  ClientName <- MCName
  ServerName <- MCName
CHECK_DEADLOCK FALSE
INVARIANTS TypeOK AccountHeldOnce OwnBack InMeansAll
PROPERTIES LoginEnds 
