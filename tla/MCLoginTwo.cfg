SPECIFICATION Spec
CONSTANTS
  g1 = g1
  g2 = g2
  r1 = r1
  right = right
  wrong = wrong
  Guis = {g1, g2}
  None = None
  Accounts = {g1, g2}
  Typed <- MCOwnName
  MaxSubmits = 1
  Impatient = {}
  ApiKey <- MCOwnKey
  Key <- MCOwnKey
  ClientName <- MCName
  ServerName <- MCName
CHECK_DEADLOCK FALSE
PROPERTY IdentifiedGetsToken
