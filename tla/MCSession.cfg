SPECIFICATION MCSpec
CONSTANTS
  c1 = c1
  c2 = c2
  w1 = w1
  w2 = w2
  None = None
  Clients = {c1, c2}
  Workers = {w1, w2}
  Bodies <- MCBodies
  MaxSent = 3
  MaxEvents = 1
CONSTRAINTS WellDefined InScenario
SYMMETRY WorkerSymmetry
CHECK_DEADLOCK FALSE
INVARIANTS TypeOK CountersAgree StoreIsSelector SessionKept
