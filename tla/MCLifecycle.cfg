SPECIFICATION Spec
CONSTANTS
  None = None
  Kinds <- MCKinds
  MaxInputs = 2
CHECK_DEADLOCK FALSE
INVARIANTS TypeOK OnlyPoolsAreLate
PROPERTY ServerEnds
