CONSTANTS
  MaxData = 4
  MaxTensors = 3
  MaxReads = 1
  Batch = 2
  None = None
SPECIFICATION Spec
INVARIANTS DataIntact BuffersOwned CountsExact
CHECK_DEADLOCK FALSE
