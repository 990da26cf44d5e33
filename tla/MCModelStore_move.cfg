CONSTANTS
  p1 = p1
  p2 = p2
  None = None
  Paths = {p1, p2}
  Urls <- MCUrls
  Saved <- MCSaved
  MaxCalls = 1
  MaxOps = 3
  Faults = {"quota", "request", "throw"}
  MaxFaults = 1
SPECIFICATION Spec
INVARIANT FailedMoveKeepsSource
CHECK_DEADLOCK FALSE
