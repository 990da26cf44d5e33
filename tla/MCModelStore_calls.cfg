CONSTANTS
  p1 = p1
  p2 = p2
  None = None
  Paths = {p1, p2}
  Urls <- MCUrls
  Saved <- MCSaved
  MaxCalls = 3
  MaxOps = 4
  Faults = {"request", "throw", "commit", "quota", "crash"}
  MaxFaults = 1
SPECIFICATION FairSpec
INVARIANTS StoresAgree VouchedLoads
PROPERTIES CallsReturn ActsAtomically
CHECK_DEADLOCK FALSE
