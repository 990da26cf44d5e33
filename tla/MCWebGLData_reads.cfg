CONSTANTS
  None = None
  MaxData = 3
  MaxRefs = 2
  MaxReads = 2
  ReturnEarly = FALSE
SPECIFICATION FairSpec
INVARIANTS HeldDataIsStored OneCopy PendingIsExact
PROPERTIES ImplementsDataLifetime EveryReadAnswers
CHECK_DEADLOCK FALSE
