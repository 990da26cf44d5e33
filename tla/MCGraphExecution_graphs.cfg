CONSTANTS
  Graphs <- MCGraphs
  MayReject = TRUE
  None = None
SPECIFICATION FairSpec
INVARIANTS OperandsAlive ReturnsCleanly RunsOnce DisposedPromptly PlanIsValid
PROPERTIES ExecutionReturns
CHECK_DEADLOCK FALSE
