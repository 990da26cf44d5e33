CONSTANTS
  Graphs <- MCInvariant
  MayReject = FALSE
  None = None
SPECIFICATION Spec
INVARIANT OutputsComputed
CHECK_DEADLOCK FALSE
