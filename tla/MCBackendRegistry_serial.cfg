CONSTANTS
  b1 = b1
  b2 = b2
  c1 = c1
  c2 = c2
  None = None
  Backends = {b1, b2}
  AsyncBackends = {b1}
  NullBackends = {b1, b2}
  Priority <- MCPriority
  Callers = {c1}
  Prompt = TRUE
  Ops = {"find", "remove", "register", "reset"}
  MaxOps = 5
SPECIFICATION Spec
INVARIANTS NameMatchesInstance ActiveNotDisposed
PROPERTIES SuccessIsRegistered
CHECK_DEADLOCK FALSE
