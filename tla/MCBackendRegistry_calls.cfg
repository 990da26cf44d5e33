CONSTANTS
  b1 = b1
  b2 = b2
  c1 = c1
  c2 = c2
  None = None
  Backends = {b1, b2}
  AsyncBackends = {b1, b2}
  NullBackends = {b1}
  Priority <- MCPriority
  Callers = {c1, c2}
  Prompt = FALSE
  Ops = {"find", "getter", "remove", "register", "reset"}
  MaxOps = 3
SPECIFICATION FairSpec
INVARIANTS TypeOK PendingIsCurrent RegistryIsFresh ObsoleteForEver
PROPERTIES CallsReturn
CHECK_DEADLOCK FALSE
