CONSTANTS
  a = a
  b = b
  None = None
  MaxTensors = 3
  MaxData = 2
  MaxScopes = 4
  MaxSaved = 1
  Names = {}
  StringIds = {}
  Redispose = FALSE
  Throws = FALSE
  NestInBackward = FALSE
SPECIFICATION Spec
INVARIANTS NoSavedLeak TapeIsAlive
PROPERTIES ClosingReclaims
CHECK_DEADLOCK FALSE
