CONSTANTS
  None = None
  MaxTensors = 3
  MaxData = 2
  MaxScopes = 2
  MaxSaved = 1
  a = a
  b = b
  Names = {a, b}
  StringIds = {}
  Redispose = FALSE
  Throws = TRUE
  NestInBackward = FALSE
SPECIFICATION Spec
INVARIANTS TypeOK RefCountExact CountsExact DataOutlivesHolders
PROPERTIES ImplementsDataLifetime
SYMMETRY NameSymmetry
CHECK_DEADLOCK FALSE
