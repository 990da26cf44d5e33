CONSTANTS
  Inputs = 2
  Xs <- MCXs
  Kernels <- MCKernels
  MaxNodes = 3
SPECIFICATION Spec
INVARIANTS GradientsRight GradientsAlive
CHECK_DEADLOCK FALSE
