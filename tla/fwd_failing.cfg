SPECIFICATION Spec
CONSTANTS
  MaxUnits <- MostlySource
  BufSize = 2
  TcpBuffer = 2
  Window = 1
  Failures = TRUE
INVARIANTS
  EndIsComplete
PROPERTIES
  PipesSpec
CHECK_DEADLOCK FALSE
