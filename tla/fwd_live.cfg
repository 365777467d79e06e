SPECIFICATION FairSpec
CONSTANTS
  MaxUnits <- OnlySource
  BufSize = 1
  TcpBuffer = 1
  Window = 1
  Failures = TRUE
PROPERTIES
  CloseEndsAll
  SessionEndEndsAll
CHECK_DEADLOCK FALSE
