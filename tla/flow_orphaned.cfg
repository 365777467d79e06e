SPECIFICATION Spec
CONSTANTS
  Flow <- MCFlow
  Src <- MCSrc
  Dst <- MCDst
  ZeroFlow = "zero"
  Mode = "client"
  Multi_streams = TRUE
  StreamLimit = 2
  Window = 2
  Failures = FALSE
  QueueCap = 2
  MaxPackets = 2
INVARIANTS
  ActiveFlowHasStream
CHECK_DEADLOCK FALSE
