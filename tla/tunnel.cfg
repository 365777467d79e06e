SPECIFICATION MCSpec
CONSTANTS
  Flow <- MCFlow
  Src <- MCSrc
  Dst <- MCDst
  ZeroFlow = "zero"
  Mode = "client"
  Multi_streams = TRUE
  StreamLimit = 2
  Window = 1
  Failures = FALSE
  QueueCap = 2
  MaxPackets = 3
INVARIANTS
  MultiMapIsExact
  MultiStreamLimitSuffices
  OneStreamReliable
  HeaderStaysValid
PROPERTIES
  CarriesPackets
CHECK_DEADLOCK FALSE
