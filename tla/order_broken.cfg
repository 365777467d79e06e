SPECIFICATION Spec
CONSTANTS
  Flow <- OneFlow
  Src <- OneSrc
  Dst <- OneDst
  Mode = "client"
  QueueCap = 4
  MaxPackets = 4
INVARIANTS
  FlowOrder
CHECK_DEADLOCK FALSE
