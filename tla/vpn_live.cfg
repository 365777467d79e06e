SPECIFICATION MCFairSpec
CONSTANTS
  Flow <- MCFlow
  Src <- MCSrc
  Dst <- MCDst
  Mode = "client"
  QueueCap = 2
  MaxPackets = 4
  StreamLimit = 2
  Window = 1
INVARIANTS
  DrainFindsPackets
  OvertakenOnlyWhenHeld
  InversionBounded
PROPERTIES
  PoolSpec
  HandedUnlessOvertaken
  IdleFlowCollected
  HandedIsDelivered
  SessionEndReturns
CHECK_DEADLOCK FALSE
