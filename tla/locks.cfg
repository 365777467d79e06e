SPECIFICATION MCFairSpec
CONSTANTS
  Stream = {"s1", "s2"}
  ClosedByOther = {"s1"}
  Ended = {"s2"}
  MaxWrites <- MCWrites
  MaxFrames <- MCFrames
INVARIANTS
  KnownCircles
  DeletedOnce
PROPERTIES
  AllIsSent
  EndCompletes
CHECK_DEADLOCK FALSE
