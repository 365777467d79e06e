SPECIFICATION LocksFairSpec
CONSTANTS
  Stream = {"s1"}
  ClosedByOther = {}
  Ended = {}
  MaxWrites <- OneWrites
  MaxFrames <- OneFrames
PROPERTIES
  AbruptClose
CHECK_DEADLOCK FALSE
