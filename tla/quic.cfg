SPECIFICATION FairSpec
CONSTANTS
  Stream = {"s1","s2"}
  MaxBytes <- MCBytes
  StreamWindow = 2
  SessionWindow = 2
  MaxSplits = 1
  Abandonable = {"s1"}
INVARIANTS
  EofIsEnd
  NoSessionError
PROPERTIES
  StreamsSpec
  EndArrives
CHECK_DEADLOCK FALSE
