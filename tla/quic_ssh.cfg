SPECIFICATION MCFairSpec
CONSTANTS
  MaxConns = 3
  MaxOutgoing = 2
  MaxIncoming = 2
  DialFails = TRUE
  TCPFails = TRUE
  Client = {"c1"}
  Port <- MCPort
  MaxTyped = 1
  OtherError = TRUE
INVARIANTS
  NextToAcceptIsThere
  LimitNeedsLeftovers
  LeftoversAreUnread
  StoppedOnce
  CrashNeedsForwarding
  KeptNeedsRace
PROPERTIES
  WaitingIsServed
  EndIsNoticed
  LogoutEndsClient
CHECK_DEADLOCK FALSE
