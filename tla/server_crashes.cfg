SPECIFICATION Spec
CONSTANTS
  MaxConns = 3
  MaxOutgoing = 1
  MaxIncoming = 2
  DialFails = TRUE
  TCPFails = FALSE
INVARIANTS
  ServerSurvives
CHECK_DEADLOCK FALSE
