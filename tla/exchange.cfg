SPECIFICATION MCFairSpec
CONSTANTS
  NonceSize = 2
  IntSize = 2
  KeySize = 1
  SignatureSize = 2
  Agree = FALSE
  MaxInput <- MCMaxInput
  Host = {"h1", "h2"}
  Session = {"s1", "s2"}
  MaxPackets <- MCMaxPackets
INVARIANTS
  VerdictIsRight
  OutputIsInput
  ExchangeOutcome
  SoleSessionKeepsPackets
PROPERTIES
  InputEndEndsBoth
  SenderIsServed
CHECK_DEADLOCK FALSE
