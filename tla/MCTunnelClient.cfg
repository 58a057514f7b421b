SPECIFICATION ClientAloneFairSpec
CONSTANTS
  OUTBOUND_QUEUE = 2
  SOCK_BUF = 1
  MAX_SAID = 3
  MAX_WRITTEN = 2
INVARIANTS
  RequestWellFormed
  AppGetsServed
PROPERTIES
  RelayReturns
CHECK_DEADLOCK FALSE
