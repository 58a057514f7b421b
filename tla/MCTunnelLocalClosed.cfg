SPECIFICATION ReadingPeersSpec
CONSTANTS
  OUTBOUND_QUEUE = 1
  SOCK_BUF = 1
  MAX_UP = 1
  MAX_DOWN = 1
PROPERTY
  LocalClosedAfterRelay
CHECK_DEADLOCK FALSE
