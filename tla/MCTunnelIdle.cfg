SPECIFICATION ReadingPeersSpec
CONSTANTS
  OUTBOUND_QUEUE = 1
  SOCK_BUF = 1
  MAX_UP = 2
  MAX_DOWN = 1
PROPERTY
  IdleEnforced
CHECK_DEADLOCK FALSE
