SPECIFICATION ServerAloneFairSpec
CONSTANTS
  OUTBOUND_QUEUE = 1
  SOCK_BUF = 1
  MAX_ASKED = 4
  MAX_SERVED = 1
INVARIANTS
  ResponseWellFormed
  TargetGetsOffered
PROPERTIES
  HandlerEnds
CHECK_DEADLOCK FALSE
