SPECIFICATION ReadingPeersSpec
CONSTANTS
  OUTBOUND_QUEUE = 2
  SOCK_BUF = 1
  MAX_UP = 2
  MAX_DOWN = 2
INVARIANTS
  IndInv
  BytesInOrder
  CleanEnds
  NoSilentTruncation
  NoProtocolError
PROPERTIES
  ImplementsPipe
  PermitReleased
  ServerFollows
  EofReachesTarget
CHECK_DEADLOCK FALSE
