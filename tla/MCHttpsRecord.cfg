SPECIFICATION FairSpec
CONSTANTS
  NAMES <- MCNames
  Responses <- MCResponses
  DEFAULT_TTL <- MCDefaultTtl
INVARIANTS
  ReadsInside
  EchExact
PROPERTY ParseEnds
CHECK_DEADLOCK FALSE
