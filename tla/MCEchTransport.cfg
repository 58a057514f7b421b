SPECIFICATION FairSpec
CONSTANTS
  PLANS <- MCPlans
  MIN_TTL = 2
  DEFAULT_TTL = 3
  MAX_TTL = 4
  TTLS = {0, 1, 3, 6}
  MAX_TIME = 5
  MAX_VERSION = 2
  NONE = NONE
INVARIANTS
  TypeOK
  StrictNeverPlain
  FreshWhenChosen
PROPERTY StartupEnds
CHECK_DEADLOCK FALSE
