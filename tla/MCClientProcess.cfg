SPECIFICATION FairSpec
CONSTANTS
  Conns = {c1, c2, c3, c4}
  pool_size = 2
  max_streams_per_channel = 0
  COUNTER = 3
  CONFIGS <- MCConfigs
  POOL = "b"
INVARIANTS
  PoolInv
  EveryUserHasPool
PROPERTIES
  NoStarvation
  StopsTogether
CHECK_DEADLOCK FALSE
