SPECIFICATION FairSpec
CONSTANTS
  ADDRS <- MCAddrs
  NAMES = {example}
  BAD_HOSTS = {bad_host}
  PORTS = {0, 443, 8080, 65536}
  MAX_ADDRS = 3
  NO_ADDR = NO_ADDR
  TEXTS = {"old", "new"}
  HEADERS <- MCHeaders
  SETTINGS <- MCSettings
INVARIANTS
  TypeOK
  NeverDenied
  AllTried
  AdmittedExactly
PROPERTIES
  DialEnds
  ImplementsDial
CHECK_DEADLOCK FALSE
