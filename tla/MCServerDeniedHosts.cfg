SPECIFICATION Spec
CONSTANTS
  ADDRS <- MCAddrs
  NAMES = {example}
  BAD_HOSTS = {bad_host}
  PORTS = {443}
  MAX_ADDRS = 2
  NO_ADDR = NO_ADDR
  TEXTS = {"old", "new"}
  HEADERS <- MCHeaders
  SETTINGS <- MCSettings
INVARIANT
  DeniedHostsUnreached
CHECK_DEADLOCK FALSE
