SPECIFICATION Spec
CONSTANTS
  IPS = {"cn-ip", "other-ip"}
  CHINA = {"cn-ip"}
  NAMES = {"", "example"}
  EMPTY_HOST = ""
  USERS = {"alice", "bob"}
  PASSWORD <- MCPassword
  BACKEND_OF <- MCBackendOf
  BACKENDS = {"cf-edge-a", "vps-b"}
  NONE = NONE
  PORTS = {0, 8080, 65536}
  HEADER_LISTS <- MCHeaderLists
INVARIANTS
  TypeOK
  DirectOnlyListed
  RelayOnlyAuthorized
  RepliesTrue
CHECK_DEADLOCK FALSE
