\* Two connections, three descriptors, one reinitialisation of the server's heartbeat.
SPECIFICATION FairSpec
CONSTANTS
  ring <- TwoCenters
  should_reinit = 0
  NumFds = 3
  MaxConns = 2
  MaxFailures = 1
  Addrs = 6
INVARIANTS PingIndexInRange RegistrationKept
PROPERTIES ElectionDrains
CHECK_DEADLOCK FALSE
