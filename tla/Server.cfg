\* One connection, three registrars that make three methods.
SPECIFICATION FairSpec
CONSTANTS
  Conns = {c1}
  Registrars = {r1, r2, r3}
  MaxMethods = 3
INVARIANTS MethodsLive ClosedOnce
PROPERTIES ConnectionEnds
CHECK_DEADLOCK FALSE
