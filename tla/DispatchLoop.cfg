\* Three connections, memory for one block of two items.
SPECIFICATION FairSpec
CONSTANTS
  c1 = c1
  c2 = c2
  c3 = c3
  NoConn = NoConn
  Conns <- ThreeConns
  ItemPerAlloc = 2
  MaxItems = 2
INVARIANTS TypeOK ItemsAccounted SerialHandedOnce
PROPERTIES SerialHanded
CHECK_DEADLOCK FALSE
