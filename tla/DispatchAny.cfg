\* Three connections whose requests come in any order.
SPECIFICATION Spec
CONSTANTS
  c1 = c1
  c2 = c2
  c3 = c3
  NoConn = NoConn
  Conns <- ThreeConns
  ItemPerAlloc = 2
  MaxItems = 4
INVARIANTS HandedOnce
CHECK_DEADLOCK FALSE
