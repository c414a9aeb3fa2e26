\* A TypeScript instance may really stop: once every connection has leaked, only
\* the queue, which MaxQueue caps, still grows.
CHECK_DEADLOCK FALSE
SPECIFICATION PoolsFairSpec
CONSTANTS
  Requests = {p1, p2, p3}
  Size = 2
  MaxCheckouts = 2
  MaxOps = 2
  MaxQueue = 2
INVARIANTS
  TypesOK
  PyConserved
  RefusedCommittedNothing
  TsConserved
PROPERTIES
  EveryRequestAnswered
  WaitersAreServed
