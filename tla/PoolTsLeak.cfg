SPECIFICATION TsSpec
CONSTANTS
  Requests = {p1, p2, p3}
  Size = 2
  MaxOps = 2
  MaxQueue = 2
INVARIANTS
  RetriesCanSucceed
