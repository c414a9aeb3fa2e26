SPECIFICATION LoginFairSpec
CONSTANTS
  Requests = {p1, p2}
  Clients = {c1, c2}
  ATTEMPT_LIMIT = 2
  WINDOW = 3
  MaxCount = 3
  MaxAborts = 1
  BACKENDS = 2
  Connections = {d1, d2}
  MaxRestarts = 1
INVARIANTS
  TypesOK
  BurstBound
  SpreadBound
PROPERTIES
  WindowNeverRestarts
  StartedWindowsEnd
  ImplementsFixedWindow
