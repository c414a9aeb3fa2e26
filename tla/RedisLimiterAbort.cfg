SPECIFICATION FairSpec
CONSTANTS
  Requests = {p1, p2}
  Clients = {c1, c2}
  ATTEMPT_LIMIT = 2
  WINDOW = 2
  MaxCount = 3
  MaxAborts = 1
PROPERTIES
  WindowsEnd
