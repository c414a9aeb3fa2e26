SPECIFICATION FairSpec
CONSTANTS
  Requests = {p1, p2, p3}
  TTL = 3
  MaxLag = 2
INVARIANTS
  TypeOK
  StalenessBound
PROPERTIES
  StaleEntriesGo
