SPECIFICATION FairSpec
CONSTANTS
  HEAD = 2
  MAX_BODY = 2
  MaxDeclared = 3
  MaxDeaths = 1
INVARIANTS
  TypeOK
  CreatedMeansReceived
PROPERTIES
  NodeWorkersEnd
  NoEndlessRead
  WholeRequestsEnd
CHECK_DEADLOCK FALSE
