SPECIFICATION FairSpec
CONSTANTS
  HEAD = 1
  MAX_BODY = 2
  MaxDeclared = 3
  MaxDeaths = 1
PROPERTIES
  WorkersEnd
CHECK_DEADLOCK FALSE
