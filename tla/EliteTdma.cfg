SPECIFICATION FairSpec
CONSTANTS
  Loops = 3
  Attempts = 3
INVARIANTS
  TypeOK
  WaitsOnLine
PROPERTIES
  Contracts
  RunnersEnd
CHECK_DEADLOCK FALSE
