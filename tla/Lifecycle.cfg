SPECIFICATION FairSpec
CONSTANTS
  Loops = 2
INVARIANTS
  TypeOK
  ExitAfterRunners
  ExitCodeTellsStart
PROPERTIES
  Contracts
  MainEnds
CHECK_DEADLOCK FALSE
