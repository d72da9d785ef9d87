\* Seven loops: the pause comes before the last four.
SPECIFICATION FairSpec
CONSTANTS
  Loops = 7
  Pauses = 1
  MaxLag = 2
INVARIANTS
  TypeOK
  WorksConfigured
  NoPeriodLost
PROPERTIES
  XrunsSurvived
  KeepsContract
  RunnerEnds
CHECK_DEADLOCK FALSE
