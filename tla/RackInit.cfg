SPECIFICATION Spec
CONSTANTS
  LastSlot = 2
  MaxUnfilled = 1
INVARIANTS
  TypeOK
  DiscoveryComplete
  EncodedForItsCard
  DefaultsAllOrNone
PROPERTIES
  CallsRunOut
CHECK_DEADLOCK FALSE
