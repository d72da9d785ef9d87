SPECIFICATION Spec
CONSTANTS
  LastSlot = 2
  MaxUnfilled = 0
INVARIANTS
  NoDataIsNoAddress
CHECK_DEADLOCK FALSE
