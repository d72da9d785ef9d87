SPECIFICATION FairSpec
CONSTANTS
  Slots = {s1}
  Populated = {s1}
  Bits = {b1}
  Kinds = {"wbyte", "wblock", "rblock"}
  Faults = {"spi", "busy", "invalid", "unplug"}
INVARIANTS
  IInv
  ByteWriteLands
PROPERTIES
  CommandsWaitedFor
  CallReturns
