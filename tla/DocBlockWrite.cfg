SPECIFICATION Spec
CONSTANTS
  Slots = {s1, s2}
  Populated = {s1}
  Bits = {b1}
  Kinds = {"wblock"}
  Faults = {"spi"}
INVARIANT
  BlockWriteLands
