SPECIFICATION Spec
CONSTANTS
  Slots = {s1, s2}
  Populated = {s1}
  Bits = {b1}
  Kinds = {"wbyte", "wblock", "rbyte", "rblock", "tas", "tar"}
  Faults = {"busy"}
INVARIANT
  TypeOK
PROPERTY
  Atomic
