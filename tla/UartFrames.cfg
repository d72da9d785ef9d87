\* The model stops where a store would run beyond sof.
SPECIFICATION Spec
CONSTANTS
  EcuLen = 3
  MaxPayload = 120
  Ecus = {"D", "T"}
  Ascii <- Texts
  Raw <- Bytes
  MaxFailures = 8
INVARIANTS
  TypeOK
  BuffersSuffice
  FramesIntact
CHECK_DEADLOCK FALSE
