SPECIFICATION Spec
CONSTANTS
  LastSlot = 2
  Channels = {1, 4, 5}
  Gains <- SomeGains
  Levels = {1, 3}
  Rates = {"48k"}
  Leftovers = {213}
INVARIANTS
  TypeOK
  GainReadsBack
  PadReadsBack
PROPERTIES
  PadsIndependent
  ControlsAreCells
