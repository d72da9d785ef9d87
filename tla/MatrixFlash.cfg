\* Two slots for cards; the first and the last output of a card with 64.
CONSTANTS
  LastSlot = 2
  Cards = {"DANTE"}
  ChannelsIn = {2}
  ChannelsOut = {1, 64}
SPECIFICATION FairSpec
INVARIANTS TypeOK MatrixAsSet VerdictOnUnlock
PROPERTIES CallsReturn
