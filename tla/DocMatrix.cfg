CONSTANTS
  LastSlot = 2
  Cards = {"DANTE"}
  ChannelsIn = {2}
  ChannelsOut = {1}
SPECIFICATION Spec
PROPERTIES RoutesAsAsked
