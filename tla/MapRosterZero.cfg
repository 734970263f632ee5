SPECIFICATION Spec
CONSTANTS
  OldSlotCount = 2
  HighestMap = 3
  MapIds <- MapsFromZero
  UnknownIds <- NoMap
PROPERTIES RosterKept
