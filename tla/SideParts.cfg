SPECIFICATION SideSpec
CONSTANTS
  a = a  b = b  c = c  d = d  x = x  k1 = k1  k2 = k2
  OldSlotCount = 3
  HighestMap = 6
  MapIds <- MapsFromZero
  UnknownIds <- NoMap
  Tunes = {a, b, c, d}
  NoSeed = NoSeed
  Unlisted = x
  Seeds <- MCSeeds
  Shuffled <- MCShuffled
  Consoles = {k1, k2}
  Loaded <- MCLoaded
  Stored = 4
  MaxScan = 5
  SnapSize = 64
  Words = 3
  NoShift = NoShift
  Kings = {k1, k2}
  Balls = {a, b}
  NoBall = NoBall
  RushFrames = 1
  AirCap = 3
INVARIANTS SideTypeOK SameShiftSamePicks BallHasOneOwner DiveEarned
PROPERTIES ImplementsPrivateStages ImplementsPlaylist
