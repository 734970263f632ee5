SPECIFICATION Spec
SYMMETRY ConsoleSymmetry
CONSTANTS
  a = a
  b = b
  Players <- MCTwo
  Duration = 3
  MaxDelay = 2
  LastFrame = 8
  Matches = 2
INVARIANTS PickupReachesClones
CHECK_DEADLOCK FALSE
