SPECIFICATION Spec
SYMMETRY ConsoleSymmetry
CONSTANTS
  a = a
  b = b
  Players <- MCTwo
  Duration = 3
  MaxDelay = 2
  LastFrame = 8
  Matches = 2
INVARIANTS TypeOK CloneOutlastsByDelay NoEchoOutlasts NeverLonger
CHECK_DEADLOCK FALSE
