SPECIFICATION Spec
CONSTANTS
  Paths = {p1, p2}
  Contents <- MCContents
  MaxWindows = 3
  MaxLinks = 2
  None = None
INVARIANTS
  WindowsAlive
PROPERTIES
  OthersLeftAlone
CHECK_DEADLOCK FALSE
