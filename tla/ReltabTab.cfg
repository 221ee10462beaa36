SPECIFICATION Spec
CONSTANTS
  Files <- MCFiles
  M = 16
  None = None
INVARIANTS
  ColumnsFollowBox
  CellsRight
