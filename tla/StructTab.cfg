SPECIFICATION Spec
CONSTANTS
  W = 10
  Files <- MCFiles
  FileFlags = 3
  SegmentFlags = 2
  Nil = Nil
CONSTRAINT FewTables
INVARIANTS
  ShownIsCurrent
  EverythingOnce
  PanicsOnlyOnUnnamedFlags
PROPERTIES
  ImplementsAttrTables
CHECK_DEADLOCK FALSE
