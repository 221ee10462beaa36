SPECIFICATION Spec
CONSTANTS
  Files <- MCFiles
  Syms <- MCSyms
  NoStab = NoStab
INVARIANTS
  BitsOnce
  LinesRight
  CommonsAgree
CHECK_DEADLOCK FALSE
