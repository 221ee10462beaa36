SPECIFICATION ViewSpec
CONSTANTS
  Infos <- MCInfos
  Types <- MCTypes
  Nesting <- MCNesting
  Names = {"x", "y", "u"}
  MaxLen = 9
  Half = 32
  MaxCount = 20
  NoType = NoType
INVARIANTS
  FindsGlobal
  DecodesWhole
  DecodesWhatFits
  PanicsOnlyOnOddTypes
CHECK_DEADLOCK FALSE
