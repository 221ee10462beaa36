SPECIFICATION AnchorSpec
CONSTANTS
  W = 256
  B = 2
  LinkMax = 12
  IsObj = TRUE
  Arm64 = {}
  MaxAlloc = 100
  OddTypes = {1}
  Nil = Nil
  NoTarget = NoTarget
  NotANumber = NotANumber
  Files <- MCFiles
  Kinds <- MCKinds
  Raws <- MCRaws
  SectType <- MCSectType
  NoModels = {"Code"}
INVARIANTS
  TargetMeant
  LinksLeadToTarget
  SectionWindowRight
  DiesOnlyOfBadLinks
PROPERTY
  ClicksLeadToTarget
CHECK_DEADLOCK FALSE
