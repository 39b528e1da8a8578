\* Chains of up to four blocks around a fork at height 2, a window of two.
SPECIFICATION Spec
CONSTANTS
  Tables <- MCTables
  WindowSize = 2
  Versions = {1, 2, 3}
  MaxHeight = 4
INVARIANTS
  TypeOK
  VersionByHeight
  BlocksInForce
  OriginalsFit
  WindowExact
CHECK_DEADLOCK FALSE
