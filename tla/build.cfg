SPECIFICATION BuildSpec
CHECK_DEADLOCK FALSE
CONSTANTS
  Top = Top
  Stranger = Stranger
  Absent = Absent
  NoRank = NoRank
  Node <- MCNode
  Container <- MCContainer
  MaxDecimals = 1
  Grain <- MCGrain
  AnyTree <- MCAnyTree
INVARIANTS FindsCycles NothingDropped
