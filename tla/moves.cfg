SPECIFICATION Spec
CHECK_DEADLOCK FALSE
CONSTANTS
  w1 = w1
  w2 = w2
  x = x
  y = y
  Top = Top
  Stranger = Stranger
  Absent = Absent
  NoRank = NoRank
  NoWork = NoWork
  NoFile = NoFile
  Free = Free
  Node <- MCNode
  Container <- MCContainer
  MaxDecimals = 1
  Grain <- MCGrain
  Worker = {w1, w2}
  Mover = {w1}
  InitialTree <- TidyTrees
  Prose = {x, y}
  NewProse = x
  MaxRequests = 2
  RenamesRace = FALSE
INVARIANTS NothingLost
PROPERTIES OrderKept MoveLands
