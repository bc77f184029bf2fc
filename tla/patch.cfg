SPECIFICATION Spec
CONSTANTS
  n1 = n1
  n2 = n2
  n3 = n3
  n4 = n4
  x = x
  y = y
  s1 = s1
  Path <- MCPath
  LayerOf <- MCLayerOf
  RootLayer = 2
  PromptPath = {}
  Id = {n1, n2, n3, n4}
  Sig = {x, y}
  FoldedSig = FoldedSig
  Schema = {s1}
  NoSchema = NoSchema
  SchemaFile = SchemaFile
  Absent = Absent
  Malformed = Malformed
  OldDisk <- MCOldDisk
  MaxChanged = 2
INVARIANTS ComputesIndex PatchEqualsWalk InnermostFirst EdgesFollowClaims
CHECK_DEADLOCK FALSE
