SPECIFICATION Spec
CONSTANTS
  w1 = w1
  w2 = w2
  a = a
  b = b
  x = x
  y = y
  s1 = s1
  s2 = s2
  Path <- MCPath
  LayerOf <- MCLayerOf
  RootLayer = 2
  PromptPath = {3}
  Id = {a, b}
  Sig = {x}
  FoldedSig = FoldedSig
  Schema = {s1, s2}
  NoSchema = NoSchema
  SchemaFile = SchemaFile
  Absent = Absent
  Malformed = Malformed
  Worker = {w1, w2}
  OverTarget = {a}
  InitialDisk <- ShadowingOnly
  MaxEdits = 3
  MaxForeign = 1
  Unreadable <- BothFail
  NoMemo = NoMemo
  NoFlush = NoFlush
  NoSnap = NoSnap
  NoJob = NoJob
INVARIANTS CoherentWhenQuiet PurgeIsSafe SnapshotKeepsEdges
CHECK_DEADLOCK FALSE
SYMMETRY Threads
