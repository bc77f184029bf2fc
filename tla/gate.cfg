SPECIFICATION Spec
CONSTANTS
  w1 = w1
  w2 = w2
  a = a
  b = b
  x = x
  y = y
  s1 = s1
  s2 = s2
  Path <- MCPath
  LayerOf <- MCLayerOf
  RootLayer = 2
  PromptPath = {}
  Id = {a, b}
  Sig = {x, y}
  FoldedSig = FoldedSig
  Schema = {s1}
  NoSchema = NoSchema
  SchemaFile = SchemaFile
  Absent = Absent
  Malformed = Malformed
  Worker = {w1, w2}
  OverTarget = {}
  InitialDisk <- FlatOnly
  MaxEdits = 4
  MaxForeign = 0
  Unreadable <- NoneFails
  NoMemo = NoMemo
  NoFlush = NoFlush
  NoSnap = NoSnap
  NoJob = NoJob
INVARIANTS TypeOK CoherentWhenQuiet SnapshotTrue
PROPERTY SnapshotNeverGoesBack
CHECK_DEADLOCK FALSE
SYMMETRY Threads
