SPECIFICATION Spec
CONSTANTS
    Entity <- Hero
    Keys <- OneKey
    BaseItems <- Item
    Scene = {a, b}
    Rows <- LaterRows
    StartSets <- TwoSets
    AutomaticKeep = 1
    MaxMarks = 2
    MaxAnchors = 3
    MaxSets = 3
    MaxKept = 1
    MaxSteps = 4
    CopyInPlace = FALSE
    PasteRestored = FALSE
    PasteUnset = FALSE
    SnapUnset = FALSE
    StartBodies <- Bodies
SYMMETRY Symmetry
INVARIANTS ReaderAgrees FieldsByLatest OneAnchorOnePlace
PROPERTIES RestoreKeepsMeaning
CHECK_DEADLOCK FALSE
