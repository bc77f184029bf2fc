SPECIFICATION FairSpec
CONSTANTS
    p1 = p1
    p2 = p2
    Pane <- OnePane
    OwnMark <- Own
    OutMark <- Before
    FieldMark <- FieldMarks
    Rivals <- OneRivalry
    IdleWait = 1
    MaxWait = 2
    MaxLadders = 1
    MaxOutside = 1
    MaxFails = 1
    Gaps <- NoGaps
INVARIANTS
    SavesInTime
    NeverForgotten
PROPERTIES
    TypedIsSaved
CHECK_DEADLOCK FALSE
