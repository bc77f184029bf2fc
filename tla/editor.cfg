SPECIFICATION Spec
CONSTANTS
    p1 = p1
    p2 = p2
    Pane <- OnePane
    OwnMark <- Own
    OutMark <- Around
    FieldMark <- FieldMarks
    Rivals <- OneRivalry
    IdleWait = 0
    MaxWait = 0
    MaxLadders = 1
    MaxOutside = 2
    MaxFails = 0
    Gaps <- NoGaps
INVARIANTS
    TypeOK
    NothingLost
    OnlyOthersConflict
CHECK_DEADLOCK FALSE
