CONSTANTS
    Cols = 2
    CharHeight = 2
    Height = 3
    Texts <- MCTexts
    MaxWrites = 3
SPECIFICATION FairSpec
INVARIANTS
    LineDrawn
    LineVisible
    CursorSafe
PROPERTIES
    WriteEnds
CHECK_DEADLOCK FALSE
