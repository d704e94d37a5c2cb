CONSTANTS
    Procs = {eve, p1, p2}
    Eve = eve
    FrameCount = 12
    Levels = 2
    EntryCount = 4
    HigherHalf = 2
    Layout <- MCLayout
    HeapStart = 3
    PageSize = 2
    Amounts <- MCAmounts
    MaxBreak = 3
SPECIFICATION Spec
PROPERTIES
    ExitFreesAll
