CONSTANTS
    Header = 1
    PageSize = 4
    InitSize = 8
    FrameCount = 10
    Entries = 4
    FirstPage = 14
    BootEntry <- MCBootEntry
    AddressEnd = 64
    Layouts = {1, 7, 63}
    MaxLive = 3
    LargeStart = 10
    LargeEnd = 12
    LargeSizes = {4, 5}
SPECIFICATION FairSpec
INVARIANTS
    TypeOK
    Tiled
    Coalesced
    FramesOwned
PROPERTIES
    HeapAllocates
    LargeAllocates
    CallsReturn
CHECK_DEADLOCK FALSE
