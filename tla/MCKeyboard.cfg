CONSTANTS
    PhysKeys = {"Shift", "Alt", "CapsLock", "KeyQ", "Key1", "Up"}
    MakeCode <- MCMakeCode
    BreakCode <- MCBreakCode
    MaxKeys = 3
    BufLen = 2
    MaxRepeats = 1
    MaxLost = 1
SPECIFICATION KeySpec
INVARIANTS
    KeysTracked
    CharMeant
    PrefixesBounded
CHECK_DEADLOCK FALSE
