CONSTANTS
    Procs = {p1, p2}
    Counts = {1, 3}
    MaxTyped = 4
    MaxScreen = 5
    MaxPrints = 1
SPECIFICATION FairSpec
INVARIANTS
    InputInOrder
    LineSeen
PROPERTIES
    EchoResumes
    LineTaken
CHECK_DEADLOCK FALSE
