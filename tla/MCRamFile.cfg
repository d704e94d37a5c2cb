CONSTANTS
    Files = {f}
    Fds = {d1, d2}
    Zero = zero
    Counts = {0, 1, 2}
    MaxSize = 3
SPECIFICATION FileSpec
SYMMETRY Alike
INVARIANTS
    SoleWriterOwnsFile
    ReaderKeepsPlace
CHECK_DEADLOCK FALSE
