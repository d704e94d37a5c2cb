CONSTANTS
    Procs = {p1, p2}
    First = p1
    Names = {"a", "b"}
    Paths <- MixedPaths
    MaxInodes = 6
    MaxPath = 6
SPECIFICATION Spec
INVARIANTS
    Tree
    DotDotIsParent
    CwdIsBase
    CreatedIsFound
CHECK_DEADLOCK FALSE
