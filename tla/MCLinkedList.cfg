CONSTANTS
    Nil = Nil
    MaxPush = 7
SPECIFICATION Spec
INVARIANTS
    Linked
    IterVisitsAll
PROPERTIES
    RingSpec
CHECK_DEADLOCK FALSE
