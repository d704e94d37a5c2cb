CONSTANTS
    Procs = {eve, p1}
    First = eve
    Objects = {obj}
    MaxFds = 4
SPECIFICATION Spec
INVARIANTS
    NoHoleMissed
PROPERTIES
    TableSpec
