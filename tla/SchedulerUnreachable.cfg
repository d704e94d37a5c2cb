CONSTANTS
    MaxPids = 4
    ExitCodes = {7}
SPECIFICATION Spec
INVARIANTS
    CurrentStateReachable
