CONSTANTS
    MaxPids = 3
    ExitCodes = {7, 8}
SPECIFICATION FairSpec
INVARIANTS
    TypeOK
    CurrentListed
    NoneLost
PROPERTIES
    WaitReturnsCode
    ReapedWhenCollected
    EveryoneRuns
    WaitReturns
