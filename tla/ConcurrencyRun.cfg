\* Two warm-ups and four measured requests: claims can follow the two that
\* decide an early stop while others are still in flight.
SPECIFICATION FairSpec
CONSTANTS
    Levels <- MCLevels
    Warmups = 2
    Requests = 4
    EarlyStop = 2
    Delays = {TRUE, FALSE}
INVARIANTS
    PoolAccounts
    LevelsMakeTheResult
PROPERTIES
    StopsClaiming
    RunEnds
    StepsRunOut
