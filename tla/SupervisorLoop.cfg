SPECIFICATION FairSpec
CONSTANTS
    MaxTurns = 4
    MaxCycles = 2
    MaxRetries = 1
    CreatePr = TRUE
    MaxRuns = 2
INVARIANTS
    TypeOK
    PrOnlyAfterGreenTests
    OnePrPerCycle
    StopEndsTheTurn
PROPERTIES
    RunEnds
