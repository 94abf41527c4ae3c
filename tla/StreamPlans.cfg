SPECIFICATION Spec
CONSTANTS
    Names = {"s1", "s2"}
    MaxPlans = 2
    MaxTokens = 2
    MaxEdits = 2
    Suffixed <- MCSuffixed
    Tokens <- MCTokens
    Files <- MCFiles
INVARIANTS
    TypeOK
    OverlapMeetsGate
CHECK_DEADLOCK FALSE
