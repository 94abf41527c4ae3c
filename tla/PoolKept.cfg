SPECIFICATION PoolSpec
CONSTANTS
    Clerks = {p1, p2}
    NoClerk = Nobody
    Texts = {x1, x2}
    MaxQuestions = 2
INVARIANTS
    PoolIsKept
CHECK_DEADLOCK FALSE
