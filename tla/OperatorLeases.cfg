SPECIFICATION OpSpec
CONSTANTS
    Pids = {"p1", "p2"}
    Names = {"s1", "s2"}
    NoLease = NoLease
    NoClaim = NoClaim
    MaxStarts = 3
    Suffixed <- MCSuffixed
    Tokens <- MCTokens
INVARIANTS
    OperatorsExclusive
