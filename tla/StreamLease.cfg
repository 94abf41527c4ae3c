SPECIFICATION Spec
SYMMETRY Symmetry
CONSTANTS
    Pids = {p1, p2}
    Names = {api, ui}
    NoLease = NoLease
    NoClaim = NoClaim
    MaxStarts = 3
    Suffixed <- MCSuffixed
    Tokens <- MCTokens
INVARIANTS
    TypeOK
    RegistryDisjoint
    HeldIsRegistered
    NoGhostLease
PROPERTIES
    ImplementsOwnership
