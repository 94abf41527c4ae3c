SPECIFICATION Spec
CONSTANTS
    s1 = s1
    s2 = s2
    api = api
    ui = ui
    src = src
    docs = docs
    Sessions = {s1, s2}
    Names = {api, ui}
    Tokens = {src, docs}
    NoOne = NoOne
    Overlap <- MCOverlap
    Plan <- MCPlan
    Allowed <- MCAllowed
INVARIANTS
    TypeOK
    LeaseCoversRun
    RunningDisjoint
    MergedIsGated
    EndedHoldsNothing
    StopReachesOrWarns
