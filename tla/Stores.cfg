SPECIFICATION Spec
SYMMETRY Symmetry
CONSTANTS
    Clerks = {p1, p2}
    NoClerk = Nobody
    Texts = {x1, x2}
    MaxQuestions = 2
    Auditors = {p1, p2}
    NoAuditor = Nobody
    MaxEntries = 3
    MdTail = 2
    Updaters = {p1, p2, p3}
    NoUpdater = Nobody
    Writers = {p1, p2}
    NoWriter = Nobody
    MaxDeltas = 1
    GwThreads = {p1, p2}
    Asks = {x1, x2}
    Endpoints = {chat, embed}
    MaxRows = 1
    CacheTtl = 1
    MaxGwClock = 2
    MaxRequests = 3
    Preferred = FALSE
    Sessions = {p1, p2}
    NoSession = Nobody
    Cycles = {1}
    MaxProposals = 2
    MaxLosses = 1
    Keepers = {p1, p2}
    NoKeeper = Nobody
    Window = 2
    MaxCycles = 4
    Curators = {p1, p2}
    NoCurator = Nobody
    Lessons = {x1, x2}
    SeedLesson = seed
    MaxBullets = 1
    KeptBullets = 1
    MaxCurations = 2
    Ingesters = {p1, p2}
    Docs = {1, 2}
    MaxPerCategory = 2
    MaxEdits = 1
    MaxNotes = 1
INVARIANTS
    TypeOK
    RecordsKept
    UpdatesKept
    IdsMeanOneThing
    LookUpsAreRight
CHECK_DEADLOCK FALSE
