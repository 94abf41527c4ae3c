SPECIFICATION Spec
CONSTANTS
    Pages = {p1, p2}
    NoPage = NoPage
    Files = {STOP}
    NoFile = NoFile
    StopFile = STOP
    MaxMark = 2
    MaxJoins = 2
    MaxContent = 2
    TornRetries = 1
    Hooks = {h1}
    Threads = {t1, t2}
    MaxDeliveries = 4
    Ttl = 2
    TriggerMax = 1
    MaxClock = 4
INVARIANTS
    TypeOK
    PageFreshOrFlagged
    DeliveryBuildsOnce
PROPERTIES
    LastChangeIsTold
CHECK_DEADLOCK FALSE
