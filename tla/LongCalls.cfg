SPECIFICATION Spec
CONSTANTS
    Ids = {i1, i2}
    NoCall = NoCall
    MaxFrames = 3
    MaxLines = 3
    QueueCap = 1
    NotifyPerS = 1
    MaxSeconds = 1
    LogMax = 4
    ReadMax = 2
    Reports = TRUE
    MaxWrites = 2
    Servers = {a, b}
    Nobody = Nobody
    MaxRuns = 2
    Keep = 1
    MaxDeaths = 1
    HasUnit = TRUE
    HasLabels = TRUE
    Patterns = {bug, nit}
    Extras = {more}
    MaxSize = 2
    Limit = 3
INVARIANTS
    TypeOK
    OneCallAtATime
    
    OutputAccounted
    
    ToolsKeepOut
    ProbeOkWasSeen
PROPERTIES
    CallsEnd
CHECK_DEADLOCK FALSE
