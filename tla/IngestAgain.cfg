SPECIFICATION KnowSpec
CONSTANTS
    Ingesters = {p1}
    Docs = {1, 2, 3}
    MaxPerCategory = 2
    MaxEdits = 0
    MaxNotes = 0
INVARIANTS
    IngestIdempotent
CHECK_DEADLOCK FALSE
