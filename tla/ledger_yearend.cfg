SPECIFICATION Spec
CONSTANTS
    LastPeriod = 3
    YearLength = 2
    Entries <- OneEntry
    MaxJournals = 1
    MaxAmount = 6
    MaxLife = 4
    BatchingType = "ALL"
    StalePages = FALSE
    LateEntries = FALSE
INVARIANTS
    ClosedOpensNext
CHECK_DEADLOCK FALSE
