SPECIFICATION Spec
CONSTANTS
    LastPeriod = 2
    YearLength = 12
    Entries <- OneEntry
    MaxJournals = 1
    MaxAmount = 4
    MaxLife = 1
    BatchingType = "ALL"
    StalePages = TRUE
    LateEntries = TRUE
INVARIANTS
    TypeOK
    TrialBalance
CHECK_DEADLOCK FALSE
