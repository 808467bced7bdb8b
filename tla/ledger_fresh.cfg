SPECIFICATION Spec
CONSTANTS
    LastPeriod = 3
    YearLength = 12
    Entries <- AllEntries
    MaxJournals = 3
    MaxAmount = 6
    MaxLife = 4
    BatchingType = "ALL"
    StalePages = FALSE
    LateEntries = FALSE
INVARIANTS
    BalancesMatchJournals
    OpeningCarriesClosing
    ResultCleared
    PeriodOrder
    NoBatchedInClosed
    AssetMatchesJournals
PROPERTIES
    ClosedFrozen
CHECK_DEADLOCK FALSE
