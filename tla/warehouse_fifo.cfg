SPECIFICATION Spec
CONSTANTS
    Containers = {shelf, dock}
    Facilities = {shelf, dock}
    FacilityOf <- OneEach
    PurchaseItems = {}
    LastDate = 2
    MaxQty = 2
    Ordered = {2}
    Prices = {1, 2}
    MaxLayers = 3
    ControlType = "FIFO"
    ForeignKeys = TRUE
SYMMETRY Interchangeable
INVARIANTS
    TypeOK
    RecordsAgree
    StockCardNeverNegative
    LedgerMatchesLayers
PROPERTIES
    ConsumptionOrder
    BookSpec
CHECK_DEADLOCK FALSE
