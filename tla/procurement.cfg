SPECIFICATION Spec
CONSTANTS
    Items = {bolts, engine}
    Serial = {engine}
    Orders = {first, second}
    MaxQuantity = 2
    Ordered = {2}
    MaxPieces = 1
    StalePages = FALSE
SYMMETRY Symmetric
INVARIANTS
    TypeOK
    NothingBeforeApproval
    OrderedOnce
    InvoicedOnce
    BarcodeStatus
PROPERTIES
    LockedStays
CHECK_DEADLOCK FALSE
