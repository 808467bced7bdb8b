SPECIFICATION Spec
CONSTANTS
    Items = {engine, pump}
    Serial = {engine, pump}
    Orders = {first}
    MaxQuantity = 1
    Ordered = {1}
    MaxPieces = 1
    StalePages = FALSE
INVARIANTS
    AllBarcoded
CHECK_DEADLOCK FALSE
