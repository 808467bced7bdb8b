SPECIFICATION Spec
CONSTANTS
    Containers = {shelf, dock}
    Facilities = {west}
    FacilityOf <- OneFacility
    PurchaseItems = {"order"}
    LastDate = 2
    MaxQty = 2
    Ordered = {2}
    Prices = {1}
    MaxLayers = 3
    ControlType = "LIFO"
    ForeignKeys = FALSE
SYMMETRY Interchangeable
INVARIANTS
    OnHandCovered
    DocCounters
PROPERTIES
    ConsumptionOrder
CHECK_DEADLOCK FALSE
