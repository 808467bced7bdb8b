SPECIFICATION Spec
CONSTANTS
    Lines = {bolts, nuts}
    Orders = {"order"}
    OrderOf <- OneOrder
    Sequences = {first, second}
    Deliveries = {morning, evening}
    MaxQuantity = 2
    StalePages = FALSE
SYMMETRY Symmetric
INVARIANTS
    TypeOK
    CountersFollowDocuments
    PlannedWithinOrder
    PlanningNeedsApproval
PROPERTIES
    SettledStays
    ParcelSpec
CHECK_DEADLOCK FALSE
