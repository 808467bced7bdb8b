SPECIFICATION Spec
CONSTANTS
    Customers = {"branch", "office"}
    Suppliers = {}
    Prepaying = {"office"}
    PartyGroup <- Branches
    NoParty = NoParty
    MaxBills = 2
    Amounts = {3}
    Charges = {1}
    Methods = {"CASH", "CLEARING"}
    Entries <- Typed
    Prepayments = {}
    NoPrepayment = NoPrepayment
    Pages = {desk}
    MaxReceipts = 2
    MaxRequests = 2
    Patient = FALSE
INVARIANTS
    LinesAreTheParties
CHECK_DEADLOCK FALSE
