SPECIFICATION Spec
CONSTANTS
    Customers = {"branch", "office"}
    Suppliers = {"supplier"}
    Prepaying = {"office"}
    PartyGroup <- Branches
    NoParty = NoParty
    MaxBills = 2
    Amounts = {3}
    Charges = {1}
    Methods = {"TRANSFER", "CLEARING"}
    Entries <- Typed
    Prepayments = {prepaid}
    NoPrepayment = NoPrepayment
    Pages = {desk, till}
    MaxReceipts = 2
    MaxRequests = 2
    Patient = TRUE
SYMMETRY Interchangeable
INVARIANTS
    TypeOK
    LinesAreTheParties
    UnpaidFollowsReceipts
    NeverOverpaid
    SettledTogether
    RestIsNegligible
    PrepaymentCovered
CHECK_DEADLOCK FALSE
