SPECIFICATION Spec
CONSTANTS
    none = none
    NoCompany = none
    Companies = {"A", "AB"}
    Types = {"JOURNAL_ENTRY", "SALES_ORDER", "BARCODE_GROUP", "BARCODE_PRODUCT", "BILLING"}
    Form <- FormOf
    Like <- Contains
    Sessions = {"one", "two"}
    Calls <- OrderCalls
    Years = {24, 25}
    Months = {1, 2}
    MaxDocuments = 3
INVARIANTS
    UniqueCodes
CHECK_DEADLOCK FALSE
