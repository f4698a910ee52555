SPECIFICATION Spec
CONSTANTS
    Invoices = {i1}
    UnknownInvoice = UnknownInvoice
    Total <- MCTotal
    DueDate <- MCDueDate
    Dates = {1, 2}
    Keys = {k1}
    NoKey = NoKey
    Amounts <- MCAmounts
    Sessions = {s1, s2}
    Sweepers = {w1}
    NoSession = NoSession
    RowLockModes = {TRUE, FALSE}
    MaxPayments = 3
INVARIANTS
    LedgerBalanced
    NeverOverpaid
    OneRowPerKey
    StatusHonest
PROPERTIES
    LedgerOnlyGrows
    ImplementsLedger
SYMMETRY MCSymmetry
