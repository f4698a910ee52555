SPECIFICATION CheckoutSpec
CONSTANTS
    Invoices = {i1}
    UnknownInvoice = UnknownInvoice
    Total <- MCTotal
    DueDate <- MCDueDate
    Dates = {1}
    Keys = {t1}
    NoKey = NoKey
    Amounts = {10, 20}
    Sessions = {h1, h2, s1}
    Sweepers = {}
    NoSession = NoSession
    RowLockModes = {TRUE, FALSE}
    MaxPayments = 3
    Txns = {t1}
    TxnKey <- MCTxnKey
    TxnAmounts = {10}
    NoAmount = NoAmount
    NoticeAmounts = {20, NoAmount}
    TillKeys = {}
    Hooks = {h1, h2}
    Tills = {s1}
    MaxCrashes = 2
INVARIANTS
    MoneyIsReal
    OkMeansSettled
    WebhookKeyIsFree
PROPERTY ImplementsPayments
SYMMETRY MCSymmetry
CHECK_DEADLOCK FALSE
