SPECIFICATION FairCheckoutSpec
CONSTANTS
    Invoices = {i1}
    UnknownInvoice = UnknownInvoice
    Total <- MCTotal
    DueDate <- MCDueDate
    Dates = {1}
    Keys = {t1, t2}
    NoKey = NoKey
    Amounts = {10, 20}
    Sessions = {h1}
    Sweepers = {}
    NoSession = NoSession
    RowLockModes = {TRUE}
    MaxPayments = 3
    Txns = {t1, t2}
    TxnKey <- MCTxnKey
    TxnAmounts = {10}
    NoAmount = NoAmount
    NoticeAmounts = {20}
    TillKeys = {}
    Hooks = {h1}
    Tills = {}
    MaxCrashes = 1
PROPERTY PaidIsSettled
