SPECIFICATION FairCheckoutSpec
CONSTANTS
    Invoices = {i1}
    UnknownInvoice = UnknownInvoice
    Total <- MCTotal
    DueDate <- MCDueDate
    Dates = {1}
    Keys = {t1}
    NoKey = NoKey
    Amounts = {10, 20}
    Sessions = {h1, s1}
    Sweepers = {}
    NoSession = NoSession
    RowLockModes = {TRUE}
    MaxPayments = 3
    Txns = {t1}
    TxnKey <- MCTxnKey
    TxnAmounts = {20}
    NoAmount = NoAmount
    NoticeAmounts = {20, NoAmount}
    TillKeys = {}
    Hooks = {h1}
    Tills = {s1}
    MaxCrashes = 0
PROPERTY WebhookAnswered
CHECK_DEADLOCK FALSE
