SPECIFICATION MCSpec
CONSTANTS
    Callers = {c1, c2}
    Announcements = {w1}
    Initiates = {w2}
    Structures = {f1}
    Payers = {s1, s2}
    Invoices = {y1, y2, y3}
    InvoiceKeys = {w1, w2}
    NoInvoiceKey = NoInvoiceKey
    MaxPrice = 2
    Pairs = {q1}
    Messages = {y1, y2, y3}
    Notices = {n1}
    Users = {u1, u2}
    Mails = {e1, e2}
    Chosen = {u1, e1, d1}
    Phones = {o1}
    Invites = {y1, y2, y3}
    Sessions = {y1, y2, y3}
    Links = {y1, y2, y3}
    MaxResends = 1
    MaxTokens = 1
    NoMail = NoMail
    Nationals = {z1, z2}
    Templates = {d1, d2}
    Homeworks = {h1}
    Files = {x1, x2}
    Pupils = {s1}
    Values = {g1, g2}
    Entries = {g1, g2}
    NoValue = NoValue
    Contents = {g1, g2}
    Rows = {y1, y2, y3}
    NoRow = NoRow
INVARIANTS
    AccountsAgree
    HomeworkAgrees
    ServicesAgree
SYMMETRY MCSymmetry
CHECK_DEADLOCK FALSE
