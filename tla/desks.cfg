SPECIFICATION MCSpec
CONSTANTS
    Callers = {c1, c2, c3}
    Books = {b1}
    Loans = {l1, l2}
    Rooms = {m1, m2}
    Stays = {y1, y2, y3}
    Students = {s1, s2}
    Slots = {k1}
    Slips = {p1}
    Assets = {a1}
    Leaves = {v1}
    Years = {j1, j2}
    Terms = {t1, t2}
    MaxDate = 3
    MaxSize = 2
    MaxCredit = 4
    Amounts = {1, 2}
    MaxVersion = 3
    Campuses = {y1, y2, y3}
    Codes = {g1, g2}
    Entries = {x1, x2}
    Names = {g1, g2}
    Sections = {g1, g2}
    Assignments = {y1, y2, y3}
    Teachers = {s1, s2}
    Pupils = {s1, s2}
    Logins = {u1, u2}
    Mails = {u1, u2}
    Provinces = {g1, g2}
    None = None
    NoRow = NoRow
    Nobody = Nobody
INVARIANTS
    SchoolAgrees
SYMMETRY MCSymmetry
CHECK_DEADLOCK FALSE
