SPECIFICATION MCSpec
CONSTANTS
    Codes = {c1, c2}
    Drafts = {d1, d2}
    Phones = {p1}
    Years = {y1, y2}
    NoPhone = NoPhone
    NoContact = NoContact
    Unknown = Unknown
    Placeholder = Placeholder
    NoRow = NoRow
    Admins = {a1, a2}
    h1 = h1
    h2 = h2
    t1 = t1
    t2 = t2
    e1 = e1
    e2 = e2
    SchoolIds = {h1, h2}
    Pupils = {k1, k2}
    Staff = {t1, t2}
    Entries = {e1, e2}
    l1 = l1
    l2 = l2
    g1 = g1
    q1 = q1
    q2 = q2
    Learners = {l1, l2}
    Guardians = {g1}
    Papers = {q1, q2}
    Topics = {o1, o2}
    Works = {w1, w2}
    Classes = {1, 2}
    Nil = Nil
    NoCode = NoCode
    Null = Null
    Absent = Absent
INVARIANTS
    ReviewsAreExact
    FamilyLinks
    DeleteAndEnrolExclude
    MinistryAgrees
    SchoolReportsAgree
SYMMETRY MCSymmetry
CHECK_DEADLOCK FALSE
