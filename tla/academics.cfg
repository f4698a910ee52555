SPECIFICATION MCSpec
CONSTANTS
    u1 = u1
    t1 = t1
    t2 = t2
    s1 = s1
    s2 = s2
    r1 = r1
    r2 = r2
    r3 = r3
    q1 = q1
    q2 = q2
    Units = {u1}
    Topics = {t1, t2}
    UnitOf <- MCUnitOf
    NoRow = NoRow
    NoParent = NoParent
    Attrs = {1, 2}
    MaxVersion = 2
    Ministers = {m1}
    Offices = {o1, o2}
    Students = {s1, s2}
    Questions = {q1, q2}
    Drafts = {d1, d2}
    Threads = {o1, o2}
    Saves = {r1, r2, r3}
    Body <- MCBody
    MaxMarks = 2
    Null = Null
    Missing = Missing
    MaxDeaths = 1
    MaxAnswers = 2
INVARIANTS
    CurrentMeansComplete
    ParentsResolve
    PreviewForetells
    MarksAreLast
    BankIsExact
PROPERTY CustomUntouched
SYMMETRY MCSymmetry
CHECK_DEADLOCK FALSE
