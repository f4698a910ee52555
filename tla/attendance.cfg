SPECIFICATION MCSpec
CONSTANTS
    c1 = c1
    c2 = c2
    d1 = d1
    d2 = d2
    web = web
    e1 = e1
    e2 = e2
    e3 = e3
    e4 = e4
    e5 = e5
    P = P
    A = A
    Cells = {c1, c2}
    Statuses = {P, A}
    Times = {1, 2, 3}
    Now = Now
    EventIds = {e1, e2, e3, e4, e5}
    NoId = NoId
    NoRow = NoRow
    Devices = {d1, d2, web}
    Syncs <- MCSyncs
    Onlines <- MCOnlines
    Loop = loop
    Threads = {t1}
    MaxLost = 1
    caller = caller
    v1 = v1
    v2 = v2
    v3 = v3
    Visits = {v1, v2, v3}
    Callers = {caller}
    Anonymous = Anonymous
    Unset = Unset
    Limit <- MCLimit
    Window = 1
    MaxClock = 3
    ReadinessTTL = 2
    Services <- MCServices
INVARIANTS
    LatestWins
    DoorAgrees
    RecordedWhole
    EventCountsOnce
PROPERTIES
    ImplementsRegister
    BatchIsRecorded
