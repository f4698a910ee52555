SPECIFICATION MCSpec
CONSTANTS
    good1 = good1
    good2 = good2
    poison = poison
    school1 = school1
    school2 = school2
    Events = {good1, good2, poison}
    Schools = {school1, school2}
    SchoolOf <- MCSchoolOf
    KindOf <- MCKindOf
    NoRow = NoRow
    Unread = Unread
    BatchSize = 2
    Calls = {k1, k2, k3}
    FailureThreshold = 2
    SuccessThreshold = 2
    MaxAttempts = 2
    Outbox = {o1, o2}
    Messages = {m1}
    Workers = {w1, w2}
    Admins = {a1}
    inApp = o2
    Missing = Missing
    MaxRetries = 1
    MaxTries = 2
INVARIANTS
    ProjectionIsFold
    NothingSkipped
    BreakerAgrees
    DeliveriesAgree
PROPERTIES
    EveryEventSettles
    BreakerRecovers
CHECK_DEADLOCK FALSE
