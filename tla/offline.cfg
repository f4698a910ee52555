SPECIFICATION FairSpec
CONSTANTS
    MaxActions = 2
    RetryLimit = 2
    Managers = {m1, m2}
    User = user
    Refusals = {"error", "detail"}
    NoRow = NoRow
    MaxCloses = 1
INVARIANTS
    NothingLost
PROPERTIES
    SavesSettle
CONSTRAINT OneAtATime
