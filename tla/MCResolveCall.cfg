\* Two calls on two worker threads, the configuration changing between them.
SPECIFICATION FairSpec
CONSTANTS
    Resources = {d1}
    EmptyResources = {}
    NoData = NoData
    Types = {"git"}
    Timeout = 1
    Absent = Absent
    Calls = {c1, c2}
    Threads = 2
    OwnReasons = {"NotFound"}
    DefaultTimeout = 2
    Durations = {0, 1}
    MaxTime = 3
    MaxChanges = 1
INVARIANTS
    TypeOK
    BlockedOnlyAfterTimeout
PROPERTIES
    ImplementsOutcome
    EveryCallReturns
CHECK_DEADLOCK FALSE
