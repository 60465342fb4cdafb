SPECIFICATION FairSpec
CONSTANTS
    Names = {a, b}
    Threads = 2
    None = None
    Configs = {"empty", "named"}
    Existing = {a}
    MaxChanges = 1
INVARIANTS
    TypeOK
    ReadyBeforeWork
    NoMissedChange
    OwnProcessesStart
PROPERTIES
    EventuallyReconciled
    EventuallyStops
    ImplementsWorkQueue
    NoNameStarves
CHECK_DEADLOCK FALSE
