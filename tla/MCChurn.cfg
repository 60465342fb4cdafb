SPECIFICATION Spec
CONSTANTS
    Resources = {d1}
    EmptyResources = {}
    Types = {"git", "other"}
    Timeout = 1
    Requests = {k1}
    MaxTime = 2
    MaxVersion = 3
    MaxGeneration = 2
    AllowDelete = TRUE
    FaultKinds = {}
    MaxFaults = 0
    Resolvers = {git}
    Threads = 2
    Repeats = {FALSE}
    RetrySteps = 2
    ResolverTimeout = 1
    NoData = NoData
    Absent = Absent
    Core = Core
    git = git
    bundles = bundles
    Selector <- OneSelector
INVARIANTS
    TypeOK
    SucceededHasResult
    NoLostTimeout
    NoAbandonedRequest
PROPERTIES
    ResolversRespectDone
CHECK_DEADLOCK FALSE
