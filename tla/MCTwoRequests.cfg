SPECIFICATION FairSpec
CONSTANTS
    Resources = {d1}
    EmptyResources = {}
    Types = {"git"}
    Timeout = 1
    Requests = {k1, k2}
    MaxTime = 2
    MaxVersion = 1
    MaxGeneration = 1
    AllowDelete = FALSE
    FaultKinds = {}
    MaxFaults = 0
    Resolvers = {git}
    Threads = 1
    Repeats = {FALSE}
    RetrySteps = 2
    ResolverTimeout = 1
    NoData = NoData
    Absent = Absent
    Core = Core
    git = git
    bundles = bundles
    Selector <- OneSelector
PROPERTIES
    EventuallyDone
CHECK_DEADLOCK FALSE
