SPECIFICATION Spec
CONSTANTS
    Resources = {d1}
    EmptyResources = {}
    Types = {"git"}
    Timeout = 1
    Requests = {k1}
    MaxTime = 2
    MaxVersion = 4
    MaxGeneration = 1
    AllowDelete = FALSE
    FaultKinds = {}
    MaxFaults = 0
    Resolvers = {git}
    Threads = 2
    Repeats = {FALSE}
    RetrySteps = 2
    ResolverTimeout = 1
    NoData = NoData
    Absent = Absent
    Core = Core
    git = git
    bundles = bundles
    Selector <- OneSelector
PROPERTIES
    DoneIsFinal
CHECK_DEADLOCK FALSE
