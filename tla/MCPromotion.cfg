SPECIFICATION Spec
CONSTANTS
    Resources = {d1}
    EmptyResources = {}
    Types = {"git", "bundles"}
    Timeout = 1
    Requests = {k1}
    MaxTime = 2
    MaxVersion = 3
    MaxGeneration = 1
    AllowDelete = FALSE
    FaultKinds = {"restart"}
    MaxFaults = 1
    Resolvers = {git, bundles}
    Threads = 2
    Repeats = {FALSE}
    RetrySteps = 2
    ResolverTimeout = 1
    NoData = NoData
    Absent = Absent
    Core = Core
    git = git
    bundles = bundles
    Selector <- TwoSelectors
INVARIANTS
    WorksOnSelected
CHECK_DEADLOCK FALSE
