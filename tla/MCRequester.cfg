\* A client that submits again and again.
SPECIFICATION FairSystemSpec
CONSTANTS
    Resources = {d1, e1}
    EmptyResources = {e1}
    Types = {"git", "other"}
    Timeout = 1
    Requests = {k1}
    MaxTime = 2
    MaxVersion = 2
    MaxGeneration = 1
    AllowDelete = FALSE
    FaultKinds = {}
    MaxFaults = 0
    Resolvers = {git}
    Threads = 1
    Repeats = {FALSE}
    RetrySteps = 2
    ResolverTimeout = 1
    NoData = NoData
    Absent = Absent
    Core = Core
    git = git
    Selector <- OneSelector
INVARIANTS
    AnswerHasResult
    WorksOnSelected
PROPERTY EventuallyAnswered
CHECK_DEADLOCK FALSE
