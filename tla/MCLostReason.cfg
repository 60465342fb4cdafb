\* A resolver that returns errors with a reason of their own.
SPECIFICATION Spec
CONSTANTS
    Resources = {d1}
    EmptyResources = {}
    NoData = NoData
    Types = {"git"}
    Timeout = 1
    Absent = Absent
    Calls = {c1}
    Threads = 1
    OwnReasons = {"NotFound"}
    DefaultTimeout = 2
    Durations = {0, 1}
    MaxTime = 2
    MaxChanges = 1
INVARIANT OwnReasonReported
CHECK_DEADLOCK FALSE
