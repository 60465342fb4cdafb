\* All pairs of requests with up to two parameters.
SPECIFICATION Spec
CONSTANTS
    Characters = {1, 2, 3}
    MaxText = 1
    MaxKeys = 2
INVARIANTS
    Reproducible
    ValuesTellApart
CHECK_DEADLOCK FALSE
