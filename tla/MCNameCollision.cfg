\* Requests whose parts are different and whose names are not.
SPECIFICATION Spec
CONSTANTS
    Characters = {1, 2, 3}
    MaxText = 1
    MaxKeys = 2
INVARIANT EveryPartHashed
CHECK_DEADLOCK FALSE
