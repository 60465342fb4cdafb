SPECIFICATION FairSpec
CONSTANTS
    Pods = {p1, p2}
    Requests = {k1}
    Excluded = {}
    NoPod = NoPod
    MaxCerts = 2
    MaxCrashes = 1
    MaxEdits = 2
CHECK_DEADLOCK FALSE
PROPERTY NoZombies
