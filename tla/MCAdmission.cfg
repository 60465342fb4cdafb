SPECIFICATION FairSpec
CONSTANTS
    Pods = {p1, p2}
    Requests = {k1, k2}
    Excluded = {k2}
    NoPod = NoPod
    MaxCerts = 2
    MaxCrashes = 1
    MaxEdits = 2
INVARIANT AdmissionTypeOK
PROPERTIES
    LabelsGuarded
    RotationSettles
    LabelledDone
CHECK_DEADLOCK FALSE
