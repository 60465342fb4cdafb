\* A commit parameter that is not a hash.
SPECIFICATION Spec
CONSTANTS
    Branches = {"master", "next"}
    HeadBranch = "master"
    CommitTexts <- TagOnly
    MaxCommits = 3
INVARIANT AnnotationNamesCommit
CHECK_DEADLOCK FALSE
