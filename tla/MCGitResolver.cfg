\* Requests for a branch, a commit hash in any spelling or neither.
SPECIFICATION Spec
CONSTANTS
    Branches = {"master", "next"}
    HeadBranch = "master"
    CommitTexts <- HashOrNone
    MaxCommits = 3
INVARIANTS
    TypeOK
    AnnotationNamesCommit
    FileOfAskedCommit
CHECK_DEADLOCK FALSE
