----------------------------- MODULE GitResolver -----------------------------
(***************************************************************************)
(* The git resolver: ValidateParams and Resolve for one request, against a *)
(* repository whose branches move meanwhile.                               *)
(*                                                                         *)
(* Commits are numbered in the order they are made, and the number of a    *)
(* commit stands for its hash.  A file is identified with the commit it is *)
(* read from, so what Resolve returns is the commit whose file it read and *)
(* the text of the "commit" annotation.                                    *)
(***************************************************************************)
EXTENDS Integers, Sequences, SequencesExt

CONSTANTS
    Branches,     \* names of branches
    HeadBranch,   \* the branch the HEAD of the remote repository points to
    CommitTexts,  \* values of the commit parameter
    MaxCommits    \* bound on commits

ZeroHash == 0
Hashes == 1 .. MaxCommits

\* Texts of the commit parameter: none, the hash of a commit as git prints
\* it, the same hash in upper case or with more text behind it, and a text
\* that does not begin with hexadecimal digits, as tags do.  A hash cut short
\* decodes to one that no commit has, like that of a commit not yet made.
NoText == 0
Respelled(hash) == -hash
NotAHash == MaxCommits + 1
Texts ==
    {NoText, NotAHash} \cup Hashes \cup {Respelled(hash) : hash \in Hashes}

\* plumbing.Master
Master == "master"

ASSUME GitAssumption ==
    /\ MaxCommits \in Nat
    /\ HeadBranch \in Branches
    /\ "" \notin Branches
    /\ CommitTexts \subseteq Texts

VARIABLES
    branch,   \* branch[b]: the commits of branch b, <<>> if there is no b
    files,    \* commits that contain a file at the requested path
    made,     \* number of commits made so far
    pc,       \* where the call of the resolver is
    params,   \* the parameters of the request
    clone,    \* the cloned repository
    commit,   \* the variable commit of Resolve
    content,  \* the commit the worktree is at
    tips      \* the commits the asked branch was at since ValidateParams

repositoryVars == <<branch, files, made>>
vars == <<repositoryVars, pc, params, clone, commit, content, tips>>

Params ==
    [url : {"", "url"}, path : {"", "path"},
     commit : CommitTexts, branch : Branches \cup {""}]

\* A clone has the objects of the branches that were fetched and one local
\* branch, its HEAD.
Clones ==
    [objects : SUBSET Hashes, name : Branches \cup {""},
     head : Hashes \cup {ZeroHash}]

NoClone == [objects |-> {}, name |-> "", head |-> ZeroHash]

TypeOK ==
    /\ branch \in [Branches -> Seq(Hashes)]
    /\ files \subseteq Hashes
    /\ made \in 0 .. MaxCommits
    /\ pc \in {"validate", "clone", "checkout", "read", "resolved", "failed"}
    /\ params \in Params
    /\ clone \in Clones
    /\ commit \in Hashes \cup CommitTexts \cup {NoText}
    /\ content \in clone.objects \cup {ZeroHash}
    /\ tips \subseteq Hashes

Tip(b) == IF branch[b] = <<>> THEN {} ELSE {Last(branch[b])}

\* The branch that the request asks for when it names no commit.
AskedBranch == IF params.branch = "" THEN HeadBranch ELSE params.branch

Init ==
    /\ branch = [b \in Branches |-> <<>>]
    /\ files = {}
    /\ made = 0
    /\ pc = "validate"
    /\ params \in Params
    /\ clone = NoClone
    /\ commit = NoText
    /\ content = ZeroHash
    /\ tips = {}

-----------------------------------------------------------------------------
(***************************************************************************)
(* Other people at the repository.                                         *)
(***************************************************************************)
Move(b, commits) ==
    /\ branch' = [branch EXCEPT ![b] = commits]
    /\ tips' = tips \cup (IF b = AskedBranch /\ commits # <<>>
                          THEN {Last(commits)} ELSE {})
    /\ UNCHANGED <<pc, params, clone, commit, content>>

\* A new commit, with or without the file, on top of the branch.
Push(b) ==
    /\ made < MaxCommits
    /\ made' = made + 1
    /\ files' \in {files, files \cup {made + 1}}
    /\ Move(b, Append(branch[b], made + 1))

\* A new branch.
CreateBranch(b, from) ==
    /\ branch[b] = <<>>
    /\ branch[from] # <<>>
    /\ Move(b, branch[from])
    /\ UNCHANGED <<files, made>>

\* A forced push that drops the last commit, or the whole branch with it.
Rewind(b) ==
    /\ branch[b] # <<>>
    /\ Move(b, Front(branch[b]))
    /\ UNCHANGED <<files, made>>

-----------------------------------------------------------------------------
(***************************************************************************)
(* go-git, as the resolver uses it.                                        *)
(***************************************************************************)

\* The hash of a text.  Decoding takes upper case as well, and stops at what
\* is no digit or too much; the error is ignored.
NewHash(text) ==
    IF text \in Hashes THEN text
    ELSE IF -text \in Hashes THEN -text
    ELSE ZeroHash

\* A clone of one branch, or of all of them with the HEAD of the remote.
Fetched(reference) ==
    IF reference = ""
    THEN [objects |-> UNION {Range(branch[b]) : b \in Branches},
          name |-> HeadBranch, head |-> Last(branch[HeadBranch])]
    ELSE [objects |-> Range(branch[reference]),
          name |-> reference, head |-> Last(branch[reference])]

CanFetch(reference) ==
    branch[IF reference = "" THEN HeadBranch ELSE reference] # <<>>

\* The commit that Checkout goes to, as a set with one element or none: the
\* hash, if the clone has it, or the local branch master if it is zero.
CheckoutTarget(hash) ==
    IF hash # ZeroHash
    THEN clone.objects \cap {hash}
    ELSE IF clone.name = Master THEN {clone.head} ELSE {}

-----------------------------------------------------------------------------
(***************************************************************************)
(* The resolver.                                                           *)
(***************************************************************************)
Fail(step) ==
    /\ pc = step
    /\ pc' = "failed"
    /\ UNCHANGED <<repositoryVars, params, clone, commit, content, tips>>

\* ValidateParams
Valid(p) ==
    /\ p.url # ""
    /\ p.path # ""
    /\ p.commit = NoText \/ p.branch = ""

ValidateParams ==
    /\ pc = "validate"
    /\ Valid(params)
    /\ pc' = "clone"
    /\ tips' = Tip(AskedBranch)
    /\ UNCHANGED <<repositoryVars, params, clone, commit, content>>

ValidateParamsFails == Fail("validate") /\ ~Valid(params)

\* Mutant: the reference to clone is not set.
CloneHead ==
    /\ pc = "clone"
    /\ CanFetch("")
    /\ clone' = Fetched("")
    /\ commit' = IF params.commit = NoText THEN clone'.head ELSE params.commit
    /\ pc' = "checkout"
    /\ UNCHANGED <<repositoryVars, params, content, tips>>

\* Clone, and HEAD for a request without a commit.
Clone ==
    /\ pc = "clone"
    /\ CanFetch(params.branch)
    /\ clone' = Fetched(params.branch)
    /\ commit' = IF params.commit = NoText THEN clone'.head ELSE params.commit
    /\ pc' = "checkout"
    /\ UNCHANGED <<repositoryVars, params, content, tips>>

\* The branch does not exist, or the repository cannot be reached.
CloneFails == Fail("clone")

\* Mutant: the checkout is left out; the clone's worktree is at its HEAD.
CheckoutHead ==
    /\ pc = "checkout"
    /\ content' = clone.head
    /\ pc' = "read"
    /\ UNCHANGED <<repositoryVars, params, clone, commit, tips>>

\* Mutant: the hash is not looked up among the objects of the clone.
CheckoutUnknown ==
    /\ pc = "checkout"
    /\ content' = NewHash(commit)
    /\ pc' = "read"
    /\ UNCHANGED <<repositoryVars, params, clone, commit, tips>>

Checkout ==
    /\ pc = "checkout"
    /\ \E target \in CheckoutTarget(NewHash(commit)) : content' = target
    /\ pc' = "read"
    /\ UNCHANGED <<repositoryVars, params, clone, commit, tips>>

CheckoutFails ==
    /\ Fail("checkout")
    /\ CheckoutTarget(NewHash(commit)) = {}

\* The data and the "commit" annotation that Resolve returns.
ResolvedGitResource == [data |-> content, commit |-> commit]

\* Open the file, read it, and return it with the commit annotation.
ReadFile ==
    /\ pc = "read"
    /\ content \in files
    /\ pc' = "resolved"
    /\ UNCHANGED <<repositoryVars, params, clone, commit, content, tips>>

ReadFileFails == Fail("read") /\ content \notin files

Resolve ==
    \/ ValidateParams \/ ValidateParamsFails
    \/ Clone \/ CloneFails
    \/ Checkout \/ CheckoutFails
    \/ ReadFile \/ ReadFileFails

Next ==
    \/ \E b \in Branches : Push(b) \/ Rewind(b)
    \/ \E b, from \in Branches : CreateBranch(b, from)
    \/ Resolve

Spec == Init /\ [][Next]_vars

-----------------------------------------------------------------------------
(***************************************************************************)
(* Properties.                                                             *)
(***************************************************************************)

\* The "commit" annotation of a resolved file names the commit the file was
\* read from, no matter how the branches moved during the fetch: it is the
\* hash of that commit, up to the spelling the request used.
AnnotationNamesCommit ==
    pc = "resolved" =>
        NewHash(ResolvedGitResource.commit) = ResolvedGitResource.data

\* A request gets the file of the commit it names, or else the file of a
\* commit that its branch, or the remote's HEAD, was at during the call:
\* single-branch clones and the HEAD of the clone select the right one.
FileOfAskedCommit ==
    pc = "resolved" =>
        IF params.commit = NoText
        THEN ResolvedGitResource.data \in tips
        ELSE ResolvedGitResource.data = NewHash(params.commit)
=============================================================================
