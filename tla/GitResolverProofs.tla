-------------------------- MODULE GitResolverProofs --------------------------
(***************************************************************************)
(* Proofs about GitResolver, for any branches and any number of commits.   *)
(***************************************************************************)
EXTENDS GitResolver, SequenceTheorems, TLAPS

\* Every leaf may take a minute, so that a slow machine changes nothing.
USE SMTT(60), ZenonT(60)

\* What Resolve knows between its steps: nothing is checked out at first, and
\* the clone has the commit that its HEAD is at.
GitTypes ==
    /\ TypeOK
    /\ pc \in {"validate", "clone", "checkout"} => content = ZeroHash
    /\ pc = "checkout" => clone.head \in clone.objects

\* If the commit parameter, when given, spells a hash: the commit to check
\* out does too, and after the checkout the worktree is at that commit.
CommitInv ==
    /\ pc \in {"checkout", "read", "resolved"} => NewHash(commit) \in Hashes
    /\ pc \in {"read", "resolved"} => NewHash(commit) = content

GitInv == GitTypes /\ CommitInv

\* What NewHash makes of the texts that spell a hash.
LEMMA NewHashOfHash ==
    ASSUME NEW hash \in Hashes
    PROVE  NewHash(hash) = hash
BY DEF NewHash

LEMMA NewHashOfText ==
    ASSUME NotAHash \notin CommitTexts, NEW text \in CommitTexts, text # NoText
    PROVE  NewHash(text) \in Hashes
<1>1. MaxCommits \in Nat /\ CommitTexts \subseteq Texts
  BY ZenonT(60), GitAssumption
<1>2. text \in Hashes \/ \E hash \in Hashes : text = Respelled(hash)
  BY ZenonT(60), <1>1 DEF Texts
<1>3. ASSUME NEW hash \in Hashes, text = Respelled(hash)
      PROVE  -text \in Hashes
  <2>1. hash \in Int /\ text = -hash
    BY <1>1, <1>3 DEF Hashes, Respelled
  <2>2. -text = hash
    BY <2>1
  <2>. QED
    BY <2>2
<1>. QED
  BY <1>2, <1>3 DEF NewHash

LEMMA ZeroIsNoHash == ZeroHash \notin Hashes
<1>1. MaxCommits \in Nat
  BY ZenonT(60), GitAssumption
<1>. QED
  BY <1>1 DEF ZeroHash, Hashes

\* Elements and prefixes of a sequence over S.
LEMMA LastInSet ==
    ASSUME NEW S, NEW s \in Seq(S), s # <<>>
    PROVE  Last(s) \in S
BY EmptySeq, ElementOfSeq DEF Last

LEMMA FrontInSeq ==
    ASSUME NEW S, NEW s \in Seq(S)
    PROVE  Front(s) \in Seq(S)
<1>1. Len(s) \in Nat /\ \A i \in 1 .. Len(s) - 1 : s[i] \in S
  BY LenProperties
<1>. QED
  BY <1>1, SubSeqProperties DEF Front

LEMMA LastInRange ==
    ASSUME NEW S, NEW s \in Seq(S), s # <<>>
    PROVE  Last(s) \in Range(s)
<1>1. Len(s) \in Nat \ {0} /\ DOMAIN s = 1 .. Len(s)
  BY EmptySeq, LenProperties
<1>2. Len(s) \in DOMAIN s
  BY <1>1
<1>. QED
  BY ZenonT(60), <1>2 DEF Last, Range

LEMMA RangeInSet ==
    ASSUME NEW S, NEW s \in Seq(S)
    PROVE  Range(s) \subseteq S
BY LenProperties DEF Range

\* The objects of a clone are commits of the repository, and its HEAD is one
\* of them.
LEMMA FetchedTypes ==
    ASSUME branch \in [Branches -> Seq(Hashes)],
           NEW reference \in Branches \cup {""}, CanFetch(reference)
    PROVE  /\ Fetched(reference) \in Clones
           /\ Fetched(reference).head \in Fetched(reference).objects
           /\ Fetched(reference).head \in Hashes
<1>1. ASSUME NEW b \in Branches, branch[b] # <<>>
      PROVE  Last(branch[b]) \in Hashes /\ Last(branch[b]) \in Range(branch[b])
  BY ZenonT(60), <1>1, LastInSet, LastInRange
<1>2. ASSUME NEW b \in Branches
      PROVE  Range(branch[b]) \subseteq Hashes
  BY ZenonT(60), RangeInSet
<1>3. CASE reference = ""
  <2>1. /\ Last(branch[HeadBranch]) \in Hashes
        /\ Last(branch[HeadBranch]) \in Range(branch[HeadBranch])
    BY ZenonT(60), <1>1, <1>3, GitAssumption DEF CanFetch
  <2>2. UNION {Range(branch[b]) : b \in Branches} \subseteq Hashes
    BY ZenonT(60), <1>2
  <2>3. Last(branch[HeadBranch]) \in UNION {Range(branch[b]) : b \in Branches}
    BY ZenonT(60), <2>1, GitAssumption
  <2>. QED
    BY ZenonT(60), <1>3, <2>1, <2>2, <2>3, GitAssumption DEF Fetched, Clones
<1>4. CASE reference # ""
  <2>1. /\ reference \in Branches /\ Last(branch[reference]) \in Hashes
        /\ Last(branch[reference]) \in Range(branch[reference])
    BY ZenonT(60), <1>1, <1>4 DEF CanFetch
  <2>. QED
    BY ZenonT(60), <1>2, <1>4, <2>1 DEF Fetched, Clones
<1>. QED
  BY ZenonT(60), <1>3, <1>4

\* A branch moves to commits that exist.
LEMMA MoveTypes ==
    ASSUME branch \in [Branches -> Seq(Hashes)], tips \subseteq Hashes,
           NEW b \in Branches, NEW commits \in Seq(Hashes), Move(b, commits)
    PROVE  /\ branch' \in [Branches -> Seq(Hashes)]
           /\ tips' \subseteq Hashes
<1>1. commits # <<>> => Last(commits) \in Hashes
  BY LastInSet
<1>. QED
  BY <1>1 DEF Move

\* A new commit is added to a branch.
LEMMA PushTypes ==
    ASSUME branch \in [Branches -> Seq(Hashes)], made \in 0 .. MaxCommits,
           made < MaxCommits, NEW b \in Branches
    PROVE  /\ made + 1 \in Hashes
           /\ made + 1 \in 0 .. MaxCommits
           /\ Append(branch[b], made + 1) \in Seq(Hashes)
<1>. MaxCommits \in Nat
  BY ZenonT(60), GitAssumption
<1>1. made + 1 \in Hashes /\ made + 1 \in 0 .. MaxCommits
  BY DEF Hashes
<1>2. branch[b] \in Seq(Hashes)
  OBVIOUS
<1>3. Append(branch[b], made + 1) \in Seq(Hashes)
  BY <1>1, <1>2, AppendProperties
<1>. QED
  BY <1>1, <1>3

\* Every step keeps the types, whatever the commit parameter is.
LEMMA GitTypesStep == GitTypes /\ [Next]_vars => GitTypes'
<1>. SUFFICES ASSUME GitTypes, [Next]_vars
              PROVE  GitTypes'
  OBVIOUS
<1>. HeadBranch \in Branches
  BY ZenonT(60), GitAssumption
<1>. USE DEF GitTypes, TypeOK
<1>1. ASSUME NEW b \in Branches, Push(b)
      PROVE  GitTypes'
  <2>1. /\ made + 1 \in Hashes
        /\ made' \in 0 .. MaxCommits
        /\ Append(branch[b], made + 1) \in Seq(Hashes)
    BY <1>1, PushTypes DEF Push
  <2>2. files' \subseteq Hashes
    BY <1>1, <2>1 DEF Push
  <2>. QED
    BY ZenonT(60), <1>1, <2>1, <2>2, MoveTypes DEF Push, Move
<1>2. ASSUME NEW b \in Branches, Rewind(b)
      PROVE  GitTypes'
  <2>1. Front(branch[b]) \in Seq(Hashes)
    BY FrontInSeq
  <2>. QED
    BY ZenonT(60), <1>2, <2>1, MoveTypes DEF Rewind, Move
<1>3. ASSUME NEW b \in Branches, NEW from \in Branches, CreateBranch(b, from)
      PROVE  GitTypes'
  BY ZenonT(60), <1>3, MoveTypes DEF CreateBranch, Move
<1>4. CASE ValidateParams
  <2>1. AskedBranch \in Branches
    BY ZenonT(60) DEF AskedBranch, Params
  <2>2. Tip(AskedBranch) \subseteq Hashes
    BY <2>1, LastInSet DEF Tip
  <2>. QED
    BY <1>4, <2>2 DEF ValidateParams, repositoryVars
<1>5. CASE Clone
  <2>1. params.branch \in Branches \cup {""} /\ params.commit \in CommitTexts
    BY ZenonT(60) DEF Params
  <2>2. /\ clone' \in Clones /\ clone'.head \in clone'.objects
        /\ clone'.head \in Hashes
    BY ZenonT(60), <1>5, <2>1, FetchedTypes DEF Clone
  <2>3. commit' \in Hashes \cup CommitTexts \cup {NoText}
    BY ZenonT(60), <1>5, <2>1, <2>2 DEF Clone
  <2>. QED
    BY <1>5, <2>2, <2>3 DEF Clone, repositoryVars
<1>6. CASE Checkout
  <2>1. content' \in clone.objects
    BY <1>6 DEF Checkout, CheckoutTarget
  <2>. QED
    BY <1>6, <2>1 DEF Checkout, repositoryVars
<1>7. CASE ReadFile
  BY <1>7 DEF ReadFile, repositoryVars
<1>8. CASE ValidateParamsFails \/ CloneFails \/ CheckoutFails \/ ReadFileFails
  BY <1>8 DEF ValidateParamsFails, CloneFails, CheckoutFails, ReadFileFails,
              Fail, repositoryVars
<1>9. CASE UNCHANGED vars
  BY <1>9 DEF vars, repositoryVars
<1>. QED
  BY <1>1, <1>2, <1>3, <1>4, <1>5, <1>6, <1>7, <1>8, <1>9 DEF Next, Resolve

\* The commit still spells a hash if the commit parameter does.
LEMMA CommitStep ==
    ASSUME NotAHash \notin CommitTexts
    PROVE  GitTypes /\ CommitInv /\ [Next]_vars => CommitInv'
<1>. SUFFICES ASSUME GitTypes, CommitInv, [Next]_vars
              PROVE  CommitInv'
  OBVIOUS
<1>1. CASE Clone
  <2>1. params.branch \in Branches \cup {""} /\ params.commit \in CommitTexts
    BY ZenonT(60) DEF GitTypes, TypeOK, Params
  <2>2. params.commit # NoText => NewHash(params.commit) \in Hashes
    BY ZenonT(60), <2>1, NewHashOfText
  <2>3. clone'.head \in Hashes
    BY ZenonT(60), <1>1, <2>1, FetchedTypes DEF Clone, GitTypes, TypeOK
  <2>4. NewHash(commit') \in Hashes
    BY ZenonT(60), <1>1, <2>2, <2>3, NewHashOfHash DEF Clone
  <2>. QED
    BY <1>1, <2>4 DEF Clone, CommitInv
<1>2. CASE Checkout
  <2>1. NewHash(commit) \in Hashes /\ NewHash(commit) # ZeroHash
    BY ZenonT(60), <1>2, ZeroIsNoHash DEF Checkout, CommitInv
  <2>2. content' = NewHash(commit)
    BY ZenonT(60), <1>2, <2>1 DEF Checkout, CheckoutTarget
  <2>. QED
    BY <1>2, <2>1, <2>2 DEF Checkout, CommitInv
<1>3. CASE ValidateParams \/ ReadFile
  BY <1>3 DEF ValidateParams, ReadFile, CommitInv
<1>4. CASE ValidateParamsFails \/ CloneFails \/ CheckoutFails \/ ReadFileFails
  BY <1>4 DEF ValidateParamsFails, CloneFails, CheckoutFails, ReadFileFails,
              Fail, CommitInv
<1>5. ASSUME NEW b \in Branches, NEW commits, Move(b, commits)
      PROVE  CommitInv'
  BY ZenonT(60), <1>5 DEF Move, CommitInv
<1>6. CASE UNCHANGED vars
  BY ZenonT(60), <1>6 DEF vars, CommitInv
<1>. QED
  BY ZenonT(60), <1>1, <1>2, <1>3, <1>4, <1>5, <1>6
  DEF Next, Resolve, Push, Rewind, CreateBranch

-----------------------------------------------------------------------------
LEMMA GitTypesHold == Spec => []GitTypes
<1>1. Init => GitTypes
  <2>1. MaxCommits \in Nat
    BY ZenonT(60), GitAssumption
  <2>2. NoClone \in Clones
    BY DEF NoClone, Clones
  <2>3. \A b \in Branches : <<>> \in Seq(Hashes)
    BY EmptySeq
  <2>. QED
    BY <2>1, <2>2, <2>3 DEF Init, GitTypes, TypeOK
<1>. QED
  BY <1>1, GitTypesStep, PTL DEF Spec

LEMMA GitInvHolds ==
    ASSUME NotAHash \notin CommitTexts
    PROVE  Spec => []GitInv
<1>1. Init => CommitInv
  BY DEF Init, CommitInv
<1>2. GitTypes /\ CommitInv /\ [Next]_vars => CommitInv'
  BY CommitStep
<1>. QED
  BY <1>1, <1>2, GitTypesHold, PTL DEF Spec, GitInv

\* Every variable keeps its type, whatever the commit parameter is; in
\* particular the worktree is never at a commit that the clone does not have.
THEOREM GitTyped == Spec => []TypeOK
<1>1. GitTypes => TypeOK
  BY DEF GitTypes
<1>. QED
  BY <1>1, GitTypesHold, PTL

\* If the commit parameter, when given, spells a hash, then the "commit"
\* annotation of every resolved file names the commit the file was read
\* from, for any repository and any concurrent pushes.
THEOREM AnnotationCorrect ==
    ASSUME NotAHash \notin CommitTexts
    PROVE  Spec => []AnnotationNamesCommit
<1>1. GitInv => AnnotationNamesCommit
  BY DEF GitInv, CommitInv, AnnotationNamesCommit, ResolvedGitResource
<1>. QED
  BY <1>1, GitInvHolds, PTL

-----------------------------------------------------------------------------
(***************************************************************************)
(* FileOfAskedCommit.  Until the clone, the tips seen during the call      *)
(* include the current one; the clone fixes which commit is checked out.   *)
(***************************************************************************)
AskedInv ==
    /\ pc = "clone" => Tip(AskedBranch) \subseteq tips
    /\ pc \in {"checkout", "read", "resolved"} =>
         IF params.commit = NoText
         THEN commit \in tips /\ commit \in Hashes
         ELSE commit = params.commit

\* A move of a branch only adds to the tips, its new tip if it was asked for.
LEMMA MoveKeepsAsked ==
    ASSUME GitInv, AskedInv, NEW b \in Branches, NEW commits \in Seq(Hashes),
           Move(b, commits)
    PROVE  AskedInv'
<1>1. AskedBranch' = AskedBranch /\ tips \subseteq tips'
  BY ZenonT(60) DEF Move, AskedBranch
<1>2. AskedBranch \in Branches
  BY ZenonT(60), GitAssumption
  DEF AskedBranch, GitInv, GitTypes, TypeOK, Params
<1>3. Tip(AskedBranch)' \subseteq Tip(AskedBranch) \cup tips'
  <2>1. CASE b = AskedBranch
    BY <1>1, <2>1 DEF Move, Tip, GitInv, GitTypes, TypeOK
  <2>2. CASE b # AskedBranch
    BY <1>1, <1>2, <2>2 DEF Move, Tip, GitInv, GitTypes, TypeOK
  <2>. QED
    BY <2>1, <2>2
<1>. QED
  BY <1>1, <1>3 DEF Move, AskedInv

LEMMA AskedInvStep == GitInv /\ AskedInv /\ [Next]_vars => AskedInv'
<1>. SUFFICES ASSUME GitInv, AskedInv, [Next]_vars
              PROVE  AskedInv'
  OBVIOUS
<1>1. ASSUME NEW b \in Branches, Push(b)
      PROVE  AskedInv'
  <2>1. Append(branch[b], made + 1) \in Seq(Hashes)
    BY <1>1, PushTypes DEF Push, GitInv, GitTypes, TypeOK
  <2>. QED
    BY ZenonT(60), <1>1, <2>1, MoveKeepsAsked DEF Push
<1>2. ASSUME NEW b \in Branches, Rewind(b)
      PROVE  AskedInv'
  <2>1. Front(branch[b]) \in Seq(Hashes)
    BY FrontInSeq DEF GitInv, GitTypes, TypeOK
  <2>. QED
    BY <1>2, <2>1, MoveKeepsAsked DEF Rewind
<1>3. ASSUME NEW b \in Branches, NEW from \in Branches, CreateBranch(b, from)
      PROVE  AskedInv'
  <2>1. branch[from] \in Seq(Hashes)
    BY DEF GitInv, GitTypes, TypeOK
  <2>. QED
    BY <1>3, <2>1, MoveKeepsAsked DEF CreateBranch
<1>4. CASE ValidateParams
  BY ZenonT(60), <1>4 DEF ValidateParams, repositoryVars, AskedInv,
     AskedBranch, Tip
<1>5. CASE Clone
  <2>1. /\ clone' = Fetched(params.branch)
        /\ commit' = IF params.commit = NoText THEN clone'.head
                                               ELSE params.commit
        /\ branch[AskedBranch] # <<>>
        /\ Tip(AskedBranch) \subseteq tips
        /\ pc' = "checkout" /\ UNCHANGED <<params, tips>>
    BY ZenonT(60), <1>5 DEF Clone, CanFetch, AskedBranch, AskedInv
  <2>2. clone'.head = Last(branch[AskedBranch])
    BY ZenonT(60), <2>1 DEF Fetched, AskedBranch
  <2>3. clone'.head \in tips
    BY <2>1, <2>2 DEF Tip
  <2>4. tips \subseteq Hashes
    BY DEF GitInv, GitTypes, TypeOK
  <2>. QED
    BY <2>1, <2>3, <2>4 DEF AskedInv
<1>6. CASE Checkout \/ ReadFile
  BY <1>6 DEF Checkout, ReadFile, repositoryVars, AskedInv
<1>7. CASE ValidateParamsFails \/ CloneFails \/ CheckoutFails \/ ReadFileFails
  BY <1>7 DEF ValidateParamsFails, CloneFails, CheckoutFails, ReadFileFails,
              Fail, AskedInv
<1>8. CASE UNCHANGED vars
  BY ZenonT(60), <1>8 DEF vars, repositoryVars, AskedInv, AskedBranch, Tip
<1>. QED
  BY <1>1, <1>2, <1>3, <1>4, <1>5, <1>6, <1>7, <1>8 DEF Next, Resolve

\* If the commit parameter, when given, spells a hash, then a resolved file is
\* that of the commit the request names or else of a commit that its branch
\* was at during the call.
THEOREM AskedFileReturned ==
    ASSUME NotAHash \notin CommitTexts
    PROVE  Spec => []FileOfAskedCommit
<1>1. Init => AskedInv
  BY DEF Init, AskedInv
<1>2. GitInv /\ AskedInv /\ [Next]_vars => AskedInv'
  BY AskedInvStep
<1>3. GitInv /\ AskedInv => FileOfAskedCommit
  BY ZenonT(60), NewHashOfHash
  DEF GitInv, CommitInv, AskedInv, FileOfAskedCommit, ResolvedGitResource
<1>. QED
  BY <1>1, <1>2, <1>3, GitInvHolds, PTL DEF Spec
=============================================================================
