---------------------------- MODULE ResolverProofs ----------------------------
(***************************************************************************)
(* Proofs about ResolveCall, for any number of calls and threads and any   *)
(* configuration, and about BundleResolver, for images of any length and a *)
(* tag that moves any number of times.                                     *)
(***************************************************************************)
EXTENDS ResolveCall, BundleResolver, TLAPS

\* Every leaf may take a minute, so that a slow machine changes nothing.
USE SMTT(60), ZenonT(60)

\* Where a caller is and what its call has come to go together: the outcome
\* is open exactly while the select waits, and a call that ended otherwise
\* than by a timeout has received the one message of its goroutine.
CallerInv ==
    \A c \in Calls :
        /\ caller[c] = "notCalled" <=> outcome[c] = NotCalled
        /\ caller[c] = "select" <=> outcome[c] = Pending
        /\ caller[c] = "notCalled" <=> goroutine[c] = "none"

CallInv == TypeOK /\ CallerInv /\ BlockedOnlyAfterTimeout

-----------------------------------------------------------------------------
\* The kinds of outcomes differ.
LEMMA OutcomeKinds ==
    /\ NotCalled.kind = "notCalled"
    /\ Pending.kind = "pending"
    /\ \A k, v : Outcome(k, v).kind = k
    /\ \A v : \A k \in {"resource", "error", "timeout"} :
         Outcome(k, v) # NotCalled /\ Outcome(k, v) # Pending
BY ZenonT(60) DEF NotCalled, Pending, Outcome

\* A timer expires between now and the end of the clock.
LEMMA TimerInRange ==
    ASSUME now \in 0 .. MaxTime, NEW conf \in Configs
    PROVE  WithTimeout(GetResolutionTimeout(conf)) \in now .. MaxTime
<1>1. GetResolutionTimeout(conf) \in Nat
  BY ZenonT(60), CallAssumption DEF GetResolutionTimeout
<1>. QED
  BY <1>1, CallAssumption DEF WithTimeout

\* Whatever a call fails with is reported as ResolutionFailed: the errors a
\* goroutine sends are wrapped, and an expired context has no reason.
LEMMA ReasonReported ==
    /\ \A err \in Errors : ReasonError(err) = ReasonResolutionFailed
    /\ ReasonError(Error("DeadlineExceeded", "")) = ReasonResolutionFailed
BY ZenonT(60) DEF Errors, ReasonError, Error

\* Every step keeps the invariant.
LEMMA CallInvStep == CallInv /\ [Next]_vars => CallInv'
<1>. SUFFICES ASSUME CallInv, [Next]_vars
              PROVE  CallInv'
  OBVIOUS
<1>. USE DEF CallInv, TypeOK, CallerInv, BlockedOnlyAfterTimeout, Outcomes
<1>1. ASSUME NEW conf \in Configs, OnConfigChanged(conf)
      PROVE  CallInv'
  BY <1>1, CallAssumption DEF OnConfigChanged
<1>2. ASSUME NEW c \in Calls, Resolve(c)
      PROVE  CallInv'
  <2>1. WithTimeout(GetResolutionTimeout(config)) \in 0 .. MaxTime
    BY TimerInRange
  <2>. QED
    BY <1>2, <2>1, OutcomeKinds DEF Resolve, ToContext
<1>3. ASSUME NEW c \in Calls, Goroutine(c)
      PROVE  CallInv'
  <2>1. CASE ValidateParamsReturns(c)
    BY <2>1 DEF ValidateParamsReturns
  <2>2. CASE ValidateParamsFails(c)
    BY ZenonT(60), <2>2 DEF ValidateParamsFails, Send, Errors, Error
  <2>3. ASSUME NEW resource \in Resources, ResolveReturns(c, resource)
        PROVE  CallInv'
    BY <2>3 DEF ResolveReturns, Send
  <2>4. ASSUME NEW reason \in OwnReasons \cup {""}, ResolveFails(c, reason)
        PROVE  CallInv'
    BY ZenonT(60), <2>4 DEF ResolveFails, Send, Errors, Error
  <2>. QED
    BY ZenonT(60), <1>3, <2>1, <2>2, <2>3, <2>4 DEF Goroutine
<1>4. ASSUME NEW c \in Calls, Select(c)
      PROVE  CallInv'
  <2>1. CASE ReceiveError(c)
    <3>1. Outcome("error", ReasonError(message[c])) \in Outcomes
      BY ZenonT(60), <2>1, ReasonReported DEF ReceiveError, Outcome, Reasons
    <3>. QED
      BY <2>1, <3>1, OutcomeKinds DEF ReceiveError, Return
  <2>2. CASE ReceiveResource(c)
    <3>1. Outcome("resource", message[c]) \in Outcomes
      BY <2>2 DEF ReceiveResource, Outcome
    <3>. QED
      BY <2>2, <3>1, OutcomeKinds DEF ReceiveResource, Return
  <2>3. CASE ContextDone(c)
    <3>. DEFINE timeout ==
           Outcome("timeout", ReasonError(Error("DeadlineExceeded", "")))
    <3>1. timeout \in Outcomes
      BY ZenonT(60), ReasonReported DEF Outcome, Reasons
    <3>2. timeout.kind = "timeout" /\ timeout # NotCalled /\ timeout # Pending
      BY ZenonT(60), OutcomeKinds
    <3>3. Return(c, timeout) /\ UNCHANGED goroutine /\ caller[c] = "select"
      BY ZenonT(60), <2>3 DEF ContextDone
    <3>. HIDE DEF timeout
    <3>. QED
      BY <3>1, <3>2, <3>3 DEF Return
  <2>. QED
    BY <1>4, <2>1, <2>2, <2>3 DEF Select
<1>5. CASE Tick
  BY <1>5, CallAssumption DEF Tick
<1>6. CASE UNCHANGED vars
  BY <1>6 DEF vars
<1>. QED
  BY <1>1, <1>2, <1>3, <1>4, <1>5, <1>6 DEF Next

LEMMA CallInvHolds == Spec => []CallInv
<1>1. Init => CallInv
  BY CallAssumption, OutcomeKinds
  DEF Init, CallInv, TypeOK, CallerInv, BlockedOnlyAfterTimeout, Outcomes
<1>. QED
  BY <1>1, CallInvStep, PTL DEF Spec

-----------------------------------------------------------------------------
\* A goroutine of resolve stays blocked on its unbuffered channel only if
\* its call timed out, for any number of calls and threads.
THEOREM GoroutinesEnd == Spec => []BlockedOnlyAfterTimeout
BY CallInvHolds, PTL DEF CallInv

\* Every variable of a call keeps its type, whatever timeouts the
\* configuration sets while calls run.
THEOREM CallTyped == Spec => []TypeOK
BY CallInvHolds, PTL DEF CallInv

\* Every step of resolve is a step of the promised call, or none.
LEMMA PromiseStep == CallInv /\ [Next]_vars => [Promise!Next]_(Promise!vars)
<1>. SUFFICES ASSUME CallInv, [Next]_vars
              PROVE  [Promise!Next]_(Promise!vars)
  OBVIOUS
<1>. USE DEF Promise!vars, CallInv, TypeOK, CallerInv
<1>1. ASSUME NEW conf \in Configs, OnConfigChanged(conf)
      PROVE  UNCHANGED Promise!vars
  BY <1>1 DEF OnConfigChanged
<1>2. ASSUME NEW c \in Calls, Resolve(c)
      PROVE  Promise!Call(c)
  <2>1. WithTimeout(GetResolutionTimeout(config)) \in now .. MaxTime
    BY TimerInRange
  <2>2. outcome[c] = Promise!NotCalled
    BY ZenonT(60), <1>2 DEF Resolve, NotCalled, Outcome, Promise!NotCalled,
       Promise!Outcome
  <2>3. Pending = Promise!Pending
    BY ZenonT(60) DEF Pending, Outcome, Promise!Pending, Promise!Outcome
  <2>. QED
    BY ZenonT(60), <1>2, <2>1, <2>2, <2>3 DEF Resolve, ToContext, Promise!Call
<1>3. ASSUME NEW c \in Calls, Goroutine(c)
      PROVE  UNCHANGED Promise!vars
  BY ZenonT(60), <1>3 DEF Goroutine, ValidateParamsReturns,
     ValidateParamsFails,
              ResolveReturns, ResolveFails, Send
<1>4. ASSUME NEW c \in Calls, NEW kind, NEW value, caller[c] = "select",
             Return(c, Outcome(kind, value))
      PROVE  Promise!End(c, Promise!Outcome(kind, value))
  <2>1. outcome[c] = Promise!Pending
    BY ZenonT(60), <1>4 DEF Pending, Outcome, Promise!Pending, Promise!Outcome
  <2>. QED
    BY <1>4, <2>1 DEF Return, Outcome, Promise!End, Promise!Outcome
<1>5. ASSUME NEW c \in Calls, Select(c)
      PROVE  Promise!Next
  <2>1. ReasonResolutionFailed \in Reasons
    BY DEF Reasons
  <2>2. CASE ReceiveError(c)
    <3>1. Promise!Fail(c, ReasonResolutionFailed)
      BY ZenonT(60), <1>4, <2>2, ReasonReported DEF ReceiveError, Promise!Fail
    <3>. QED
      BY <2>1, <3>1 DEF Promise!Next
  <2>3. CASE ReceiveResource(c)
    <3>1. message[c] \in Resources /\ Promise!Return(c, message[c])
      BY <1>4, <2>3 DEF ReceiveResource, Promise!Return
    <3>. QED
      BY <3>1 DEF Promise!Next
  <2>4. CASE ContextDone(c)
    <3>1. Promise!TimeOut(c, ReasonResolutionFailed)
      BY ZenonT(60), <1>4, <2>4, ReasonReported DEF ContextDone,
         Promise!TimeOut
    <3>. QED
      BY <2>1, <3>1 DEF Promise!Next
  <2>. QED
    BY <1>5, <2>2, <2>3, <2>4 DEF Select
<1>6. CASE Tick
  BY <1>6 DEF Tick, Promise!Tick, Promise!Next
<1>7. CASE UNCHANGED vars
  BY <1>7 DEF vars
<1>. QED
  BY <1>1, <1>2, <1>3, <1>5, <1>6, <1>7 DEF Next, Promise!Next

\* The goroutine, the channels, the timer and the select of resolve
\* implement a call with one outcome that is never an early timeout, as the
\* model of the framework's reconciler assumes.
THEOREM ResolveKeepsPromise == Spec => ImplementsOutcome
<1>1. Init => Promise!Init
  BY ZenonT(60) DEF Init, Promise!Init, NotCalled, Outcome, Promise!NotCalled,
         Promise!Outcome
<1>. QED
  BY <1>1, CallInvHolds, PromiseStep, PTL
  DEF Spec, ImplementsOutcome, Promise!Spec

-----------------------------------------------------------------------------
(***************************************************************************)
(* The bundle resolver.                                                    *)
(***************************************************************************)
LEMMA ImageIndices ==
    ASSUME NEW im \in Images
    PROVE  /\ Len(im) \in Nat
           /\ Len(im) <= MaxLayers
           /\ DOMAIN im = 1 .. Len(im)
           /\ \A i \in 1 .. Len(im) : im[i] \in Layers
<1>1. PICK n \in 0 .. MaxLayers : im \in [1 .. n -> Layers]
  BY DEF Images
<1>2. n \in Nat
  BY <1>1, BundleAssumption
<1>3. im \in Seq(Layers) /\ Len(im) = n
  BY <1>1, <1>2
<1>. QED
  BY <1>1, <1>2, <1>3

LEMMA EmptyImage == <<>> \in Images
<1>1. 0 \in 0 .. MaxLayers
  BY BundleAssumption
<1>2. <<>> \in [1 .. 0 -> Layers]
  OBVIOUS
<1>. QED
  BY <1>1, <1>2 DEF Images

\* OptionsFromParams makes options of valid parameters.
LEMMA OptionsTyped ==
    ASSUME NEW p \in Params, ValidParams(p)
    PROVE  OptionsFromParams(p) \in Options
BY DEF Params, ValidParams, OptionsFromParams, Options

LEMMA BundleTypeInit == BundleInit => BundleTypeOK
<1>1. 1 \in 1 .. MaxLayers + 1 /\ 0 \in 0 .. MaxRetags
  BY BundleAssumption
<1>2. NoEntry.complete \in BOOLEAN
  BY DEF NoEntry
<1>. QED
  BY <1>1, <1>2, EmptyImage, ZenonT(60) DEF BundleInit, BundleTypeOK

LEMMA BundleTypeStep == BundleTypeOK /\ [BundleNext]_bundleVars => BundleTypeOK'
<1>. SUFFICES ASSUME BundleTypeOK, [BundleNext]_bundleVars
              PROVE  BundleTypeOK'
  OBVIOUS
<1>. USE DEF BundleTypeOK
<1>1. CASE Retag
  <2>1. retags' \in 0 .. MaxRetags
    BY <1>1, BundleAssumption DEF Retag
  <2>. QED
    BY <1>1, <2>1 DEF Retag, callVars
<1>2. CASE ValidateParams
  BY <1>2, OptionsTyped DEF ValidateParams, registryVars
<1>3. CASE NewKeychain
  BY <1>3 DEF NewKeychain, registryVars
<1>4. CASE FetchImage
  BY <1>4 DEF FetchImage, registryVars
<1>5. CASE ScanNext
  <2>1. idx' \in 1 .. MaxLayers + 1
    BY <1>5, ImageIndices, BundleAssumption DEF ScanNext
  <2>. QED
    BY <1>5, <2>1 DEF ScanNext, registryVars
<1>6. CASE ScanMatch
  BY <1>6 DEF ScanMatch, registryVars
<1>7. CASE ReadEntry
  BY <1>7 DEF ReadEntry, registryVars
<1>8. ASSUME NEW step, NEW why, Fail(step, why)
      PROVE  BundleTypeOK'
  BY <1>8 DEF Fail, registryVars
<1>9. CASE UNCHANGED bundleVars
  BY <1>9 DEF bundleVars, registryVars, callVars
<1>. QED
  BY ZenonT(60), <1>1, <1>2, <1>3, <1>4, <1>5, <1>6, <1>7, <1>8, <1>9
  DEF BundleNext, GetEntry, OptionsFromParamsFails, FetchImageFails,
      ScanUnannotated, ScanEnd, ReadEntryFails

\* Every variable keeps its type: the index never runs off the layers by more
\* than one, and no credentials are used but those of an existing account.
THEOREM BundleTyped == BundleSpec => []BundleTypeOK
BY BundleTypeInit, BundleTypeStep, PTL DEF BundleSpec

LEMMA IndexTyped == BundleTypeOK => idx \in Nat \ {0}
BY BundleAssumption DEF BundleTypeOK

-----------------------------------------------------------------------------
(***************************************************************************)
(* GetEntry's loop.  The options are those of the request, and no layer    *)
(* before the index matches them.                                          *)
(***************************************************************************)
ScanInv ==
    /\ pc \in {"validate", "keychain", "image"} => idx = 1
    /\ pc \in {"keychain", "image", "scan", "read"} =>
         opts.kind = params.kind /\ opts.name = params.name
    /\ \A i \in 1 .. idx - 1 : ~Asked(i)
    /\ pc \in {"read", "resolved"} =>
         idx <= Len(image) /\ Asked(idx)
    /\ pc = "resolved" =>
         data = [digest |-> image[idx].digest, complete |-> TRUE]
    /\ pc = "failed" /\ failure = "no match" => idx > Len(image)

LEMMA ScanInit == BundleInit => ScanInv
<1>. SUFFICES ASSUME BundleInit PROVE ScanInv
  OBVIOUS
<1>1. pc = "validate" /\ idx = 1
  BY ZenonT(60) DEF BundleInit
<1>2. \A i \in 1 .. idx - 1 : FALSE
  BY <1>1
<1>. QED
  BY <1>1, <1>2 DEF ScanInv

LEMMA ScanStep ==
    BundleTypeOK /\ ScanInv /\ [BundleNext]_bundleVars => ScanInv'
<1>. SUFFICES ASSUME BundleTypeOK, ScanInv, [BundleNext]_bundleVars
              PROVE  ScanInv'
  OBVIOUS
<1>0. idx \in Nat \ {0}
  BY IndexTyped
<1>1. CASE Retag \/ UNCHANGED bundleVars
  BY ZenonT(60), <1>1 DEF Retag, callVars, bundleVars, ScanInv, Asked
<1>2. CASE ValidateParams
  BY <1>2 DEF ValidateParams, OptionsFromParams, ScanInv, Asked
<1>3. CASE NewKeychain
  BY <1>3 DEF NewKeychain, ScanInv, Asked
<1>4. CASE FetchImage
  <2>1. \A i \in 1 .. idx' - 1 : FALSE
    BY <1>4 DEF FetchImage, ScanInv
  <2>. QED
    BY <1>4, <2>1 DEF FetchImage, ScanInv
<1>5. CASE ScanNext
  <2>1. ~Asked(idx)
    BY <1>5 DEF ScanNext, LayerMatches, ScanInv, Asked
  <2>2. \A i \in 1 .. idx - 1 : ~Asked(i)
    BY ZenonT(60) DEF ScanInv
  <2>3. \A i \in 1 .. (idx + 1) - 1 : i \in 1 .. idx - 1 \/ i = idx
    BY <1>0
  <2>4. \A i \in 1 .. (idx + 1) - 1 : ~Asked(i)
    BY <2>1, <2>2, <2>3
  <2>. QED
    BY <1>5, <2>4 DEF ScanNext, ScanInv, Asked
<1>6. CASE ScanMatch
  <2>1. idx <= Len(image) /\ Asked(idx)
    BY <1>6 DEF ScanMatch, LayerMatches, ScanInv, Asked
  <2>. QED
    BY <1>6, <2>1 DEF ScanMatch, ScanInv, Asked
<1>7. CASE ReadEntry
  BY <1>7 DEF ReadEntry, ScanInv, Asked
<1>8. ASSUME NEW step, NEW why, Fail(step, why),
             why = "no match" => idx > Len(image)
      PROVE  ScanInv'
  BY ZenonT(60), <1>8 DEF Fail, ScanInv, Asked
<1>. QED
  BY ZenonT(60), <1>1, <1>2, <1>3, <1>4, <1>5, <1>6, <1>7, <1>8
  DEF BundleNext, GetEntry, OptionsFromParamsFails, FetchImageFails,
      ScanUnannotated, ScanEnd, ReadEntryFails

LEMMA ScanHolds == BundleSpec => []ScanInv
BY BundleTyped, ScanInit, ScanStep, PTL DEF BundleSpec

\* The least element of a set of numbers.
LEMMA LeastIsMin ==
    ASSUME NEW S, \A i \in S : i \in Nat,
           NEW n \in S, \A i \in S : n <= i
    PROVE  Min(S) = n
<1>1. \A x \in S : (\A y \in S : x <= y) => x = n
  OBVIOUS
<1>. QED
  BY <1>1 DEF Min

\* Whatever the image and however often the tag moves, a resolved request
\* has the whole content of the first layer with its kind and name.
THEOREM FirstMatch == BundleSpec => []FirstMatchReturned
<1>1. ASSUME BundleTypeOK, ScanInv, pc = "resolved"
      PROVE  /\ \E i \in DOMAIN image : Asked(i)
             /\ LET first == Min({i \in DOMAIN image : Asked(i)})
                IN  data = [digest |-> image[first].digest, complete |-> TRUE]
  <2>. DEFINE S == {i \in 1 .. Len(image) : Asked(i)}
  <2>1. idx \in Nat \ {0}
    BY <1>1, IndexTyped
  <2>2. Len(image) \in Nat /\ DOMAIN image = 1 .. Len(image)
    BY <1>1, ImageIndices DEF BundleTypeOK
  <2>3. /\ idx <= Len(image) /\ Asked(idx)
        /\ \A i \in 1 .. idx - 1 : ~Asked(i)
        /\ data = [digest |-> image[idx].digest, complete |-> TRUE]
    BY <1>1 DEF ScanInv
  <2>4. /\ idx \in 1 .. Len(image)
        /\ \A i \in 1 .. Len(image) : Asked(i) => idx <= i
    BY <2>1, <2>2, <2>3
  <2>5. idx \in S /\ (\A i \in S : i \in Nat) /\ \A i \in S : idx <= i
    BY <2>2, <2>3, <2>4
  <2>6. Min(S) = idx
    BY ZenonT(60), <2>5, LeastIsMin
  <2>. QED
    BY <2>2, <2>3, <2>4, <2>6, ZenonT(60)
<1>2. BundleTypeOK /\ ScanInv => FirstMatchReturned
  BY <1>1 DEF FirstMatchReturned
<1>. QED
  BY <1>2, BundleTyped, ScanHolds, PTL

\* GetEntry says that no layer matches only when none does.
THEOREM NoMatch == BundleSpec => []NoMatchMeansNone
<1>1. ASSUME BundleTypeOK, ScanInv, pc = "failed", failure = "no match"
      PROVE  \A i \in DOMAIN image : ~Asked(i)
  <2>0. idx \in Nat
    BY ZenonT(60), <1>1, IndexTyped
  <2>1. idx > Len(image) /\ \A i \in 1 .. idx - 1 : ~Asked(i)
    BY ZenonT(60), <1>1 DEF ScanInv
  <2>2. Len(image) \in Nat /\ DOMAIN image = 1 .. Len(image)
    BY ZenonT(60), <1>1, ImageIndices DEF BundleTypeOK
  <2>3. \A i \in 1 .. Len(image) : ~Asked(i)
    BY <2>0, <2>1, <2>2
  <2>. QED
    BY <2>2, <2>3
<1>2. BundleTypeOK /\ ScanInv => NoMatchMeansNone
  BY ZenonT(60), <1>1 DEF NoMatchMeansNone
<1>. QED
  BY <1>2, BundleTyped, ScanHolds, PTL
=============================================================================
