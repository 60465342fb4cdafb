----------------------- MODULE ResolutionSafetyProofs -----------------------
(***************************************************************************)
(* Proofs of the safety properties of ResolutionSystem.                    *)
(***************************************************************************)
EXTENDS ResolutionSystemProofs

\* Every leaf may take a minute, so that a slow machine changes nothing.
USE SMTT(60), ZenonT(60)

(***************************************************************************)
(* What the new version of a request is, by who wrote it.                  *)
(***************************************************************************)
Patched(rr, resource) == WithStatus(rr, [rr.status EXCEPT !.data = resource])

Failed(rr, reason) == WithStatus(rr, MarkFailed(rr.status, reason))

NewByUser(k) ==
    \/ \E type \in Types : ~Present(k) /\ Stored(k)' = NewRequest(type)
    \/ Present(k) /\ Stored(k)' = [Stored(k) EXCEPT !.generation = @ + 1]
    \/ AllowDelete /\ Stored(k)' = Absent

NewByCore(k) ==
    /\ core[k].pc = "update"
    /\ Present(k)
    /\ Stored(k)' = WithStatus(Stored(k), core[k].desired)

NewByResolver(k) ==
    \E r \in Resolvers :
        \/ /\ resolver[r][k].pc = "patch"
           /\ Present(k)
           /\ Stored(k)' = Patched(Stored(k), resolver[r][k].resource)
        \/ /\ resolver[r][k].pc = "update"
           /\ CanUpdateStatus(k, resolver[r][k].version)
           /\ Stored(k)' = Failed(Stored(k), resolver[r][k].reason)

LEMMA PatchedType ==
    ASSUME NEW rr \in Objects, NEW resource \in Resources \cup {NoData}
    PROVE  Patched(rr, resource) \in Objects
  BY DEF Patched, WithStatus, Objects, Statuses

LEMMA FailedType ==
    ASSUME NEW rr \in Objects, NEW reason \in {"", ReasonResolutionFailed}
    PROVE  Failed(rr, reason) \in Objects
  BY ZenonT(60) DEF Failed, WithStatus, MarkFailed, Condition, Conditions,
     Objects, Statuses

\* A step leaves a request alone, or appends one version to its history;
\* no informer has seen the new version yet.
LEMMA NewVersion ==
    ASSUME TInv, [Next]_vars, NEW k \in Requests
    PROVE  \/ /\ Latest(k)' = Latest(k)
              /\ Stored(k)' = Stored(k)
              /\ \A v \in 0 .. Latest(k) : Version(k, v)' = Version(k, v)
           \/ /\ Latest(k)' = Latest(k) + 1
              /\ \A v \in 0 .. Latest(k) : Version(k, v)' = Version(k, v)
              /\ \A v \in 0 .. Latest(k)' : v <= Latest(k) \/ Version(k, v)' = Stored(k)'
              /\ \A c \in ControllerIds : seen'[c][k] < Latest(k)'
              /\ \/ NewByUser(k) /\ resolver' = resolver
                 \/ NewByCore(k) /\ resolver' = resolver
                 \/ NewByResolver(k)
  <1> DEFINE Same(j) == /\ Latest(j)' = Latest(j)
                        /\ Stored(j)' = Stored(j)
                        /\ \A v \in 0 .. Latest(j) : Version(j, v)' = Version(j, v)
             Goal == \/ Same(k)
                     \/ /\ Latest(k)' = Latest(k) + 1
                        /\ \A v \in 0 .. Latest(k) : Version(k, v)' = Version(k, v)
                        /\ \A v \in 0 .. Latest(k)' : v <= Latest(k) \/ Version(k, v)' = Stored(k)'
                        /\ \A c \in ControllerIds : seen'[c][k] < Latest(k)'
                        /\ \/ NewByUser(k) /\ resolver' = resolver
                           \/ NewByCore(k) /\ resolver' = resolver
                           \/ NewByResolver(k)
  <1>t. ClusterTypeOK
    BY DEF TInv, TypeOK
  <1>0. ASSUME NEW j \in Requests, history'[j] = history[j] PROVE Same(j)
    BY <1>0 DEF Latest, Stored, Version
  <1>1. CASE history' = history
    BY <1>0, <1>1
  <1>2. ASSUME NEW j \in Requests, NEW obj \in Versions, Write(j, obj), seen' = seen
        PROVE  \/ Same(k)
               \/ /\ j = k
                  /\ Latest(k)' = Latest(k) + 1
                  /\ \A v \in 0 .. Latest(k) : Version(k, v)' = Version(k, v)
                  /\ \A v \in 0 .. Latest(k)' : v <= Latest(k) \/ Version(k, v)' = Stored(k)'
                  /\ \A c \in ControllerIds : seen'[c][k] < Latest(k)'
                  /\ Stored(k)' = obj
    <2>1. /\ \A i \in Requests \ {j} : history'[i] = history[i]
          /\ history' = history \/ Latest(j)' = Latest(j) + 1
          /\ \A v \in 0 .. Latest(j) : Version(j, v)' = Version(j, v)
          /\ Stored(j)' = obj
      BY <1>t, <1>2, WriteEffect
    <2>2. CASE j # k
      BY <2>1, <2>2, <1>0
    <2>3. CASE history' = history
      BY <2>3, <1>0
    <2>4. CASE j = k /\ Latest(k)' = Latest(k) + 1
      <3>1. \A v \in 0 .. Latest(k)' : v <= Latest(k) \/ Version(k, v)' = Stored(k)'
        BY <2>4, <1>t, StoredType DEF Stored
      <3>2. ASSUME NEW c \in ControllerIds PROVE seen'[c][k] < Latest(k)'
        BY <1>2, <2>4, StoredType DEF TInv, TypeOK, ControllersTypeOK,
           CacheBehindStore
      <3>3. QED
        BY <2>1, <2>4, <3>1, <3>2
    <2>5. QED
      BY <2>1, <2>2, <2>3, <2>4
  <1> HIDE DEF Same
  <1>3. ASSUME seen' = seen, resolver' = resolver, NEW j \in Requests, UserWrites(j)
        PROVE  Goal
    <2>1. CASE \E type \in Types : Create(j, type)
      <3>1. PICK type \in Types : Create(j, type)
        BY <2>1
      <3>2. NewRequest(type) \in Versions
        BY <1>t, EmptyStatusType DEF NewRequest, Versions, Objects,
           ClusterTypeOK
      <3>3. Write(j, NewRequest(type)) /\ ~Present(j)
        BY <3>1 DEF Create
      <3>4. QED
        BY <1>2, <1>3, <3>2, <3>3 DEF NewByUser
    <2>2. CASE EditSpec(j)
      BY <2>2, <1>t, <1>2, <1>3, StoredType DEF EditSpec, Versions, Objects,
         NewByUser
    <2>3. CASE Delete(j)
      BY <2>3, <1>2, <1>3 DEF Delete, Versions, NewByUser
    <2>4. QED
      BY <1>3, <2>1, <2>2, <2>3 DEF UserWrites
  <1>4. ASSUME seen' = seen, resolver' = resolver, NEW j \in Requests, CoreWrites(j)
        PROVE  Goal
    BY <1>4, <1>2, StoredType, WithStatusType DEF CoreWrites,
       CanUpdateStatus, TInv, TypeOK, CoreTypeOK, CoreWorkers, Versions,
       NewByCore
  <1>5. ASSUME seen' = seen, NEW r \in Resolvers, NEW j \in Requests,
               Patches(r, j) \/ Fails(r, j)
        PROVE  Goal
    <2>1. Stored(j) \in Objects /\ Present(j)
      BY <1>5, <1>t, StoredType DEF Patches, Fails, CanUpdateStatus
    <2>2. resolver[r][j] \in ResolverWorkers
      BY DEF TInv, TypeOK, ResolverTypeOK
    <2>3. CASE Patches(r, j)
      BY ZenonT(60), <2>1, <2>2, <2>3, <1>2, <1>5, PatchedType
         DEF ResolverWorkers, Versions, Patches, PatchData, Patched,
         NewByResolver
    <2>4. CASE Fails(r, j)
      BY ZenonT(60), <2>1, <2>2, <2>4, <1>2, <1>5, FailedType
         DEF ResolverWorkers, Versions, Fails, Failed, NewByResolver
    <2>5. QED
      BY <1>5, <2>3, <2>4
  <1>6. QED
    BY <1>1, <1>3, <1>4, <1>5, Writers DEF Same

LEMMA InitIdle ==
    ASSUME Init
    PROVE  /\ \A k \in Requests : Latest(k) = 0
           /\ \A k \in Requests : \A v \in 0 .. Latest(k) : Version(k, v) = Absent
           /\ \A k \in Requests : core[k].pc = "idle"
           /\ \A r \in Resolvers, k \in Requests : resolver[r][k].pc = "idle"
  <1>1. \A k \in Requests : Latest(k) = 0
    BY DEF Init, ClusterInit, Latest
  <1>2. \A k \in Requests : \A v \in 0 .. Latest(k) : Version(k, v) = Absent
    BY <1>1 DEF Version
  <1>3. \A k \in Requests : core[k].pc = "idle"
    BY DEF Init, CoreInit, CoreIdle
  <1>4. \A r \in Resolvers, k \in Requests : resolver[r][k].pc = "idle"
    BY ZenonT(60) DEF Init, ResolverInit, ResolverIdle
  <1>5. QED
    BY <1>1, <1>2, <1>3, <1>4

-----------------------------------------------------------------------------
(***************************************************************************)
(* SucceededHasResult.  A stale copy may be the base of what the core      *)
(* writes, so the invariant is about every version in the history, about   *)
(* the status a core worker holds and about what a resolver is to patch.   *)
(***************************************************************************)
HasResult(s) == s.cond.status = "True" => s.data # NoData

ResultInv ==
    /\ \A k \in Requests : \A v \in 0 .. Latest(k) :
          Version(k, v) # Absent => HasResult(Version(k, v).status)
    /\ \A k \in Requests : core[k].pc # "idle" => HasResult(core[k].desired)
    /\ \A r \in Resolvers, k \in Requests :
          resolver[r][k].pc = "patch" => resolver[r][k].resource \in Resources

LEMMA DesiredHasResult ==
    ASSUME NEW rr \in Objects, HasResult(rr.status)
    PROVE  HasResult(DesiredStatus(rr))
  <1> DEFINE p == PreProcessReconcile(rr)
             s == ReconcileKindStatus(p, now)
  <1>1. p \in Objects /\ HasResult(p.status)
    BY ZenonT(60) DEF PreProcessReconcile, InitializeConditions, Condition,
       Objects, Statuses, Conditions, NewObservedGenFailure, HasResult
  <1> HIDE DEF p
  <1>2. s \in Statuses
    BY ZenonT(60), <1>1 DEF ReconcileKindStatus, MarkSucceeded, MarkFailed,
       MarkInProgress, Condition, Objects, Statuses, Conditions,
       ReasonResolutionTimedOut, ReasonResolutionInProgress
  <1>3. HasResult(s)
    BY <1>1 DEF ReconcileKindStatus, HasData, MarkSucceeded, MarkFailed,
       MarkInProgress, Condition, Objects, Statuses, HasResult
  <1> HIDE DEF s
  <1>4. HasResult([s EXCEPT !.observedGeneration = rr.generation])
    BY <1>3 DEF HasResult, Statuses
  <1>5. QED
    BY <1>4 DEF DesiredStatus, PostProcessReconcile, p, s

LEMMA InitResult == Init => ResultInv
  <1> SUFFICES ASSUME Init PROVE ResultInv
    OBVIOUS
  <1>1. QED
    BY InitIdle DEF ResultInv

LEMMA NextResult ==
    ASSUME TInv, ResultInv, [Next]_vars
    PROVE  ResultInv'
  <1>1. ASSUME NEW k \in Requests, NEW v \in 0 .. Latest(k)',
               Version(k, v)' # Absent
        PROVE  HasResult(Version(k, v)'.status)
    <2>t. ClusterTypeOK /\ Latest(k) \in Nat
      BY StoredType DEF TInv, TypeOK
    <2>s. Present(k) => Stored(k) \in Objects /\ HasResult(Stored(k).status)
      BY <2>t, StoredType DEF ResultInv, Stored, Present
    <2>1. CASE v <= Latest(k)
      BY <2>1, <1>1, NextTyped DEF Grows, ResultInv
    <2>2. CASE v > Latest(k) /\ NewByUser(k) /\ Version(k, v)' = Stored(k)'
      <3>1. CASE \E type \in Types : Stored(k)' = NewRequest(type)
        <4>1. HasResult(EmptyStatus)
          BY ZenonT(60) DEF EmptyStatus, NilCondition, Condition, HasResult
        <4>2. \A type \in Types : NewRequest(type).status = EmptyStatus
          BY DEF NewRequest
        <4>3. QED
          BY <2>2, <3>1, <4>1, <4>2
      <3>2. CASE Present(k) /\ Stored(k)' = [Stored(k) EXCEPT !.generation = @ + 1]
        BY <2>2, <2>s, <3>2 DEF Objects
      <3>3. QED
        BY <1>1, <2>2, <3>1, <3>2 DEF NewByUser
    <2>3. CASE v > Latest(k) /\ NewByCore(k) /\ Version(k, v)' = Stored(k)'
      BY <2>3 DEF NewByCore, ResultInv, WithStatus, Objects
    <2>4. CASE v > Latest(k) /\ NewByResolver(k) /\ Version(k, v)' = Stored(k)'
      <3>1. PICK r \in Resolvers :
               \/ /\ resolver[r][k].pc = "patch"
                  /\ Present(k)
                  /\ Stored(k)' = Patched(Stored(k), resolver[r][k].resource)
               \/ /\ CanUpdateStatus(k, resolver[r][k].version)
                  /\ Stored(k)' = Failed(Stored(k), resolver[r][k].reason)
        BY <2>4 DEF NewByResolver
      <3>2. ASSUME NEW x \in Resources
            PROVE  HasResult(Patched(Stored(k), x).status) \/ ~Present(k)
        BY <2>s, ConstantsAssumption DEF Patched, WithStatus, Objects,
           Statuses, HasResult
      <3>3. ASSUME NEW x
            PROVE  HasResult(Failed(Stored(k), x).status) \/ ~Present(k)
        BY <2>s DEF Failed, WithStatus, MarkFailed, Condition, Objects,
           Statuses, HasResult
      <3>4. resolver[r][k].pc = "patch" => resolver[r][k].resource \in Resources
        BY DEF ResultInv
      <3>5. QED
        BY <2>4, <3>1, <3>2, <3>3, <3>4 DEF CanUpdateStatus
    <2>5. QED
      BY <2>t, <2>1, <2>2, <2>3, <2>4, NewVersion
  <1>2. ASSUME NEW k \in Requests, core'[k].pc # "idle"
        PROVE  HasResult(core'[k].desired)
    BY <1>2, StoredType, DesiredHasResult, CoreWorkerStep DEF CoreReconcile,
       Versions, TInv, TypeOK, CoreTypeOK, ControllerIds, ControllersTypeOK,
       CacheBehindStore, Cached, ResultInv
  <1>3. ASSUME NEW r \in Resolvers, NEW k \in Requests, resolver'[r][k].pc = "patch"
        PROVE  resolver'[r][k].resource \in Resources
    BY <1>3, ResolverWorkerStep DEF ResultInv
  <1>4. QED
    BY <1>1, <1>2, <1>3 DEF ResultInv

\* No request is ever marked as succeeded with no result in it.
THEOREM SuccessHasResult == Spec => []SucceededHasResult
  <1>1. TInv /\ ResultInv /\ [Next]_vars => ResultInv'
    BY NextResult
  <1>2. TInv /\ ResultInv => SucceededHasResult
    BY StoredType DEF TInv, TypeOK, ResultInv, SucceededHasResult, Succeeded,
       Present, Stored, HasResult
  <1>3. QED
    BY InitResult, AlwaysTyped, <1>1, <1>2, PTL DEF Spec

-----------------------------------------------------------------------------
(***************************************************************************)
(* ResolversRespectDone.  A worker about to update holds the number of a   *)
(* version that is not done; the API server accepts it only while that     *)
(* version is the latest.                                                  *)
(***************************************************************************)
CheckedInv ==
    \A r \in Resolvers, k \in Requests :
        resolver[r][k].pc = "update" =>
            /\ resolver[r][k].version \in 0 .. Latest(k)
            /\ ~IsDone(Version(k, resolver[r][k].version))

LEMMA NextChecked ==
    ASSUME TInv, CheckedInv, [Next]_vars
    PROVE  CheckedInv'
  <1> SUFFICES ASSUME NEW r \in Resolvers, NEW k \in Requests,
                      resolver'[r][k].pc = "update"
               PROVE  /\ resolver'[r][k].version \in 0 .. Latest(k)'
                      /\ ~IsDone(Version(k, resolver[r][k].version))'
    BY DEF CheckedInv
  <1>1. /\ Latest(k) \in Nat
        /\ Latest(k)' \in Nat
        /\ Latest(k) <= Latest(k)'
        /\ \A v \in 0 .. Latest(k) : Version(k, v)' = Version(k, v)
    BY NextTyped DEF Grows
  <1>2. /\ resolver'[r][k].version \in 0 .. Latest(k)
        /\ ~IsDone(Version(k, resolver'[r][k].version))
    BY <1>1, ResolverWorkerStep DEF Stored, CheckedInv
  <1>3. QED
    BY <1>1, <1>2 DEF IsDone, IsUnknown

LEMMA AlwaysChecked == Spec => [](TInv /\ CheckedInv)
  <1>1. Init => CheckedInv
    BY InitIdle DEF CheckedInv
  <1>2. TInv /\ CheckedInv /\ [Next]_vars => CheckedInv'
    BY NextChecked
  <1>3. QED
    BY AlwaysTyped, <1>1, <1>2, PTL DEF Spec

\* No step of a resolver changes the condition of a request that is done:
\* the IsDone check in MarkFailed and the versioned UpdateStatus suffice,
\* and the patch of writeResolvedData leaves the condition alone.
THEOREM ResolversKeepConditions == Spec => ResolversRespectDone
  <1>1. ASSUME TInv, CheckedInv, [Next]_vars, resolver' # resolver,
               NEW k \in Requests, Done(k)
        PROVE  Present(k)' /\ Stored(k)'.status.cond = Stored(k).status.cond
    <2>1. Stored(k) \in Objects
      BY <1>1, StoredType DEF TInv, TypeOK, Done
    <2>2. CASE Stored(k)' = Stored(k)
      BY <1>1, <2>2 DEF Done, Present
    <2>3. CASE NewByResolver(k)
      <3>1. PICK r \in Resolvers :
               \/ /\ resolver[r][k].pc = "patch"
                  /\ Stored(k)' = Patched(Stored(k), resolver[r][k].resource)
               \/ /\ resolver[r][k].pc = "update"
                  /\ CanUpdateStatus(k, resolver[r][k].version)
        BY <2>3 DEF NewByResolver
      <3>2. CASE Stored(k)' = Patched(Stored(k), resolver[r][k].resource)
        <4>1. resolver[r][k].resource \in Resources \cup {NoData}
          BY ZenonT(60), <1>1 DEF TInv, TypeOK, ResolverTypeOK,
             ResolverWorkers
        <4>2. Patched(Stored(k), resolver[r][k].resource) \in Objects
          BY <2>1, <4>1, PatchedType
        <4>3. Patched(Stored(k), resolver[r][k].resource).status.cond
                = Stored(k).status.cond
          BY <2>1 DEF Patched, WithStatus, Objects, Statuses
        <4>4. QED
          BY <3>2, <4>2, <4>3, ClusterAssumption DEF Present
      <3>3. CASE /\ resolver[r][k].pc = "update"
                 /\ CanUpdateStatus(k, resolver[r][k].version)
        BY <1>1, <3>3 DEF CheckedInv, CanUpdateStatus, Stored, Done
      <3>4. QED
        BY <3>1, <3>2, <3>3
    <2>4. QED
      BY <1>1, <2>2, <2>3, NewVersion
  <1>2. TInv /\ CheckedInv /\ [Next]_vars =>
          [resolver' # resolver =>
             \A k \in Requests :
                Done(k) => /\ Present(k)'
                           /\ Stored(k)'.status.cond = Stored(k).status.cond]_vars
    BY <1>1
  <1>3. QED
    BY AlwaysChecked, <1>2, PTL DEF Spec, ResolversRespectDone

-----------------------------------------------------------------------------
(***************************************************************************)
(* TimeoutNotEarly, when no request is deleted.  Then all versions of a    *)
(* request have the creation time of the first one, and a decision that it *)
(* timed out stays right however late it is written.                       *)
(***************************************************************************)
SaysTimedOut(s) == s.cond.reason = ReasonResolutionTimedOut

Expired(k) == now - Version(k, 1).created > Timeout

TimeInv ==
    /\ \A k \in Requests : \A v \in 1 .. Latest(k) :
          /\ Version(k, v) # Absent
          /\ Version(k, v).created = Version(k, 1).created
          /\ SaysTimedOut(Version(k, v).status) => Expired(k)
    /\ \A k \in Requests : core[k].pc # "idle" =>
          /\ Latest(k) >= 1
          /\ SaysTimedOut(core[k].desired) => Expired(k)

LEMMA DesiredTimedOut ==
    ASSUME NEW rr \in Objects, SaysTimedOut(DesiredStatus(rr))
    PROVE  SaysTimedOut(rr.status) \/ TimedOut(rr, now)
  <1> DEFINE p == PreProcessReconcile(rr)
             s == ReconcileKindStatus(p, now)
  <1>1. /\ p \in Objects
        /\ p.created = rr.created
        /\ SaysTimedOut(p.status) => SaysTimedOut(rr.status)
    BY ZenonT(60) DEF PreProcessReconcile, InitializeConditions, Condition,
       Objects, Statuses, Conditions, NewObservedGenFailure, SaysTimedOut,
       ReasonResolutionTimedOut
  <1> HIDE DEF p
  <1>2. s \in Statuses
    BY ZenonT(60), <1>1 DEF ReconcileKindStatus, MarkSucceeded, MarkFailed,
       MarkInProgress, Condition, Objects, Statuses, Conditions,
       ReasonResolutionTimedOut, ReasonResolutionInProgress
  <1>3. SaysTimedOut(s) => SaysTimedOut(p.status) \/ TimedOut(p, now)
    BY DEF ReconcileKindStatus, MarkSucceeded, MarkFailed, MarkInProgress,
       Condition, Objects, Statuses, SaysTimedOut, ReasonResolutionTimedOut,
       ReasonResolutionInProgress
  <1>4. TimedOut(p, now) => TimedOut(rr, now)
    BY <1>1 DEF TimedOut, requestDuration
  <1>5. SaysTimedOut([s EXCEPT !.observedGeneration = rr.generation]) => SaysTimedOut(s)
    <2> HIDE DEF s
    <2>1. QED
      BY DEF SaysTimedOut, Statuses
  <1>6. SaysTimedOut([s EXCEPT !.observedGeneration = rr.generation])
    BY DEF DesiredStatus, PostProcessReconcile, p, s
  <1>7. QED
    BY <1>1, <1>3, <1>4, <1>5, <1>6

LEMMA NextTime ==
    ASSUME TInv, TimeInv, [Next]_vars, ~AllowDelete
    PROVE  TimeInv'
  <1>g. \A k \in Requests :
          /\ Latest(k) \in Nat /\ Latest(k)' \in Nat /\ Latest(k) <= Latest(k)'
          /\ \A v \in 0 .. Latest(k) : Version(k, v)' = Version(k, v)
    BY NextTyped DEF Grows
  <1>n. now \in Nat /\ now' \in Nat /\ now <= now'
    <2>1. now' \in Nat /\ now \in Nat
      BY NextTyped DEF TInv, TypeOK, ClusterTypeOK
    <2>2. now' = now \/ now' = now + 1
      <3>1. CASE EnvironmentStep
        BY ZenonT(60), <3>1 DEF EnvironmentStep, Environment, Create,
           EditSpec, Delete, Tick
      <3>2. ASSUME NEW c, Plumbing(c) \/ Relist(c) PROVE now' = now
        BY <3>2 DEF Plumbing, Deliver, Promote, PromoteFunc, Demote, Relist,
           clusterVars
      <3>3. CASE CoreStep
        BY ZenonT(60), <3>2, <3>3 DEF CoreStep, CoreNext, CoreWork,
           CoreApiError, CoreRequeue, CoreSkip, CoreUnchanged, CoreReconcile,
           CoreUpdate, CoreConflict, CoreGet, CoreNotFound, CoreRestart,
           clusterVars
      <3>4. ASSUME NEW r \in Resolvers, ResolverStep(r) PROVE now' = now
        BY ZenonT(60), <3>2, <3>4 DEF ResolverStep, ResolverNext,
           ResolverWork, ResolverSkip, ResolverReconcile, ResolveReturns,
           ResolveFails, ResolveTimesOut, WriteResolvedData,
           WriteResolvedDataFails, MarkFailedGet, MarkFailedUpdate,
           MarkFailedGivesUp, MarkFailedApiError, ResolverRestart,
           clusterVars
      <3>5. QED
        BY <3>1, <3>3, <3>4 DEF Next, vars, clusterVars
    <2>3. QED
      BY <2>1, <2>2
  <1>c. ASSUME NEW k \in Requests, NEW v \in 1 .. Latest(k)
        PROVE  Version(k, v) \in Objects
    BY StoredType DEF TimeInv, TInv, TypeOK, Versions
  <1>e. ASSUME NEW k \in Requests, Latest(k) >= 1, Expired(k)
        PROVE  Expired(k)'
    BY <1>e, <1>g, <1>c, <1>n, ConstantsAssumption DEF Objects, Expired
  <1>1. ASSUME NEW k \in Requests, NEW v \in 1 .. Latest(k)'
        PROVE  /\ Version(k, v)' # Absent
               /\ Version(k, v)'.created = Version(k, 1)'.created
               /\ SaysTimedOut(Version(k, v)'.status) => Expired(k)'
    <2>1. CASE v <= Latest(k)
      BY <2>1, <1>g, <1>e DEF TimeInv
    <2> DEFINE New == v > Latest(k) /\ Version(k, v)' = Stored(k)'
    <2>p. Present(k) => /\ Latest(k) >= 1
                        /\ Latest(k) \in 1 .. Latest(k)
                        /\ Stored(k) = Version(k, Latest(k))
                        /\ Stored(k) \in Objects
                        /\ Version(k, 1)' = Version(k, 1)
                        /\ Stored(k).created = Version(k, 1)'.created
                        /\ SaysTimedOut(Stored(k).status) => Expired(k)'
      <3> SUFFICES ASSUME Present(k)
                   PROVE  /\ Latest(k) >= 1
                          /\ Latest(k) \in 1 .. Latest(k)
                          /\ Stored(k) = Version(k, Latest(k))
                          /\ Stored(k) \in Objects
                          /\ Version(k, 1)' = Version(k, 1)
                          /\ Stored(k).created = Version(k, 1)'.created
                          /\ SaysTimedOut(Stored(k).status) => Expired(k)'
        OBVIOUS
      <3>1. Latest(k) >= 1 /\ Latest(k) \in 1 .. Latest(k)
        BY <1>g DEF Present, Stored, Version
      <3>2. Stored(k) = Version(k, Latest(k)) /\ Stored(k) \in Objects
        BY <3>1, <1>c DEF Stored
      <3>3. Version(k, 1)' = Version(k, 1)
        BY <1>g, <3>1
      <3>4. QED
        BY <3>1, <3>2, <3>3, <1>e DEF TimeInv
    <2>2. CASE New /\ NewByUser(k)
      <3>1. CASE \E type \in Types : ~Present(k) /\ Stored(k)' = NewRequest(type)
        <4>1. PICK type \in Types : ~Present(k) /\ Stored(k)' = NewRequest(type)
          BY <3>1
        <4>2. Latest(k) = 0
          BY <4>1, <1>g DEF TimeInv, Present, Stored
        <4>3. v = 1
          BY <4>2, NewVersion
        <4>4. NewRequest(type) \in Objects
          BY <1>n, EmptyStatusType DEF NewRequest, Objects
        <4>5. ~SaysTimedOut(NewRequest(type).status)
          BY ZenonT(60) DEF NewRequest, EmptyStatus, NilCondition, Condition,
             SaysTimedOut, ReasonResolutionTimedOut
        <4>6. QED
          BY <2>2, <4>1, <4>3, <4>4, <4>5, ClusterAssumption
      <3>2. CASE Present(k) /\ Stored(k)' = [Stored(k) EXCEPT !.generation = @ + 1]
        BY <2>2, <2>p, <3>2, ClusterAssumption DEF Objects
      <3>3. QED
        BY <2>2, <3>1, <3>2 DEF NewByUser
    <2>s. ASSUME NEW rr \in Objects, NEW s \in Statuses
          PROVE  /\ WithStatus(rr, s) \in Objects
                 /\ WithStatus(rr, s).created = rr.created
                 /\ WithStatus(rr, s).status = s
      BY DEF WithStatus, Objects
    <2>3. CASE New /\ NewByCore(k)
      BY <2>3, <2>p, <1>e, <2>s, ClusterAssumption DEF TInv, TypeOK,
         CoreTypeOK, CoreWorkers, NewByCore, TimeInv
    <2>4. CASE New /\ NewByResolver(k)
      <3>1. PICK r \in Resolvers :
               \/ /\ Present(k)
                  /\ Stored(k)' = Patched(Stored(k), resolver[r][k].resource)
               \/ /\ Present(k)
                  /\ Stored(k)' = Failed(Stored(k), resolver[r][k].reason)
        BY <2>4 DEF NewByResolver, CanUpdateStatus
      <3>2. /\ resolver[r][k].resource \in Resources \cup {NoData}
            /\ resolver[r][k].reason \in {"", ReasonResolutionFailed}
        BY ZenonT(60) DEF TInv, TypeOK, ResolverTypeOK, ResolverWorkers
      <3>3. ASSUME NEW x \in Resources \cup {NoData}, NEW rr \in Objects
            PROVE  /\ Patched(rr, x) \in Objects
                   /\ Patched(rr, x).created = rr.created
                   /\ SaysTimedOut(Patched(rr, x).status) => SaysTimedOut(rr.status)
        BY DEF Patched, WithStatus, Objects, Statuses, SaysTimedOut
      <3>4. ASSUME NEW x \in {"", ReasonResolutionFailed}, NEW rr \in Objects
            PROVE  /\ Failed(rr, x) \in Objects
                   /\ Failed(rr, x).created = rr.created
                   /\ ~SaysTimedOut(Failed(rr, x).status)
        BY ZenonT(60), FailedType DEF Failed, WithStatus, Objects,
           MarkFailed, Condition, Statuses, SaysTimedOut,
           ReasonResolutionTimedOut, ReasonResolutionFailed
      <3>5. Present(k) /\ Stored(k) \in Objects
        BY <3>1, <2>p
      <3>6. /\ Stored(k)' \in Objects
            /\ Stored(k)'.created = Stored(k).created
            /\ SaysTimedOut(Stored(k)'.status) => SaysTimedOut(Stored(k).status)
        <4>1. CASE Stored(k)' = Patched(Stored(k), resolver[r][k].resource)
          BY ZenonT(60), <3>2, <3>3, <3>5, <4>1
        <4>2. CASE Stored(k)' = Failed(Stored(k), resolver[r][k].reason)
          BY ZenonT(60), <3>2, <3>4, <3>5, <4>2
        <4>3. QED
          BY <3>1, <4>1, <4>2
      <3>7. QED
        BY <2>4, <2>p, <3>5, <3>6, ClusterAssumption
    <2>5. v <= Latest(k) \/ (New /\ (NewByUser(k) \/ NewByCore(k) \/ NewByResolver(k)))
      BY <1>g, NewVersion
    <2>6. QED
      BY <2>1, <2>2, <2>3, <2>4, <2>5
  <1>2. ASSUME NEW k \in Requests, core'[k].pc # "idle"
        PROVE  /\ Latest(k)' >= 1
               /\ SaysTimedOut(core'[k].desired) => Expired(k)'
    <2>1. CASE CoreReconcile(k)
      <3> DEFINE rr == Cached(Core, k)
      <3>1. seen[Core][k] \in 1 .. Latest(k)
        BY <2>1 DEF TInv, TypeOK, ControllersTypeOK, CacheBehindStore,
           ControllerIds, CoreReconcile, Cached, Version
      <3>2. rr \in Objects /\ rr = Version(k, seen[Core][k])
        BY <3>1, <1>c DEF Cached
      <3>3. core'[k].desired = DesiredStatus(rr)
        BY <2>1 DEF CoreReconcile, TInv, TypeOK, CoreTypeOK
      <3>4. rr.created = Version(k, 1).created
        BY <3>1, <3>2 DEF TimeInv
      <3>5. TimedOut(rr, now) => Expired(k)
        BY <3>4 DEF TimedOut, requestDuration, Expired
      <3>6. SaysTimedOut(rr.status) => Expired(k)
        BY <3>1, <3>2 DEF TimeInv
      <3>7. SaysTimedOut(DesiredStatus(rr)) => Expired(k)
        BY <3>2, <3>5, <3>6, DesiredTimedOut
      <3>8. Latest(k) >= 1 /\ Latest(k)' >= 1
        BY <3>1, <1>g
      <3>9. QED
        BY <3>3, <3>7, <3>8, <1>e
    <2>2. CASE core[k].pc # "idle" /\ core'[k].desired = core[k].desired
      BY <2>2, <1>g, <1>e DEF TimeInv
    <2>3. QED
      BY <1>2, <2>1, <2>2, CoreWorkerStep
  <1>3. QED
    BY <1>1, <1>2 DEF TimeInv

\* As long as no request is deleted, none fails with ResolutionTimedOut
\* before its time, whatever stale copies the core works from.
THEOREM NoEarlyTimeout ==
    ASSUME ~AllowDelete
    PROVE  Spec => []TimeoutNotEarly
  <1>1. Init => TimeInv
    BY InitIdle DEF TimeInv
  <1>2. TInv /\ TimeInv /\ [Next]_vars => TimeInv'
    BY NextTime
  <1>3. TInv /\ TimeInv => TimeoutNotEarly
    <2> SUFFICES ASSUME TInv, TimeInv, NEW k \in Requests, Present(k),
                        SaysTimedOut(Stored(k).status)
                 PROVE  now - Stored(k).created > Timeout
      BY DEF TimeoutNotEarly, SaysTimedOut
    <2>1. Latest(k) \in 1 .. Latest(k)
      BY StoredType DEF TInv, TypeOK, Present, Stored, Version
    <2>2. QED
      BY <2>1 DEF TimeInv, Stored, Expired
  <1>4. QED
    BY AlwaysTyped, <1>1, <1>2, <1>3, PTL DEF Spec

-----------------------------------------------------------------------------
(***************************************************************************)
(* Frames: a controller's step leaves the others' queues and caches alone. *)
(***************************************************************************)
Untouched(c) ==
    seen'[c] = seen[c] /\ queue'[c] = queue[c] /\ leader'[c] = leader[c]

LEMMA PlumbingFrame ==
    ASSUME ControllersTypeOK, NEW c \in ControllerIds, NEW d \in ControllerIds,
           d # c, Plumbing(d) \/ Relist(d)
    PROVE  Untouched(c)
  BY DEF Plumbing, Deliver, Promote, PromoteFunc, Demote, Relist, Untouched,
     ControllersTypeOK

LEMMA DequeueKeepsOthers ==
    ASSUME ControllersTypeOK, NEW c \in ControllerIds, NEW j, NEW busy,
           Dequeue(c, j, busy), NEW k \in Requests, j # k
    PROVE  /\ queue' \in [ControllerIds -> SUBSET Requests]
           /\ k \in queue[c] => k \in queue'[c]
  BY DEF Dequeue, ControllersTypeOK

LEMMA CoreFrame ==
    ASSUME TInv, CoreStep, NEW r \in Resolvers
    PROVE  Untouched(r)
  <1>t. ControllersTypeOK /\ r \in ControllerIds /\ Core \in ControllerIds /\ r # Core
    BY ControllersAssumption DEF TInv, TypeOK, ControllerIds
  <1>1. ASSUME NEW k \in Requests, CoreWork(k) \/ CoreApiError(k) \/ CoreRequeue(k)
        PROVE  Untouched(r)
    BY <1>t, <1>1 DEF CoreWork, CoreApiError, CoreRequeue, CoreSkip,
       CoreUnchanged, CoreReconcile, CoreUpdate, CoreConflict, CoreGet,
       CoreNotFound, CoreReturnError, Dequeue, controllerVars, Untouched,
       ControllersTypeOK
  <1>2. QED
    BY <1>t, <1>1, PlumbingFrame DEF CoreStep, CoreNext, CoreRestart

\* A step of a worker moves that worker only.
LEMMA WorkGoes ==
    ASSUME NEW r \in Resolvers, NEW k \in Requests, ResolverWork(r, k)
    PROVE  resolver' = resolver \/ \E w : Goto(r, k, w)
  BY ZenonT(60) DEF ResolverWork, ResolverSkip, ResolverReconcile,
     ResolveReturns, ResolveFails, ResolveTimesOut, WriteResolvedData,
     WriteResolvedDataFails, MarkFailedGet, MarkFailedUpdate,
     MarkFailedGivesUp, MarkFailedApiError, OnError

LEMMA ResolverFrame ==
    ASSUME TInv, NEW r \in Resolvers, ResolverStep(r), NEW c \in ControllerIds, c # r
    PROVE  Untouched(c)
  <1>t. ControllersTypeOK /\ r \in ControllerIds
    BY DEF TInv, TypeOK, ControllerIds
  <1>1. ASSUME NEW k \in Requests, ResolverWork(r, k)
        PROVE  Untouched(c)
    BY ZenonT(60), <1>t, <1>1 DEF ResolverWork, ResolverSkip,
       ResolverReconcile, ResolveReturns, ResolveFails, ResolveTimesOut,
       WriteResolvedData, WriteResolvedDataFails, MarkFailedGet,
       MarkFailedUpdate, MarkFailedGivesUp, MarkFailedApiError, Dequeue,
       controllerVars, Untouched, ControllersTypeOK
  <1>2. QED
    BY <1>t, <1>1, PlumbingFrame DEF ResolverStep, ResolverNext,
       ResolverRestart
=============================================================================
