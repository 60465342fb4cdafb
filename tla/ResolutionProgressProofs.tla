---------------------- MODULE ResolutionProgressProofs ----------------------
(***************************************************************************)
(* Proofs that no controller loses sight of a request: NoLostTimeout for   *)
(* the core and, as long as no call fails, NoAbandonedRequest for the      *)
(* resolvers.                                                              *)
(***************************************************************************)
EXTENDS Requester, ResolutionSafetyProofs

\* Every leaf may take a minute, so that a slow machine changes nothing.
USE SMTT(60), ZenonT(60)

\* A cache that is not behind holds what is stored.
LEMMA CacheIsCurrent ==
    ASSUME TInv, NEW c \in ControllerIds, NEW k \in Requests
    PROVE  seen[c][k] < Latest(k) \/ Cached(c, k) = Stored(k)
  <1>1. seen[c][k] \in Nat /\ seen[c][k] <= Latest(k) /\ Latest(k) \in Nat
    BY StoredType DEF TInv, TypeOK, ControllersTypeOK, CacheBehindStore
  <1>2. QED
    BY <1>1 DEF Cached, Stored

\* The informer announces a version the handler is interested in.
LEMMA PlumbingKeepsLooking ==
    ASSUME TInv, NEW c \in ControllerIds, NEW k \in Requests, Plumbing(c),
           Present(k), c # Core => Matches(c, Stored(k)),
           seen[c][k] < Latest(k) \/ k \in queue[c]
    PROVE  seen'[c][k] < Latest(k)' \/ k \in queue'[c]
  <1>t. /\ seen \in [ControllerIds -> [Requests -> Nat]]
        /\ queue \in [ControllerIds -> SUBSET Requests]
        /\ Latest(k) \in Nat
    BY StoredType DEF TInv, TypeOK, ControllersTypeOK
  <1>l. Latest(k)' = Latest(k)
    BY DEF Plumbing, Deliver, Promote, PromoteFunc, Demote, clusterVars,
       Latest
  <1>1. ASSUME NEW j \in Requests, NEW v \in 1 .. Latest(j), Deliver(c, j, v)
        PROVE  seen'[c][k] < Latest(k)' \/ k \in queue'[c]
    <2>1. CASE j # k
      BY <1>1, <1>l, <2>1 DEF Deliver
    <2>2. CASE j = k /\ v < Latest(k)
      BY <1>1, <2>2, <1>l DEF Deliver
    <2>3. CASE j = k /\ v = Latest(k)
      BY <2>3, <1>1, <1>t DEF Enqueues, Present, Stored, Deliver
    <2>4. j = k => v < Latest(k) \/ v = Latest(k)
      <3>1. Latest(k) \in Nat
        BY <1>t
      <3>2. QED
        BY <3>1
    <2>5. QED
      BY <2>1, <2>2, <2>3, <2>4
  <1>2. CASE Promote(c) \/ PromoteFunc(c) \/ Demote(c)
    BY <1>2, <1>t, <1>l DEF Promote, PromoteFunc, Demote
  <1>3. QED
    BY <1>1, <1>2 DEF Plumbing

-----------------------------------------------------------------------------
(***************************************************************************)
(* NoLostTimeout.  A core worker that will not ask to see the request      *)
(* again holds a status that is done.                                      *)
(***************************************************************************)
FinalInv ==
    \A k \in Requests :
        core[k].pc # "idle" /\ core[k].requeue = NoRequeue
        => ~IsUnknown(core[k].desired)

\* ReconcileKind asks for a requeue unless it has made the request final.
LEMMA NoRequeueIsFinal ==
    ASSUME NEW rr \in Objects, now \in Nat, RequeueEvent(rr) = NoRequeue
    PROVE  ~IsUnknown(DesiredStatus(rr))
  <1> DEFINE p == PreProcessReconcile(rr)
             s == ReconcileKindStatus(p, now)
  <1>1. p \in Objects
    BY ZenonT(60) DEF PreProcessReconcile, InitializeConditions, Condition,
       Objects, Statuses, Conditions, NewObservedGenFailure
  <1>2. ReconcileKindEvent(p, now) = NoRequeue
    BY DEF RequeueEvent
  <1> HIDE DEF p
  <1>3. p.created \in Nat /\ p.status \in Statuses
    BY <1>1 DEF Objects
  <1>4. IsDone(p) \/ HasData(p.status) \/ TimedOut(p, now)
    BY <1>2, <1>3, ConstantsAssumption DEF ReconcileKindEvent, TimedOut,
       requestDuration, NoRequeue
  <1>5. s \in Statuses /\ ~IsUnknown(s)
    BY ZenonT(60), <1>3, <1>4 DEF ReconcileKindStatus, MarkSucceeded,
       MarkFailed, IsDone, IsUnknown, Condition, Statuses, Conditions,
       ReasonResolutionTimedOut
  <1> HIDE DEF s
  <1>6. ~IsUnknown([s EXCEPT !.observedGeneration = rr.generation])
    BY <1>5 DEF IsUnknown, Statuses
  <1>7. QED
    BY <1>6 DEF DesiredStatus, PostProcessReconcile, p, s

LEMMA NextFinal ==
    ASSUME TInv, FinalInv, [Next]_vars
    PROVE  FinalInv'
  <1> SUFFICES ASSUME NEW k \in Requests, core'[k].pc # "idle",
                      core'[k].requeue = NoRequeue
               PROVE  ~IsUnknown(core'[k].desired)
    BY DEF FinalInv, IsUnknown
  <1>1. CASE CoreReconcile(k)
    <2>1. Cached(Core, k) \in Objects
      BY <1>1, CachedType DEF CoreReconcile, Versions, TInv, ControllerIds
    <2>2. /\ core'[k].desired = DesiredStatus(Cached(Core, k))
          /\ core'[k].requeue = RequeueEvent(Cached(Core, k))
      BY <1>1 DEF CoreReconcile, TInv, TypeOK, CoreTypeOK
    <2>3. now \in Nat
      BY DEF TInv, TypeOK, ClusterTypeOK
    <2>4. QED
      BY <2>1, <2>2, <2>3, NoRequeueIsFinal
  <1>2. CASE ~CoreReconcile(k)
    BY <1>2, CoreWorkerStep DEF FinalInv
  <1>3. QED
    BY <1>1, <1>2

\* A name that waits in the delaying queue goes on waiting, and AddAfter
\* makes a name wait.
LEMMA AddAfterWaits ==
    ASSUME TInv, NEW j \in Requests, NEW d \in Nat \cup {NoRequeue}, AddAfter(j, d)
    PROVE  /\ \A k \in Requests : delay[k] # NoDelay => delay'[k] # NoDelay
           /\ d # NoRequeue => delay'[j] # NoDelay
  BY DueType DEF TInv, TypeOK, CoreTypeOK, AddAfter, NoDelay

\* A core worker's step loses nothing, unless it makes a new version.
LEMMA CoreWorkKeepsLooking ==
    ASSUME TInv, FinalInv, NEW j \in Requests, NEW k \in Requests,
           CoreWork(j) \/ CoreApiError(j) \/ CoreRequeue(j),
           leader[Core] = "yes", Present(k), ~Done(k), CoreWillLook(k),
           Latest(k)' = Latest(k), Stored(k)' = Stored(k)
    PROVE  CoreWillLook(k)'
  <1>t. /\ core \in [Requests -> CoreWorkers]
        /\ delay \in [Requests -> (0 .. MaxTime) \cup {NoDelay}]
        /\ queue \in [ControllerIds -> SUBSET Requests]
        /\ Core \in ControllerIds
        /\ now \in Nat
    BY DEF TInv, TypeOK, CoreTypeOK, ControllersTypeOK, ControllerIds,
       ClusterTypeOK
  <1>s. seen' = seen
    BY DEF CoreWork, CoreApiError, CoreRequeue, CoreSkip, CoreUnchanged,
       CoreReconcile, CoreUpdate, CoreConflict, CoreGet, CoreNotFound,
       CoreReturnError, controllerVars
  <1>f. Stored(k) \in Objects
    BY StoredType DEF TInv, TypeOK
  <1>c. seen[Core][k] < Latest(k) \/ Cached(Core, k) = Stored(k)
    BY <1>t, CacheIsCurrent
  <1>1. CASE seen[Core][k] < Latest(k)
    BY <1>1, <1>s DEF CoreWillLook
  <1>3. ASSUME NEW d \in Nat \cup {NoRequeue}, CoreReturn(j, d),
               j # k \/ d # NoRequeue,
               k \in queue[Core] => k \in queue'[Core] \/ k = j
        PROVE  CoreWillLook(k)'
    BY <1>3, <1>1, AddAfterWaits DEF CoreReturn, CoreWillLook
  <1>2. CASE CoreReturnError(j)
    BY <1>2, <1>3 DEF CoreReturnError, controllerVars, NoRequeue
  <1>4. CASE CoreSkip(j) /\ Cached(Core, k) = Stored(k)
    BY <1>4 DEF CoreSkip, IsLeader, Present, Dequeue, CoreWillLook, coreVars
  <1>5. CASE CoreUnchanged(j) /\ Cached(Core, k) = Stored(k)
    <2>1. Cached(Core, j) \in Objects
      BY <1>5, <1>t, CachedType DEF CoreUnchanged, Versions, TInv
    <2>2. RequeueEvent(Cached(Core, j)) \in Nat \cup {NoRequeue}
      BY <2>1, <1>t, RequeueEventType
    <2>3. j # k \/ RequeueEvent(Cached(Core, j)) # NoRequeue
      BY <1>5, <2>1, <1>t, NoRequeueIsFinal DEF CoreUnchanged, Done, IsDone
    <2>4. QED
      BY ZenonT(60), <1>3, <1>5, <1>t, <2>2, <2>3 DEF CoreUnchanged, Dequeue
  <1>6. CASE CoreReconcile(j)
    BY <1>6, <1>t DEF CoreReconcile, Dequeue, CoreWillLook
  <1>r. core[j].requeue \in Nat \cup {NoRequeue} /\ core[j].desired \in Statuses
    BY <1>t DEF CoreWorkers
  <1>7. CASE CoreUpdate(j)
    <2>1. j # k \/ core[j].requeue # NoRequeue
      <3> SUFFICES ASSUME j = k PROVE core[k].requeue # NoRequeue
        OBVIOUS
      <3>1. Stored(k)' = WithStatus(Stored(k), core[k].desired)
        BY <1>7, <1>f, <1>r, WithStatusType, WriteEffect DEF CoreUpdate,
           Versions, TInv, TypeOK
      <3>2. Stored(k).status = core[k].desired
        BY <3>1 DEF WithStatus, Objects
      <3>3. QED
        BY <1>7, <3>2 DEF CoreUpdate, FinalInv, Done, IsDone
    <2>2. QED
      BY ZenonT(60), <1>3, <1>7, <1>r, <2>1 DEF CoreUpdate, controllerVars
  <1>8. CASE CoreConflict(j)
    BY <1>8, <1>t, <1>2 DEF CoreConflict, CoreWillLook, CoreWorkers,
       controllerVars
  <1>9. CASE CoreGet(j)
    <2>1. CASE Stored(j).status = core[j].desired
      BY <1>9, <2>1, <1>3, <1>r DEF CoreGet, FinalInv, Done, IsDone,
         controllerVars
    <2>2. CASE Stored(j).status # core[j].desired
      BY <1>9, <1>t, <2>2 DEF CoreGet, CoreWillLook, CoreWorkers,
         controllerVars
    <2>3. QED
      BY <2>1, <2>2
  <1>10. CASE CoreRequeue(j)
    BY <1>10, <1>t DEF CoreRequeue, CoreWillLook
  <1>11. CASE CoreNotFound(j) \/ CoreApiError(j)
    BY <1>2, <1>11 DEF CoreNotFound, CoreApiError
  <1>12. QED
    BY <1>c, <1>1, <1>4, <1>5, <1>6, <1>7, <1>8, <1>9, <1>10, <1>11
       DEF CoreWork

LEMMA NextLooks ==
    ASSUME TInv, FinalInv, NoLostTimeout, [Next]_vars
    PROVE  NoLostTimeout'
  <1> SUFFICES ASSUME leader'[Core] = "yes", NEW k \in Requests, Present(k)', ~Done(k)'
               PROVE  CoreWillLook(k)'
    BY DEF NoLostTimeout
  <1>t. /\ Core \in ControllerIds
        /\ ControllersTypeOK
    BY DEF ControllerIds, TInv, TypeOK
  <1>1. CASE seen'[Core][k] < Latest(k)'
    BY <1>1 DEF CoreWillLook
  <1>2. CASE Latest(k)' = Latest(k) /\ Stored(k)' = Stored(k)
    <2>1. Present(k) /\ ~Done(k)
      BY <1>2 DEF Present, Done, IsDone, IsUnknown
    <2>2. leader[Core] = "yes" => CoreWillLook(k)
      BY <2>1 DEF NoLostTimeout
    <2>3. CASE UNCHANGED <<controllerVars, coreVars>>
      BY <1>2, <2>2, <2>3 DEF controllerVars, coreVars, CoreWillLook
    <2>4. ASSUME NEW r \in Resolvers, ResolverStep(r) PROVE CoreWillLook(k)'
      <3>1. Untouched(Core) /\ UNCHANGED coreVars
        BY <2>4, <1>t, ResolverFrame, ControllersAssumption DEF ResolverStep
      <3>2. QED
        BY <1>2, <2>2, <3>1 DEF Untouched, coreVars, CoreWillLook
    <2>5. CASE Plumbing(Core) /\ UNCHANGED coreVars
      <3>1. CASE leader[Core] = "yes"
        BY <1>t, <2>1, <2>2, <2>5, <3>1, PlumbingKeepsLooking
           DEF CoreWillLook, coreVars
      <3>2. CASE PromoteFunc(Core)
        BY <1>t, <1>2, <3>2, CacheIsCurrent DEF Present, PromoteFunc,
           CoreWillLook, ControllersTypeOK
      <3>3. leader[Core] = "yes" \/ PromoteFunc(Core)
        BY <1>t, <2>5 DEF Plumbing, Deliver, Promote, Demote,
           ControllersTypeOK
      <3>4. QED
        BY <3>1, <3>2, <3>3
    <2>6. ASSUME NEW j \in Requests, CoreWork(j) \/ CoreApiError(j) \/ CoreRequeue(j)
          PROVE  CoreWillLook(k)'
      BY ZenonT(60), <2>6, <1>2, <2>1, <2>2, CoreWorkKeepsLooking DEF CoreWork,
         CoreApiError, CoreRequeue, CoreSkip, CoreUnchanged, CoreReconcile,
         CoreUpdate, CoreConflict, CoreGet, CoreNotFound, CoreReturnError,
         controllerVars
    <2>7. ~CoreRestart
      BY <1>t DEF CoreRestart, Relist, ControllersTypeOK
    <2>8. CASE CoreStep
      BY <2>5, <2>6, <2>7, <2>8 DEF CoreStep, CoreNext
    <2>9. QED
      BY <2>3, <2>4, <2>8 DEF Next, EnvironmentStep, vars
  <1>3. QED
    BY <1>1, <1>2, <1>t, NewVersion

\* The core never loses a request that is not done: whatever happens
\* between two of its steps, the request will be looked at again, so its
\* timeout is not missed.
THEOREM CoreKeepsLooking == Spec => []NoLostTimeout
  <1>1. Init => FinalInv /\ NoLostTimeout
    BY InitIdle DEF FinalInv, NoLostTimeout, Present, Stored
  <1>2. TInv /\ FinalInv /\ NoLostTimeout /\ [Next]_vars => FinalInv' /\ NoLostTimeout'
    BY NextFinal, NextLooks
  <1>3. QED
    BY AlwaysTyped, <1>1, <1>2, PTL DEF Spec

-----------------------------------------------------------------------------
(***************************************************************************)
(* NoAbandonedRequest, when no call fails.  MarkFailed gives up on a       *)
(* conflict, but then a newer version exists, and its event is still to    *)
(* come or has put the name into the queue while the worker was busy.      *)
(***************************************************************************)
Looks(r, k) == seen[r][k] < Latest(k) \/ k \in queue[r]

EventInv ==
    \A r \in Resolvers, k \in Requests :
        /\ Present(k)
        /\ Matches(r, Stored(k))
        /\ resolver[r][k].pc = "update"
        => resolver[r][k].version = Latest(k) \/ Looks(r, k)

\* What a resolver does for other requests, and what others do, does not
\* make it miss a request with its label.
LEMMA LooksKept ==
    ASSUME TInv, [Next]_vars, NEW r \in Resolvers, NEW k \in Requests,
           Present(k), Matches(r, Stored(k)), Looks(r, k),
           ~ResolverSkip(r, k), ~ResolverReconcile(r, k), ~ResolverRestart(r)
    PROVE  Looks(r, k)'
  <1>t. /\ r \in ControllerIds /\ ControllersTypeOK
        /\ seen[r][k] \in Nat
        /\ r # Core
    BY ControllersAssumption DEF ControllerIds, TInv, TypeOK,
       ControllersTypeOK
  <1>g. Latest(k) \in Nat /\ Latest(k)' \in Nat /\ Latest(k) <= Latest(k)'
    BY NextTyped DEF Grows
  <1>1. CASE Untouched(r)
    BY <1>1, <1>g, <1>t DEF Untouched, Looks
  <1>2. CASE Plumbing(r)
    BY <1>2, <1>t, PlumbingKeepsLooking DEF Looks
  <1>3. ASSUME NEW j \in Requests, ResolverWork(r, j) PROVE Looks(r, k)'
    <2>1. CASE ResolverSkip(r, j) \/ ResolverReconcile(r, j)
      <3>1. j # k
        BY <2>1
      <3>2. /\ seen' = seen
            /\ queue' \in [ControllerIds -> SUBSET Requests]
            /\ k \in queue[r] => k \in queue'[r]
        BY ZenonT(60), <1>t, <2>1, <3>1, DequeueKeepsOthers
           DEF ResolverSkip, ResolverReconcile
      <3>3. QED
        BY <1>g, <1>t, <3>2 DEF Looks, ControllersTypeOK
    <2>2. CASE ~ResolverSkip(r, j) /\ ~ResolverReconcile(r, j)
      BY ZenonT(60), <1>1, <1>3, <2>2 DEF ResolverWork, ResolveReturns,
         ResolveFails, ResolveTimesOut, WriteResolvedData,
         WriteResolvedDataFails, MarkFailedGet, MarkFailedUpdate,
         MarkFailedGivesUp, MarkFailedApiError, controllerVars, Untouched
    <2>3. QED
      BY <2>1, <2>2
  <1>4. CASE ResolverStep(r)
    BY <1>2, <1>3, <1>4 DEF ResolverStep, ResolverNext
  <1>5. ASSUME NEW q \in Resolvers, q # r, ResolverStep(q) PROVE Looks(r, k)'
    BY <1>1, <1>5, <1>t, ResolverFrame
  <1>6. CASE CoreStep
    BY <1>1, <1>6, CoreFrame
  <1>7. CASE EnvironmentStep \/ UNCHANGED vars
    BY <1>1, <1>7 DEF EnvironmentStep, vars, controllerVars, Untouched
  <1>8. QED
    BY <1>4, <1>5, <1>6, <1>7 DEF Next

LEMMA NextEvent ==
    ASSUME TInv, EventInv, [Next]_vars
    PROVE  EventInv'
  <1> SUFFICES ASSUME NEW r \in Resolvers, NEW k \in Requests, Present(k)',
                      Matches(r, Stored(k))', resolver'[r][k].pc = "update"
               PROVE  resolver'[r][k].version = Latest(k)' \/ Looks(r, k)'
    BY DEF EventInv
  <1>t. r \in ControllerIds
    BY DEF ControllerIds
  <1>1. CASE seen'[r][k] < Latest(k)'
    BY <1>1 DEF Looks
  <1>2. CASE Latest(k)' = Latest(k) /\ Stored(k)' = Stored(k)
    <2>1. Present(k) /\ Matches(r, Stored(k))
      BY <1>2 DEF Present, Matches
    <2>2. CASE resolver'[r][k].version = Latest(k)
      BY <1>2, <2>2
    <2>3. CASE resolver'[r][k] = resolver[r][k] /\ Looks(r, k)
      <3>1. ~ResolverSkip(r, k) /\ ~ResolverReconcile(r, k)
        BY <2>3 DEF ResolverSkip, ResolverReconcile, Dequeue, ResolverBusy
      <3>2. ~ResolverRestart(r)
        <4>1. resolver \in [Resolvers -> [Requests -> ResolverWorkers]]
          BY DEF TInv, TypeOK, ResolverTypeOK
        <4>2. ResolverRestart(r) => resolver'[r][k] = ResolverIdle
          BY <4>1 DEF ResolverRestart
        <4>3. ResolverIdle.pc = "idle"
          BY DEF ResolverIdle
        <4>4. QED
          BY <4>2, <4>3
      <3>3. QED
        BY <2>1, <2>3, <3>1, <3>2, LooksKept
    <2>4. QED
      BY <2>1, <2>2, <2>3, ResolverWorkerStep DEF EventInv
  <1>3. QED
    BY <1>1, <1>2, <1>t, NewVersion

Unanswered(r, k) ==
    /\ Present(k)
    /\ Matches(r, Stored(k))
    /\ ~Done(k)
    /\ Stored(k).status.data = NoData

\* A resolver's worker only returns to idle when the request is answered,
\* has changed, or is gone.
LEMMA WorkKeepsLooking ==
    ASSUME TInv, ResultInv, EventInv, "api" \notin FaultKinds, [Next]_vars,
           NEW r \in Resolvers, NEW k \in Requests, ResolverWork(r, k),
           Unanswered(r, k), Latest(k)' = Latest(k), Stored(k)' = Stored(k)
    PROVE  ResolverWillLook(r, k)'
  <1>t. /\ resolver \in [Resolvers -> [Requests -> ResolverWorkers]]
        /\ r \in ControllerIds
        /\ Stored(k) \in Objects
        /\ ClusterTypeOK
    BY StoredType DEF TInv, TypeOK, ResolverTypeOK, ControllerIds, Unanswered
  <1>n. ~Fault("api")
    BY DEF Fault
  <1>1. ASSUME NEW w, Goto(r, k, w), w.pc # "idle" PROVE ResolverWillLook(r, k)'
    BY <1>1, <1>t DEF Goto, ResolverWillLook
  <1>2. ASSUME NEW err, OnError(r, k, err) PROVE ResolverWillLook(r, k)'
    BY ZenonT(60), <1>1, <1>2 DEF ResolverIdle, OnError
  <1>3. CASE ResolverSkip(r, k)
    BY <1>3, <1>t, CacheIsCurrent DEF ResolverSkip, NeedsWork, Unanswered,
       Present, Done, ResolverWillLook
  <1>4. CASE ResolverReconcile(r, k)
    BY ZenonT(60), <1>1, <1>4 DEF ResolverIdle, ResolverReconcile
  <1>5. ASSUME NEW x \in Resources, ResolveReturns(r, k, x)
        PROVE  ResolverWillLook(r, k)'
    BY ZenonT(60), <1>1, <1>5 DEF ResolverIdle, ResolveReturns
  <1>6. CASE ResolveFails(r, k) \/ ResolveTimesOut(r, k) \/ WriteResolvedDataFails(r, k)
    BY ZenonT(60), <1>2, <1>6 DEF ResolveFails, ResolveTimesOut,
       WriteResolvedDataFails
  <1>7. ~WriteResolvedData(r, k)
    <2> SUFFICES ASSUME WriteResolvedData(r, k) PROVE FALSE
      OBVIOUS
    <2>1. resolver[r][k].resource \in Resources
      BY DEF WriteResolvedData, ResultInv
    <2>2. Patched(Stored(k), resolver[r][k].resource) \in Versions
      BY <1>t, <2>1, PatchedType DEF Versions
    <2>3. Write(k, Patched(Stored(k), resolver[r][k].resource))
      BY DEF WriteResolvedData, PatchData, Patched
    <2>4. Stored(k) = Patched(Stored(k), resolver[r][k].resource)
      BY <1>t, <2>2, <2>3, WriteEffect
    <2>5. \A rr \in Objects : \A x : Patched(rr, x).status.data = x
      BY DEF Patched, WithStatus, Objects, Statuses
    <2>6. Stored(k).status.data = resolver[r][k].resource
      BY <1>t, <2>4, <2>5
    <2>7. QED
      BY <2>1, <2>6, ConstantsAssumption DEF Unanswered
  <1>8. CASE MarkFailedGet(r, k)
    <2>1. ~IsDone(Stored(k))
      BY DEF Unanswered, Done
    <2>2. \A u \in ResolverWorkers : \A v :
             [u EXCEPT !.pc = "update", !.version = v].pc # "idle"
      BY ZenonT(60) DEF ResolverWorkers
    <2>3. [resolver[r][k] EXCEPT !.pc = "update", !.version = Latest(k)].pc # "idle"
      OBVIOUS
    <2>4. QED
      BY ZenonT(60), <1>1, <1>8, <2>1, <2>3 DEF MarkFailedGet
  <1>9. ~MarkFailedUpdate(r, k)
    <2> SUFFICES ASSUME MarkFailedUpdate(r, k) PROVE FALSE
      OBVIOUS
    <2>1. resolver[r][k].reason \in {"", ReasonResolutionFailed}
      BY ZenonT(60), <1>t DEF ResolverWorkers
    <2>2. Failed(Stored(k), resolver[r][k].reason) \in Versions
      BY ZenonT(60), <1>t, <2>1, FailedType DEF Versions
    <2>3. Write(k, Failed(Stored(k), resolver[r][k].reason))
      BY DEF MarkFailedUpdate, Failed
    <2>4. Stored(k) = Failed(Stored(k), resolver[r][k].reason)
      BY <1>t, <2>2, <2>3, WriteEffect
    <2>5. \A rr \in Objects : \A x : IsDone(Failed(rr, x))
      BY DEF Failed, WithStatus, MarkFailed, Condition, IsDone, IsUnknown,
         Objects, Statuses
    <2>6. QED
      BY <1>t, <2>4, <2>5 DEF Unanswered, Done
  <1>10. CASE MarkFailedGivesUp(r, k)
    BY <1>10 DEF MarkFailedGivesUp, CanUpdateStatus, Unanswered,
       controllerVars, EventInv, Looks, ResolverWillLook
  <1>11. ~MarkFailedApiError(r, k)
    BY <1>n DEF MarkFailedApiError
  <1>12. QED
    BY <1>3, <1>4, <1>5, <1>6, <1>7, <1>8, <1>9, <1>10, <1>11
       DEF ResolverWork

LEMMA NextAnswers ==
    ASSUME TInv, ResultInv, EventInv, NoAbandonedRequest, "api" \notin FaultKinds,
           [Next]_vars
    PROVE  NoAbandonedRequest'
  <1> SUFFICES ASSUME NEW r \in Resolvers, NEW k \in Requests, Unanswered(r, k)'
               PROVE  ResolverWillLook(r, k)'
    BY DEF NoAbandonedRequest, Unanswered, Matches
  <1>t. /\ r \in ControllerIds /\ r # Core
        /\ resolver \in [Resolvers -> [Requests -> ResolverWorkers]]
        /\ ControllersTypeOK
    BY ControllersAssumption DEF ControllerIds, TInv, TypeOK, ResolverTypeOK
  <1>1. CASE seen'[r][k] < Latest(k)'
    BY <1>1 DEF ResolverWillLook
  <1>2. CASE Latest(k)' = Latest(k) /\ Stored(k)' = Stored(k)
    <2>1. Unanswered(r, k)
      BY <1>2 DEF Unanswered, Present, Matches, Done, IsDone, IsUnknown
    <2>2. ResolverWillLook(r, k)
      BY <2>1 DEF NoAbandonedRequest, Unanswered, Matches
    <2>3. CASE ResolverWork(r, k)
      BY <1>2, <2>1, <2>3, WorkKeepsLooking
    <2>4. CASE ResolverRestart(r)
      BY <2>1, <1>t, <2>4 DEF Enqueues, Unanswered, Present, ResolverRestart,
         Relist, ResolverWillLook, ControllersTypeOK
    <2>5. CASE ~ResolverWork(r, k) /\ ~ResolverRestart(r)
      <3>1. resolver'[r][k] = resolver[r][k]
        <4>1. CASE resolver' = resolver
          BY <4>1
        <4>2. ASSUME NEW q \in Resolvers, NEW j \in Requests, ResolverWork(q, j),
                     ~(q = r /\ j = k)
              PROVE  resolver'[r][k] = resolver[r][k]
          BY <1>t, <4>2, WorkGoes DEF Goto
        <4>3. ASSUME NEW q \in Resolvers, ResolverRestart(q), q # r
              PROVE  resolver'[r][k] = resolver[r][k]
          BY <4>3 DEF ResolverRestart
        <4>4. ASSUME NEW q \in Resolvers, ResolverStep(q)
              PROVE  resolver'[r][k] = resolver[r][k]
          BY <2>5, <4>2, <4>3, <4>4 DEF ResolverStep, ResolverNext
        <4>5. QED
          BY <4>4 DEF Next, EnvironmentStep, CoreStep, vars
      <3>2. CASE Looks(r, k)
        BY ZenonT(60), <2>5, <2>1, <3>2, LooksKept DEF ResolverWork,
           Unanswered, Looks, ResolverWillLook
      <3>3. CASE resolver[r][k].pc # "idle"
        BY <3>1, <3>3 DEF ResolverWillLook
      <3>4. QED
        BY <2>2, <3>2, <3>3 DEF ResolverWillLook, Looks
    <2>6. QED
      BY <2>3, <2>4, <2>5
  <1>3. QED
    BY <1>1, <1>2, <1>t, NewVersion

\* As long as no call to the API server fails, a resolver answers every
\* request with its label, although OnError requeues nothing and MarkFailed
\* gives up on the first conflict.
THEOREM ResolversKeepLooking ==
    ASSUME "api" \notin FaultKinds
    PROVE  Spec => []NoAbandonedRequest
  <1>1. Init => ResultInv /\ EventInv /\ NoAbandonedRequest
    BY InitIdle, InitResult DEF EventInv, NoAbandonedRequest, Present, Stored
  <1>2. TInv /\ ResultInv /\ EventInv /\ NoAbandonedRequest /\ [Next]_vars
          => ResultInv' /\ EventInv' /\ NoAbandonedRequest'
    BY NextResult, NextEvent, NextAnswers
  <1>3. QED
    BY AlwaysTyped, <1>1, <1>2, PTL DEF Spec

-----------------------------------------------------------------------------
(***************************************************************************)
(* Clients: one more user of the system, and what Submit tells them can be *)
(* relied on.                                                              *)
(***************************************************************************)

(***************************************************************************)
(* The requester takes no step that the system would not take by itself.   *)
(***************************************************************************)
LEMMA StepOfSystem ==
    ASSUME [SystemNext]_allVars
    PROVE  [Next]_vars
  BY DEF SubmitCreates, Next, EnvironmentStep, Environment, RequesterNext,
     Observe, Submit, SubmitFindsExisting, SubmitReads, SystemNext, allVars

\* Composed with a client that creates requests through CRDRequester, the
\* system still is the system: every behaviour of the two is a behaviour of
\* the system alone, with all that is proved about it.
THEOREM RequesterIsUser == SystemSpec => Spec
  <1>1. SystemInit => Init
    BY DEF SystemInit
  <1>2. [SystemNext]_allVars => [Next]_vars
    BY StepOfSystem
  <1>3. QED
    BY <1>1, <1>2, PTL DEF SystemSpec, Spec

-----------------------------------------------------------------------------
(***************************************************************************)
(* The client's lister shows versions that were stored, in any of which    *)
(* success comes with a result.                                            *)
(***************************************************************************)
ToldInv ==
    /\ view \in [Requests -> Nat]
    /\ RequesterTypeOK
    /\ AnswerHasResult

LEMMA InitTold ==
    ASSUME SystemInit
    PROVE  ToldInv
  BY DEF SystemInit, Init, ClusterInit, Latest, RequesterInit, ToldInv,
     RequesterTypeOK, AnswerHasResult, NotAsked, Answer

LEMMA ReadRequestSound ==
    ASSUME NEW rr \in Objects, HasResult(rr.status)
    PROVE  /\ ReadRequest(rr) \in [kind : {"inProgress", "failed", "resource"},
                                   data : Resources \cup {NoData}]
           /\ ReadRequest(rr).kind = "resource" => ReadRequest(rr).data # NoData
  BY DEF ReadRequest, HasResult, Answer, RequestInProgress, ResolutionFailed,
     Objects, Statuses

\* The answers a step may leave behind.
LEMMA ToldKept ==
    ASSUME ToldInv, NEW k \in Requests,
           NEW answer \in [kind : {"inProgress", "alreadyExists", "failed",
                                   "resource"},
                           data : Resources \cup {NoData}],
           answer.kind = "resource" => answer.data # NoData,
           Told(k, answer)
    PROVE  /\ told' \in
                [Requests ->
                   [kind : {"notAsked", "inProgress", "alreadyExists", "failed",
                            "resource"},
                    data : Resources \cup {NoData}]]
           /\ AnswerHasResult'
  BY DEF Told, ToldInv, RequesterTypeOK, AnswerHasResult

LEMMA NextTold ==
    ASSUME TInv, ResultInv, ToldInv, [SystemNext]_allVars
    PROVE  ToldInv'
  <1> DEFINE Tells == /\ told' \in
                           [Requests ->
                              [kind : {"notAsked", "inProgress",
                                       "alreadyExists", "failed", "resource"},
                               data : Resources \cup {NoData}]]
                      /\ AnswerHasResult'
  <1>1. Grows
    BY StepOfSystem, NextTyped
  <1>2. CASE view' = view /\ Tells
    BY <1>1, <1>2 DEF ToldInv, RequesterTypeOK, Grows
  <1>3. CASE UNCHANGED requesterVars
    BY <1>3, <1>2 DEF requesterVars, ToldInv, RequesterTypeOK,
       AnswerHasResult
  <1>4. ASSUME NEW k \in Requests, Observe(k)
        PROVE  ToldInv'
    BY <1>4 DEF Observe, vars, clusterVars, Latest, Grows, ToldInv,
       RequesterTypeOK, AnswerHasResult
  <1>5. ASSUME NEW k \in Requests, NEW type \in Types, SubmitCreates(k, type)
        PROVE  ToldInv'
    BY <1>5, <1>2, ToldKept DEF SubmitCreates, RequestInProgress, Answer
  <1>6. ASSUME NEW k \in Requests, SubmitFindsExisting(k)
        PROVE  ToldInv'
    BY <1>6, <1>2, ToldKept DEF SubmitFindsExisting, AlreadyExists, Answer
  <1>7. ASSUME NEW k \in Requests, SubmitReads(k)
        PROVE  ToldInv'
    BY ZenonT(60), <1>7, <1>2, StoredType, ReadRequestSound, ToldKept
       DEF SubmitReads, Listed, ToldInv, RequesterTypeOK, TInv, TypeOK,
       ResultInv, Versions
  <1>8. QED
    BY <1>3, <1>4, <1>5, <1>6, <1>7 DEF SystemNext, RequesterNext, Submit,
       allVars

LEMMA AlwaysTold == SystemSpec => []ToldInv
  <1>1. TInv /\ ResultInv /\ ToldInv /\ [SystemNext]_allVars => ToldInv'
    BY NextTold
  <1>2. SystemInit => ToldInv
    BY InitTold
  <1>3. TInv /\ ResultInv /\ [Next]_vars => ResultInv'
    BY NextResult
  <1>4. Spec => []ResultInv
    BY InitResult, AlwaysTyped, <1>3, PTL DEF Spec
  <1>5. QED
    BY RequesterIsUser, AlwaysTyped, <1>1, <1>2, <1>4, PTL DEF SystemSpec

\* Whenever Submit reports success it returns a result, however stale the
\* lister it reads from is.
THEOREM SuccessIsAnswered == SystemSpec => []AnswerHasResult
  <1>1. ToldInv => AnswerHasResult
    BY DEF ToldInv
  <1>2. QED
    BY AlwaysTold, <1>1, PTL
=============================================================================
