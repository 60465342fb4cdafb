----------------------- MODULE ResolutionSystemProofs -----------------------
(***************************************************************************)
(* Proofs about ResolutionSystem, for every value of the constants: types, *)
(* and who writes what.                                                    *)
(***************************************************************************)
EXTENDS ResolutionSystem, TLAPS

\* Every leaf may take a minute, so that a slow machine changes nothing.
USE SMTT(60), ZenonT(60)

-----------------------------------------------------------------------------
(***************************************************************************)
(* The pure functions of ResolutionRequest are well typed.                 *)
(***************************************************************************)

\* What ReconcileKind and the code around it make of a request is a status.
LEMMA DesiredStatusType ==
    ASSUME NEW rr \in Objects
    PROVE  DesiredStatus(rr) \in Statuses
  <1>1. PreProcessReconcile(rr) \in Objects
    BY ZenonT(60) DEF PreProcessReconcile, InitializeConditions, Condition,
       Objects, Statuses, Conditions, NewObservedGenFailure
  <1>2. ReconcileKindStatus(PreProcessReconcile(rr), now) \in Statuses
    BY ZenonT(60), <1>1 DEF ReconcileKindStatus, MarkSucceeded, MarkFailed,
       MarkInProgress, Condition, Objects, Statuses, Conditions,
       ReasonResolutionTimedOut, ReasonResolutionInProgress
  <1>3. QED
    BY <1>2 DEF DesiredStatus, PostProcessReconcile, Objects, Statuses

\* The delay ReconcileKind asks for is never negative.
LEMMA RequeueEventType ==
    ASSUME NEW rr \in Objects, now \in Nat
    PROVE  RequeueEvent(rr) \in Nat \cup {NoRequeue}
  BY ConstantsAssumption DEF PreProcessReconcile, Objects, RequeueEvent,
     ReconcileKindEvent, TimedOut, requestDuration, NoRequeue

-----------------------------------------------------------------------------
(***************************************************************************)
(* Versions.  A write appends at most one version and changes no other.    *)
(***************************************************************************)
Versions == Objects \cup {Absent}

LEMMA StoredType ==
    ASSUME ClusterTypeOK, NEW k \in Requests
    PROVE  /\ Latest(k) \in Nat
           /\ \A v \in 0 .. Latest(k) : Version(k, v) \in Versions
           /\ Stored(k) \in Versions
           /\ Present(k) => Stored(k) \in Objects
  BY DEF ClusterTypeOK, Versions, Latest, Version, Stored, Present

LEMMA WriteEffect ==
    ASSUME ClusterTypeOK, NEW k \in Requests, NEW obj \in Versions, Write(k, obj)
    PROVE  /\ history' \in [Requests -> Seq(Versions)]
           /\ \A j \in Requests \ {k} : history'[j] = history[j]
           /\ \/ history' = history
              \/ Latest(k)' = Latest(k) + 1
           /\ \A v \in 0 .. Latest(k) : Version(k, v)' = Version(k, v)
           /\ Stored(k)' = obj
           /\ obj # Stored(k) => Latest(k)' = Latest(k) + 1
  BY DEF ClusterTypeOK, Versions, Write, Latest, Version, Stored

\* Histories only grow.
Grows ==
    /\ history' \in [Requests -> Seq(Versions)]
    /\ \A k \in Requests :
        /\ Latest(k) \in Nat
        /\ Latest(k)' \in Nat
        /\ Latest(k) <= Latest(k)'
        /\ \A v \in 0 .. Latest(k) : Version(k, v)' = Version(k, v)

LEMMA WriteGrows ==
    ASSUME ClusterTypeOK, NEW k \in Requests, NEW obj \in Versions, Write(k, obj)
    PROVE  Grows
  BY WriteEffect, StoredType DEF Latest, Version, Grows

LEMMA SameGrows ==
    ASSUME ClusterTypeOK, history' = history
    PROVE  Grows
  BY DEF Latest, Version, Grows, ClusterTypeOK, Versions

LEMMA GrowsKeepsBounds ==
    ASSUME ControllersTypeOK, CacheBehindStore, Grows, seen' = seen
    PROVE  CacheBehindStore'
  <1> SUFFICES ASSUME NEW c \in ControllerIds, NEW k \in Requests
               PROVE  seen'[c][k] <= Latest(k)'
    BY DEF CacheBehindStore
  <1>1. seen[c][k] \in Nat /\ seen[c][k] <= Latest(k)
    BY DEF CacheBehindStore, ControllersTypeOK
  <1>2. QED
    BY <1>1 DEF Grows

LEMMA CachedType ==
    ASSUME TypeOK, CacheBehindStore, NEW c \in ControllerIds, NEW k \in Requests
    PROVE  Cached(c, k) \in Versions
  BY StoredType DEF TypeOK, ControllersTypeOK, CacheBehindStore, Cached

LEMMA WithStatusType ==
    ASSUME NEW obj \in Objects, NEW s \in Statuses
    PROVE  WithStatus(obj, s) \in Objects
  BY DEF WithStatus, Objects

LEMMA EmptyStatusType == EmptyStatus \in Statuses
  BY DEF EmptyStatus, Statuses, NilCondition, Condition, Conditions

LEMMA DueType ==
    ASSUME ClusterTypeOK, NEW d \in Nat
    PROVE  Due(d) \in 0 .. MaxTime
  BY ClusterAssumption DEF ClusterTypeOK, Due

-----------------------------------------------------------------------------
(***************************************************************************)
(* Type correctness.                                                       *)
(***************************************************************************)
TInv == TypeOK /\ CacheBehindStore

LEMMA EnvironmentTyped ==
    ASSUME TInv, EnvironmentStep
    PROVE  TInv' /\ Grows
  <1> USE DEF TInv, TypeOK
  <1>1. ASSUME NEW k \in Requests, NEW type \in Types, Create(k, type)
        PROVE  Grows /\ now' = now /\ faults' = faults
    <2>1. NewRequest(type) \in Versions
      BY EmptyStatusType DEF NewRequest, Versions, Objects, ClusterTypeOK
    <2>2. QED
      BY <1>1, <2>1, WriteGrows DEF Create
  <1>2. ASSUME NEW k \in Requests, EditSpec(k)
        PROVE  Grows /\ now' = now /\ faults' = faults
    BY <1>2, StoredType, WriteGrows DEF EditSpec, Versions, Objects
  <1>3. ASSUME NEW k \in Requests, Delete(k)
        PROVE  Grows /\ now' = now /\ faults' = faults
    BY <1>3, WriteGrows DEF Delete, Versions
  <1>4. CASE Tick
    BY <1>4, SameGrows, ClusterAssumption, GrowsKeepsBounds DEF Tick,
       ClusterTypeOK, EnvironmentStep, Grows, Versions, controllerVars,
       coreVars, ControllersTypeOK, CoreTypeOK, ResolverTypeOK
  <1>5. CASE Environment
    BY ZenonT(60), <1>1, <1>2, <1>3, <1>5, GrowsKeepsBounds DEF Environment,
       EnvironmentStep, Grows, Versions, ClusterTypeOK, controllerVars,
       coreVars, ControllersTypeOK, CoreTypeOK, ResolverTypeOK
  <1>6. QED
    BY <1>4, <1>5 DEF EnvironmentStep

\* Informer, election and restart of a controller.
LEMMA PlumbingTyped ==
    ASSUME TInv, NEW c \in ControllerIds, Plumbing(c)
    PROVE  ClusterTypeOK' /\ ControllersTypeOK' /\ CacheBehindStore' /\ Grows
  <1> USE DEF TInv, TypeOK
  <1>1. ASSUME NEW k \in Requests, NEW v \in 1 .. Latest(k), Deliver(c, k, v)
        PROVE  ClusterTypeOK' /\ ControllersTypeOK' /\ CacheBehindStore' /\ Grows
    BY <1>1, SameGrows, StoredType DEF Deliver, clusterVars, ClusterTypeOK,
       ControllersTypeOK, Latest, CacheBehindStore
  <1>2. CASE Promote(c)
    BY <1>2, SameGrows, GrowsKeepsBounds DEF Promote, clusterVars,
       ClusterTypeOK, ControllersTypeOK
  <1>3. CASE PromoteFunc(c)
    BY <1>3, SameGrows, GrowsKeepsBounds DEF PromoteFunc, clusterVars,
       ClusterTypeOK, ControllersTypeOK
  <1>4. CASE Demote(c)
    BY <1>4, SameGrows, GrowsKeepsBounds, ClusterAssumption DEF Demote,
       Fault, ClusterTypeOK, ControllersTypeOK
  <1>5. QED
    BY <1>1, <1>2, <1>3, <1>4 DEF Plumbing

LEMMA RelistTyped ==
    ASSUME TInv, NEW c \in ControllerIds, Relist(c)
    PROVE  ClusterTypeOK' /\ ControllersTypeOK' /\ CacheBehindStore' /\ Grows
  BY SameGrows, ClusterAssumption DEF TInv, TypeOK, Relist, Fault,
     ClusterTypeOK, ControllersTypeOK, Latest, CacheBehindStore

-----------------------------------------------------------------------------
\* The core's steps.
LEMMA CoreIdleType == CoreIdle \in CoreWorkers
  BY EmptyStatusType DEF CoreIdle, CoreWorkers

LEMMA AddAfterType ==
    ASSUME ClusterTypeOK, CoreTypeOK, NEW k \in Requests,
           NEW d \in Nat \cup {NoRequeue}, AddAfter(k, d)
    PROVE  delay' \in [Requests -> (0 .. MaxTime) \cup {NoDelay}]
  BY DueType DEF AddAfter, CoreTypeOK

LEMMA CoreReturnTyped ==
    ASSUME ClusterTypeOK, CoreTypeOK, NEW k \in Requests,
           NEW d \in Nat \cup {NoRequeue}, CoreReturn(k, d)
    PROVE  CoreTypeOK'
  BY CoreIdleType, AddAfterType DEF CoreReturn, CoreTypeOK

LEMMA CoreReturnErrorTyped ==
    ASSUME ClusterTypeOK, CoreTypeOK, ControllersTypeOK, NEW k \in Requests,
           CoreReturnError(k)
    PROVE  CoreTypeOK' /\ ControllersTypeOK' /\ seen' = seen
  BY CoreReturnTyped DEF CoreReturnError, controllerVars, ControllersTypeOK

\* Steps that neither write nor move the cache.
LEMMA QuietTyped ==
    ASSUME TInv, UNCHANGED clusterVars, seen' = seen, ControllersTypeOK'
    PROVE  ClusterTypeOK' /\ CacheBehindStore' /\ Grows
  BY SameGrows, GrowsKeepsBounds DEF TInv, TypeOK, clusterVars, ClusterTypeOK

LEMMA DequeueTyped ==
    ASSUME ControllersTypeOK, NEW c \in ControllerIds, NEW k, NEW busy,
           Dequeue(c, k, busy), UNCHANGED <<seen, leader>>
    PROVE  ControllersTypeOK'
  BY DEF Dequeue, ControllersTypeOK

\* A write of the desired status.
LEMMA CoreWriteTyped ==
    ASSUME TInv, NEW k \in Requests, Present(k),
           Write(k, WithStatus(Stored(k), core[k].desired))
    PROVE  Grows
  BY StoredType, WithStatusType, WriteGrows DEF TInv, TypeOK, CoreTypeOK,
     CoreWorkers, Versions

LEMMA CoreTyped ==
    ASSUME TInv, CoreStep
    PROVE  TInv' /\ Grows
  <1> DEFINE P == /\ ClusterTypeOK' /\ ControllersTypeOK' /\ CoreTypeOK'
                  /\ CacheBehindStore' /\ Grows
  <1> USE DEF TInv, TypeOK
  <1>c. Core \in ControllerIds
    BY DEF ControllerIds
  <1>n. now \in Nat
    BY DEF ClusterTypeOK
  <1>1. ASSUME NEW k \in Requests, CoreSkip(k) PROVE P
    BY <1>1, <1>c, DequeueTyped, QuietTyped DEF CoreSkip, coreVars,
       CoreTypeOK
  <1>2. ASSUME NEW k \in Requests, CoreUnchanged(k) PROVE P
    BY ZenonT(60), <1>2, <1>c, <1>n, CachedType, RequeueEventType,
       CoreReturnTyped, DequeueTyped, QuietTyped DEF CoreUnchanged, Versions
  <1>3. ASSUME NEW k \in Requests, CoreReconcile(k) PROVE P
    BY <1>3, <1>c, <1>n, CachedType, RequeueEventType, DesiredStatusType,
       DequeueTyped, QuietTyped DEF CoreReconcile, Versions,
       ControllersTypeOK, CoreTypeOK, CoreWorkers
  <1>4. ASSUME NEW k \in Requests, CoreUpdate(k) PROVE P
    BY ZenonT(60), <1>4, CoreWriteTyped, CoreReturnTyped, GrowsKeepsBounds
       DEF CoreUpdate, CanUpdateStatus, CoreTypeOK, CoreWorkers,
       controllerVars, ControllersTypeOK, ClusterTypeOK, Grows, Versions
  <1>5. ASSUME NEW k \in Requests, CoreConflict(k) PROVE P
    <2>1. CASE core[k].attempts + 1 < RetrySteps
      <3>1. CoreTypeOK'
        BY <1>5, <2>1 DEF CoreConflict, CoreTypeOK, CoreWorkers
      <3>2. QED
        BY <1>5, <2>1, <3>1, QuietTyped DEF CoreConflict, controllerVars,
           ControllersTypeOK
    <2>2. CASE ~(core[k].attempts + 1 < RetrySteps)
      BY <1>5, <2>2, CoreReturnErrorTyped, QuietTyped DEF CoreConflict
    <2>3. QED
      BY <2>1, <2>2
  <1>6. ASSUME NEW k \in Requests, CoreGet(k) PROVE P
    <2>1. CoreTypeOK'
      <3>1. CASE Stored(k).status = core[k].desired
        BY <1>6, <3>1, CoreReturnTyped DEF CoreTypeOK, CoreWorkers, CoreGet
      <3>2. CASE Stored(k).status # core[k].desired
        BY <1>6, <3>2 DEF CoreGet, CoreTypeOK, CoreWorkers
      <3>3. QED
        BY <3>1, <3>2
    <2>2. QED
      BY <1>6, <2>1, QuietTyped DEF CoreGet, controllerVars,
         ControllersTypeOK
  <1>7. ASSUME NEW k \in Requests, CoreNotFound(k) PROVE P
    BY <1>7, CoreReturnErrorTyped, QuietTyped DEF CoreNotFound
  <1>8. ASSUME NEW k \in Requests, CoreApiError(k) PROVE P
    <2>1. Grows
      BY <1>8, SameGrows, CoreWriteTyped DEF CanUpdateStatus, CoreApiError
    <2>2. CoreTypeOK' /\ ControllersTypeOK' /\ seen' = seen
      BY <1>8, CoreReturnErrorTyped DEF CoreApiError
    <2>3. QED
      BY <1>8, <2>1, <2>2, GrowsKeepsBounds, ClusterAssumption
         DEF CoreApiError, Fault, ClusterTypeOK, Grows, Versions
  <1>9. ASSUME NEW k \in Requests, CoreRequeue(k) PROVE P
    BY <1>9, QuietTyped DEF CoreRequeue, CoreTypeOK, ControllersTypeOK,
       ControllerIds
  <1>10. ASSUME Plumbing(Core), UNCHANGED coreVars PROVE P
    BY <1>10, <1>c, PlumbingTyped DEF coreVars, CoreTypeOK
  <1>11. ASSUME CoreRestart PROVE P
    BY <1>11, <1>c, CoreIdleType, RelistTyped DEF CoreRestart, CoreTypeOK
  <1>12. P
    BY <1>1, <1>2, <1>3, <1>4, <1>5, <1>6, <1>7, <1>8, <1>9, <1>10, <1>11
       DEF CoreStep, CoreNext, CoreWork
  <1>13. QED
    BY <1>12 DEF CoreStep, ResolverTypeOK

-----------------------------------------------------------------------------
\* The resolvers' steps.
LEMMA ResolverIdleType == ResolverIdle \in ResolverWorkers
  BY ClusterAssumption DEF ResolverIdle, ResolverWorkers

LEMMA GotoTyped ==
    ASSUME ResolverTypeOK, NEW r \in Resolvers, NEW k \in Requests,
           NEW w \in ResolverWorkers, Goto(r, k, w)
    PROVE  ResolverTypeOK'
  BY DEF Goto, ResolverTypeOK

LEMMA OnErrorTyped ==
    ASSUME ResolverTypeOK, NEW r \in Resolvers, NEW k \in Requests,
           NEW type \in ErrorTypes \ {"Error"}, OnError(r, k, Error(type, ""))
    PROVE  ResolverTypeOK'
  BY ZenonT(60), ResolverIdleType, GotoTyped DEF ReasonError, Error,
     ResolverWorkers, OnError

\* A patch of the data.
LEMMA PatchGrows ==
    ASSUME TInv, NEW r \in Resolvers, NEW k \in Requests, Present(k),
           PatchData(k, resolver[r][k].resource)
    PROVE  Grows
  <1> DEFINE s == [Stored(k).status EXCEPT !.data = resolver[r][k].resource]
  <1>1. Stored(k) \in Objects
    BY StoredType DEF TInv, TypeOK
  <1>2. resolver[r][k].resource \in Resources \cup {NoData}
    BY ZenonT(60) DEF TInv, TypeOK, ResolverTypeOK, ResolverWorkers
  <1>3. s \in Statuses
    BY <1>1, <1>2 DEF Objects, Statuses
  <1>4. WithStatus(Stored(k), s) \in Versions
    BY <1>1, <1>3, WithStatusType DEF Versions
  <1>5. QED
    BY <1>4, WriteGrows DEF PatchData, TInv, TypeOK

\* The update that marks a request as failed.
LEMMA MarkFailedGrows ==
    ASSUME TInv, NEW r \in Resolvers, NEW k \in Requests, Present(k),
           Write(k, WithStatus(Stored(k),
                      MarkFailed(Stored(k).status, resolver[r][k].reason)))
    PROVE  Grows
  <1> DEFINE s == MarkFailed(Stored(k).status, resolver[r][k].reason)
  <1>1. Stored(k) \in Objects
    BY StoredType DEF TInv, TypeOK
  <1>2. resolver[r][k].reason \in {"", ReasonResolutionFailed}
    BY ZenonT(60) DEF TInv, TypeOK, ResolverTypeOK, ResolverWorkers
  <1>3. s \in Statuses
    BY ZenonT(60), <1>1, <1>2 DEF MarkFailed, Condition, Objects, Statuses,
       Conditions
  <1>4. WithStatus(Stored(k), s) \in Versions
    BY <1>1, <1>3, WithStatusType DEF Versions
  <1>5. QED
    BY <1>4, WriteGrows DEF TInv, TypeOK

LEMMA ResolverTyped ==
    ASSUME TInv, NEW r \in Resolvers, ResolverStep(r)
    PROVE  TInv' /\ Grows
  <1> DEFINE P == /\ ClusterTypeOK' /\ ControllersTypeOK' /\ ResolverTypeOK'
                  /\ CacheBehindStore' /\ Grows
             Q == /\ ResolverTypeOK' /\ Grows
                  /\ UNCHANGED controllerVars
                  /\ now' = now /\ faults' \in 0 .. MaxFaults
  <1> USE DEF TInv, TypeOK
  <1>c. r \in ControllerIds
    BY DEF ControllerIds
  <1>q. ASSUME Q PROVE P
    BY <1>q, GrowsKeepsBounds DEF controllerVars, ControllersTypeOK,
       ClusterTypeOK, Grows, Versions
  <1>1. ASSUME NEW k \in Requests, ResolverSkip(r, k) PROVE P
    BY <1>1, <1>c, DequeueTyped, QuietTyped DEF ResolverSkip, ResolverTypeOK
  <1>2. ASSUME NEW k \in Requests, ResolverReconcile(r, k) PROVE P
    BY ZenonT(60), <1>2, <1>c, DueType, ResolverIdleType, ResolverAssumption,
       GotoTyped, DequeueTyped, QuietTyped DEF ResolverWorkers,
       ResolverReconcile
  <1>3. ASSUME NEW k \in Requests, NEW resource \in Resources,
               ResolveReturns(r, k, resource)
        PROVE P
    BY ZenonT(60), <1>3, <1>q, ResolverIdleType, GotoTyped, SameGrows
       DEF ResolverWorkers, ResolveReturns, clusterVars, ClusterTypeOK
  <1>4. ASSUME NEW k \in Requests, ResolveFails(r, k) PROVE P
    BY ZenonT(60), <1>4, <1>q, OnErrorTyped, SameGrows DEF ResolveFails,
       ErrorTypes, clusterVars, ClusterTypeOK
  <1>5. ASSUME NEW k \in Requests, ResolveTimesOut(r, k) PROVE P
    BY ZenonT(60), <1>5, <1>q, OnErrorTyped, SameGrows DEF ResolveTimesOut,
       ErrorTypes, clusterVars, ClusterTypeOK
  <1>6. ASSUME NEW k \in Requests, WriteResolvedData(r, k) PROVE P
    BY <1>6, <1>q, GotoTyped, ResolverIdleType, PatchGrows
       DEF WriteResolvedData, ClusterTypeOK
  <1>7. ASSUME NEW k \in Requests, WriteResolvedDataFails(r, k) PROVE P
    <2>1. ResolverTypeOK'
      BY ZenonT(60), <1>7, OnErrorTyped DEF WriteResolvedDataFails,
         ErrorTypes
    <2>2. Grows
      BY ZenonT(60), <1>7, SameGrows, PatchGrows DEF WriteResolvedDataFails
    <2>3. faults' \in 0 .. MaxFaults
      <3>1. faults' = faults \/ Fault("api")
        BY ZenonT(60), <1>7 DEF WriteResolvedDataFails
      <3>2. QED
        BY <3>1, ClusterAssumption DEF Fault, ClusterTypeOK
    <2>4. Q
      BY ZenonT(60), <1>7, <2>1, <2>2, <2>3 DEF WriteResolvedDataFails
    <2>5. QED
      BY <2>4, <1>q
  <1>8. ASSUME NEW k \in Requests, MarkFailedGet(r, k) PROVE P
    <2>0. resolver[r][k] \in ResolverWorkers /\ Latest(k) \in Nat
      BY StoredType DEF ResolverTypeOK
    <2>1. [resolver[r][k] EXCEPT !.pc = "update", !.version = Latest(k)]
            \in ResolverWorkers
      BY ZenonT(60), <2>0 DEF ResolverWorkers
    <2>2. ResolverTypeOK'
      BY <1>8, <2>1, ResolverIdleType, GotoTyped DEF MarkFailedGet
    <2>3. Q
      BY <1>8, <2>2, SameGrows DEF MarkFailedGet, clusterVars, ClusterTypeOK
    <2>4. QED
      BY <2>3, <1>q
  <1>9. ASSUME NEW k \in Requests, MarkFailedUpdate(r, k) PROVE P
    BY <1>9, <1>q, GotoTyped, ResolverIdleType, MarkFailedGrows
       DEF MarkFailedUpdate, CanUpdateStatus, ClusterTypeOK
  <1>10. ASSUME NEW k \in Requests, MarkFailedGivesUp(r, k) PROVE P
    BY <1>10, <1>q, GotoTyped, ResolverIdleType, SameGrows
       DEF MarkFailedGivesUp, clusterVars, ClusterTypeOK
  <1>11. ASSUME NEW k \in Requests, MarkFailedApiError(r, k) PROVE P
    BY <1>11, <1>q, SameGrows, MarkFailedGrows, ClusterAssumption, GotoTyped,
       ResolverIdleType DEF MarkFailedApiError, CanUpdateStatus, Fault,
       ClusterTypeOK
  <1>12. ASSUME Plumbing(r), UNCHANGED resolver PROVE P
    BY <1>12, <1>c, PlumbingTyped DEF ResolverTypeOK
  <1>13. ASSUME ResolverRestart(r) PROVE P
    BY <1>13, <1>c, ResolverIdleType, RelistTyped DEF ResolverRestart,
       ResolverTypeOK
  <1>14. P
    BY <1>1, <1>2, <1>3, <1>4, <1>5, <1>6, <1>7, <1>8, <1>9, <1>10, <1>11,
       <1>12, <1>13 DEF ResolverStep, ResolverNext, ResolverWork
  <1>15. QED
    BY <1>14 DEF ResolverStep, coreVars, CoreTypeOK

LEMMA InitTyped == Init => TInv
  <1> SUFFICES ASSUME Init PROVE TInv
    OBVIOUS
  <1>1. history = [k \in Requests |-> <<>>] /\ <<>> \in Seq(Objects \cup {Absent})
    BY DEF Init, ClusterInit
  <1>2. ClusterTypeOK
    BY ClusterAssumption DEF Init, ClusterInit, ClusterTypeOK
  <1>3. ControllersTypeOK
    BY DEF Init, ControllersInit, ControllersTypeOK
  <1>4. CoreTypeOK /\ ResolverTypeOK
    BY CoreIdleType, ResolverIdleType DEF Init, CoreInit, ResolverInit,
       CoreTypeOK, ResolverTypeOK
  <1>5. CacheBehindStore
    BY <1>2, StoredType DEF Init, ControllersInit, CacheBehindStore
  <1>6. QED
    BY <1>2, <1>3, <1>4, <1>5 DEF TInv, TypeOK

LEMMA StutterTyped ==
    ASSUME TInv, UNCHANGED vars
    PROVE  TInv' /\ Grows
  BY SameGrows, GrowsKeepsBounds DEF vars, clusterVars, controllerVars,
     coreVars, TInv, TypeOK, ClusterTypeOK, ControllersTypeOK, CoreTypeOK,
     ResolverTypeOK

LEMMA NextTyped ==
    ASSUME TInv, [Next]_vars
    PROVE  TInv' /\ Grows
  BY EnvironmentTyped, CoreTyped, ResolverTyped, StutterTyped DEF Next

LEMMA AlwaysTyped == Spec => []TInv
  <1>1. TInv /\ [Next]_vars => TInv'
    BY NextTyped
  <1>2. QED
    BY InitTyped, <1>1, PTL DEF Spec

\* Every variable of the system keeps its type: in particular a requeue
\* delay is never negative, and every status the core writes is well formed.
THEOREM TypeCorrect == Spec => []TypeOK
  <1>1. TInv => TypeOK
    BY DEF TInv
  <1>2. QED
    BY AlwaysTyped, <1>1, PTL

-----------------------------------------------------------------------------
(***************************************************************************)
(* What one step can do: who writes, and where a worker can be next.       *)
(***************************************************************************)
CoreWrites(k) ==
    /\ core[k].pc = "update"
    /\ CanUpdateStatus(k, core[k].version)
    /\ Write(k, WithStatus(Stored(k), core[k].desired))

Patches(r, k) ==
    /\ resolver[r][k].pc = "patch"
    /\ Present(k)
    /\ PatchData(k, resolver[r][k].resource)

Fails(r, k) ==
    /\ resolver[r][k].pc = "update"
    /\ CanUpdateStatus(k, resolver[r][k].version)
    /\ Write(k, WithStatus(Stored(k),
                  MarkFailed(Stored(k).status, resolver[r][k].reason)))

UserWrites(k) == (\E type \in Types : Create(k, type)) \/ EditSpec(k) \/ Delete(k)

\* Every version is written by a user, by the core's updateStatus, or by a
\* resolver's writeResolvedData or MarkFailed.
LEMMA Writers ==
    ASSUME [Next]_vars
    PROVE  \/ history' = history
           \/ /\ seen' = seen /\ resolver' = resolver
              /\ \E k \in Requests : UserWrites(k) \/ CoreWrites(k)
           \/ /\ seen' = seen
              /\ \E r \in Resolvers, k \in Requests : Patches(r, k) \/ Fails(r, k)
  <1>1. CASE EnvironmentStep
    BY <1>1 DEF EnvironmentStep, Environment, Tick, UserWrites,
       controllerVars
  <1>2. ASSUME NEW c, Plumbing(c) \/ Relist(c) PROVE history' = history
    BY <1>2 DEF Plumbing, Deliver, Promote, PromoteFunc, Demote, Relist,
       clusterVars
  <1>3. CASE CoreStep
    <2>1. ASSUME NEW k \in Requests, CoreWork(k) \/ CoreApiError(k) \/ CoreRequeue(k)
          PROVE  history' = history \/ (CoreWrites(k) /\ seen' = seen)
      BY <2>1 DEF CoreWork, CoreApiError, CoreRequeue, CoreSkip,
         CoreUnchanged, CoreReconcile, CoreUpdate, CoreConflict, CoreGet,
         CoreNotFound, CoreReturnError, CoreWrites, clusterVars,
         controllerVars
    <2>2. CASE CoreRestart
      BY <2>2, <1>2 DEF CoreRestart
    <2>3. QED
      BY <1>2, <1>3, <2>1, <2>2 DEF CoreStep, CoreNext
  <1>4. ASSUME NEW r \in Resolvers, ResolverStep(r)
        PROVE  \/ history' = history
               \/ seen' = seen /\ \E k \in Requests : Patches(r, k) \/ Fails(r, k)
    <2>1. ASSUME NEW k \in Requests, ResolverWork(r, k)
          PROVE  history' = history \/ (seen' = seen /\ (Patches(r, k) \/ Fails(r, k)))
      BY ZenonT(60), <2>1 DEF ResolverWork, ResolverSkip, ResolverReconcile,
         ResolveReturns, ResolveFails, ResolveTimesOut, WriteResolvedData,
         WriteResolvedDataFails, MarkFailedGet, MarkFailedUpdate,
         MarkFailedGivesUp, MarkFailedApiError, Patches, Fails, clusterVars,
         controllerVars
    <2>2. CASE ResolverRestart(r)
      BY <2>2, <1>2 DEF ResolverRestart
    <2>3. QED
      BY <1>2, <1>4, <2>1, <2>2 DEF ResolverStep, ResolverNext
  <1>5. CASE UNCHANGED vars
    BY <1>5 DEF vars, clusterVars
  <1>6. QED
    BY <1>1, <1>3, <1>4, <1>5 DEF Next

\* A core worker that is not idle goes on with what it decided, or has
\* just decided.
LEMMA CoreWorkerStep ==
    ASSUME TInv, [Next]_vars, NEW k \in Requests, core'[k].pc # "idle"
    PROVE  \/ CoreReconcile(k)
           \/ /\ core[k].pc # "idle"
              /\ core'[k].desired = core[k].desired
              /\ core'[k].requeue = core[k].requeue
  <1> DEFINE G == \/ CoreReconcile(k)
                  \/ /\ core[k].pc # "idle"
                     /\ core'[k].desired = core[k].desired
                     /\ core'[k].requeue = core[k].requeue
  <1>t. core \in [Requests -> CoreWorkers] /\ core[k] \in CoreWorkers
    BY DEF TInv, TypeOK, CoreTypeOK
  <1>1. CASE core' = core
    BY <1>1
  <1>2. ASSUME NEW j \in Requests, NEW d, CoreReturn(j, d) PROVE G
    BY <1>2 DEF CoreReturn, CoreIdle
  <1>3. ASSUME NEW j \in Requests, CoreReturnError(j) PROVE G
    BY <1>2, <1>3 DEF CoreReturnError
  <1>4. ASSUME NEW j \in Requests, CoreReconcile(j) PROVE G
    BY ZenonT(60), <1>4, <1>t DEF CoreReconcile
  <1>5. ASSUME NEW j \in Requests, CoreConflict(j) PROVE G
    BY <1>5, <1>t, <1>3 DEF CoreConflict, CoreWorkers
  <1>6. ASSUME NEW j \in Requests, CoreGet(j) PROVE G
    <2>1. CASE Stored(j).status = core[j].desired
      BY <1>6, <2>1, <1>2 DEF CoreGet
    <2>2. CASE Stored(j).status # core[j].desired
      BY <1>6, <1>t, <2>2 DEF CoreGet, CoreWorkers
    <2>3. QED
      BY <2>1, <2>2
  <1>7. ASSUME NEW j \in Requests, CoreWork(j) \/ CoreApiError(j) \/ CoreRequeue(j)
        PROVE  G
    BY ZenonT(60), <1>2, <1>3, <1>4, <1>5, <1>6, <1>7 DEF CoreSkip, coreVars,
       CoreUnchanged, CoreUpdate, CoreNotFound, CoreApiError, CoreRequeue,
       CoreWork
  <1>8. CASE CoreRestart
    BY <1>8 DEF CoreRestart, CoreIdle
  <1>9. CASE CoreStep
    BY <1>7, <1>8, <1>9 DEF CoreStep, CoreNext, coreVars
  <1>10. QED
    BY <1>9 DEF Next, EnvironmentStep, ResolverStep, vars, coreVars

\* A resolver's worker that patches has a resource from Resolve, and one
\* that updates has just fetched a version that is not done.
LEMMA ResolverWorkerStep ==
    ASSUME TInv, [Next]_vars, NEW r \in Resolvers, NEW k \in Requests
    PROVE  /\ resolver'[r][k].pc = "patch" =>
                 \/ resolver'[r][k].resource \in Resources
                 \/ resolver'[r][k] = resolver[r][k]
           /\ resolver'[r][k].pc = "update" =>
                 \/ /\ MarkFailedGet(r, k)
                    /\ ~IsDone(Stored(k))
                    /\ resolver'[r][k].version = Latest(k)
                 \/ resolver'[r][k] = resolver[r][k]
  <1> DEFINE G == /\ resolver'[r][k].pc = "patch" =>
                        \/ resolver'[r][k].resource \in Resources
                        \/ resolver'[r][k] = resolver[r][k]
                  /\ resolver'[r][k].pc = "update" =>
                        \/ /\ MarkFailedGet(r, k)
                           /\ ~IsDone(Stored(k))
                           /\ resolver'[r][k].version = Latest(k)
                        \/ resolver'[r][k] = resolver[r][k]
  <1>t. resolver \in [Resolvers -> [Requests -> ResolverWorkers]]
    BY DEF TInv, TypeOK, ResolverTypeOK
  <1>1. CASE resolver' = resolver
    BY <1>1
  <1>2. ASSUME NEW q \in Resolvers, NEW j \in Requests, NEW w, Goto(q, j, w),
               w.pc \notin {"patch", "update"}
        PROVE  G
    BY <1>2 DEF Goto
  <1>3. ASSUME NEW q \in Resolvers, NEW j \in Requests, NEW err, OnError(q, j, err)
        PROVE  G
    BY ZenonT(60), <1>2, <1>3 DEF ResolverIdle, OnError
  <1>4. ASSUME NEW q \in Resolvers, NEW j \in Requests, Goto(q, j, ResolverIdle)
        PROVE  G
    BY ZenonT(60), <1>2, <1>4 DEF ResolverIdle
  <1>5. ASSUME NEW q \in Resolvers, NEW j \in Requests, ResolverReconcile(q, j)
        PROVE  G
    BY ZenonT(60), <1>2, <1>5 DEF ResolverIdle, ResolverReconcile
  <1>6. ASSUME NEW q \in Resolvers, NEW j \in Requests, NEW resource \in Resources,
               ResolveReturns(q, j, resource)
        PROVE  G
    <2> DEFINE w == [ResolverIdle EXCEPT !.pc = "patch", !.resource = resource]
    <2>1. w.pc = "patch" /\ w.resource \in Resources
      BY DEF ResolverIdle
    <2>2. resolver' = [resolver EXCEPT ![q][j] = w]
      BY <1>6 DEF ResolveReturns, Goto
    <2> HIDE DEF w
    <2>3. QED
      BY <2>1, <2>2
  <1>7. ASSUME NEW q \in Resolvers, NEW j \in Requests, MarkFailedGet(q, j)
        PROVE  G
    <2>1. CASE IsDone(Stored(j))
      BY <1>4, <1>7, <2>1 DEF MarkFailedGet
    <2>2. CASE ~IsDone(Stored(j))
      <3> DEFINE w == [resolver[q][j] EXCEPT !.pc = "update", !.version = Latest(j)]
      <3>0. resolver[q][j] \in ResolverWorkers
        BY <1>t
      <3>1. w.pc = "update" /\ w.version = Latest(j)
        BY ZenonT(60), <3>0 DEF ResolverWorkers
      <3>2. resolver' = [resolver EXCEPT ![q][j] = w]
        BY <1>7, <2>2 DEF MarkFailedGet, Goto
      <3> HIDE DEF w
      <3>3. CASE q = r /\ j = k
        BY <1>7, <2>2, <3>1, <3>2
      <3>4. CASE ~(q = r /\ j = k)
        BY <3>2, <3>4
      <3>5. QED
        BY <3>3, <3>4
    <2>3. QED
      BY <2>1, <2>2
  <1>8. ASSUME NEW q \in Resolvers, NEW j \in Requests, ResolverWork(q, j)
        PROVE  G
    BY ZenonT(60), <1>3, <1>4, <1>5, <1>6, <1>7, <1>8 DEF ResolverSkip,
       ResolveFails, ResolveTimesOut, WriteResolvedData,
       WriteResolvedDataFails, MarkFailedUpdate, MarkFailedGivesUp,
       MarkFailedApiError, ResolverWork
  <1>9. ASSUME NEW q \in Resolvers, ResolverRestart(q) PROVE G
    BY ZenonT(60), <1>9, <1>t DEF ResolverRestart, ResolverIdle
  <1>10. ASSUME NEW q \in Resolvers, ResolverStep(q) PROVE G
    BY ZenonT(60), <1>8, <1>9, <1>10 DEF ResolverStep, ResolverNext
  <1>11. QED
    BY <1>10 DEF Next, EnvironmentStep, CoreStep, vars
=============================================================================
