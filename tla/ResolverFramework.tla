-------------------------- MODULE ResolverFramework --------------------------
(***************************************************************************)
(* The resolver framework: Reconcile, resolve, OnError, MarkFailed and     *)
(* writeResolvedData of every resolver's controller.                       *)
(***************************************************************************)
EXTENDS Controllers

CONSTANT ResolverTimeout  \* how long a call of Resolve may take

ASSUME ResolverAssumption == ResolverTimeout \in Nat

VARIABLE resolver  \* resolver[r][k]: the worker of r that reconciles k

ResolverWorkers ==
    [pc       : {"idle", "resolve", "patch", "getLatest", "update"},
     deadline : 0 .. MaxTime,               \* of resolutionCtx
     resource : Resources \cup {NoData},    \* what Resolve returned
     reason   : {"", ReasonResolutionFailed},
     version  : Nat]            \* resourceVersion of latestGeneration

ResolverIdle ==
    [pc |-> "idle", deadline |-> 0, resource |-> NoData, reason |-> "",
     version |-> 0]

ResolverTypeOK == resolver \in [Resolvers -> [Requests -> ResolverWorkers]]

ResolverInit ==
    resolver = [r \in Resolvers |-> [k \in Requests |-> ResolverIdle]]

-----------------------------------------------------------------------------
ResolverBusy(r) == {k \in Requests : resolver[r][k].pc # "idle"}

Goto(r, k, worker) == resolver' = [resolver EXCEPT ![r][k] = worker]

\* OnError starts MarkFailed, whose outcome it ignores.
OnError(r, k, err) ==
    Goto(r, k, [ResolverIdle EXCEPT !.pc = "getLatest",
                                    !.reason = ReasonError(err)])

\* Mutant: a request the core has marked in progress counts as started.
NeedsWorkNotStarted(rr) == rr # Absent /\ rr.status.cond.status = "nil"

\* Reconcile's early returns: a request that is not in the cache (an error,
\* but a permanent one) or that is done.
NeedsWork(rr) == rr # Absent /\ ~IsDone(rr)

ResolverSkip(r, k) ==
    /\ Dequeue(r, k, ResolverBusy(r))
    /\ ~NeedsWork(Cached(r, k))
    /\ UNCHANGED <<resolver, seen, leader, clusterVars>>

\* Neither leadership nor the selector is looked at.
ResolverReconcile(r, k) ==
    /\ Latest(k) < MaxVersion
    /\ Dequeue(r, k, ResolverBusy(r))
    /\ NeedsWork(Cached(r, k))
    /\ Goto(r, k, [ResolverIdle EXCEPT !.pc = "resolve",
                                       !.deadline = Due(ResolverTimeout)])
    /\ UNCHANGED <<seen, leader, clusterVars>>

\* Resolve returns a resource.  The deadline does not matter: a select that
\* finds both the resource and the expired context picks either.
ResolveReturns(r, k, resource) ==
    /\ resolver[r][k].pc = "resolve"
    /\ Goto(r, k, [ResolverIdle EXCEPT !.pc = "patch", !.resource = resource])
    /\ UNCHANGED <<controllerVars, clusterVars>>

\* ValidateParams or Resolve returns an error; both are wrapped.
ResolveFails(r, k) ==
    /\ resolver[r][k].pc = "resolve"
    /\ \E type \in {"ErrorInvalidRequest", "ErrorGettingResource"} :
         OnError(r, k, Error(type, ""))
    /\ UNCHANGED <<controllerVars, clusterVars>>

ResolveTimesOut(r, k) ==
    /\ resolver[r][k].pc = "resolve"
    /\ resolver[r][k].deadline <= now
    /\ OnError(r, k, Error("DeadlineExceeded", ""))
    /\ UNCHANGED <<controllerVars, clusterVars>>

\* writeResolvedData: the patch needs no version and looks at no condition.
WriteResolvedData(r, k) ==
    /\ resolver[r][k].pc = "patch"
    /\ Present(k)
    /\ PatchData(k, resolver[r][k].resource)
    /\ Goto(r, k, ResolverIdle)
    /\ UNCHANGED <<controllerVars, now, faults>>

\* The patch fails: the request is gone, or the call fails (and may have
\* been applied all the same).
WriteResolvedDataFails(r, k) ==
    /\ resolver[r][k].pc = "patch"
    /\ \/ ~Present(k) /\ UNCHANGED <<history, faults>>
       \/ Fault("api") /\ UNCHANGED history
       \/ Fault("api") /\ Present(k) /\ PatchData(k, resolver[r][k].resource)
    /\ OnError(r, k, Error("ErrorUpdatingRequest", ""))
    /\ UNCHANGED <<controllerVars, now>>

\* Mutant: MarkFailed does not look at IsDone.
MarkFailedGetUnchecked(r, k) ==
    /\ resolver[r][k].pc = "getLatest"
    /\ Present(k)
    /\ Goto(r, k, [resolver[r][k] EXCEPT !.pc = "update",
                                         !.version = Latest(k)])
    /\ UNCHANGED <<controllerVars, clusterVars>>

\* MarkFailed: fetch the latest version; one that is done is left alone.
MarkFailedGet(r, k) ==
    /\ resolver[r][k].pc = "getLatest"
    /\ Present(k)
    /\ Goto(r, k, IF IsDone(Stored(k))
                  THEN ResolverIdle
                  ELSE [resolver[r][k] EXCEPT !.pc = "update",
                                              !.version = Latest(k)])
    /\ UNCHANGED <<controllerVars, clusterVars>>

\* Mutant: the update does not carry the version that was checked.
MarkFailedUpdateBlind(r, k) ==
    /\ resolver[r][k].pc = "update"
    /\ Present(k)
    /\ Write(k, WithStatus(Stored(k),
                  MarkFailed(Stored(k).status, resolver[r][k].reason)))
    /\ Goto(r, k, ResolverIdle)
    /\ UNCHANGED <<controllerVars, now, faults>>

\* MarkFailed: UpdateStatus with the version just fetched.
MarkFailedUpdate(r, k) ==
    /\ resolver[r][k].pc = "update"
    /\ CanUpdateStatus(k, resolver[r][k].version)
    /\ Write(k, WithStatus(Stored(k),
                  MarkFailed(Stored(k).status, resolver[r][k].reason)))
    /\ Goto(r, k, ResolverIdle)
    /\ UNCHANGED <<controllerVars, now, faults>>

\* MarkFailed gives up on any error, a conflict included, and OnError turns
\* it into a permanent error: the name is not queued again.
MarkFailedGivesUp(r, k) ==
    /\ \/ resolver[r][k].pc = "getLatest" /\ ~Present(k)
       \/ /\ resolver[r][k].pc = "update"
          /\ ~CanUpdateStatus(k, resolver[r][k].version)
    /\ Goto(r, k, ResolverIdle)
    /\ UNCHANGED <<controllerVars, clusterVars>>

\* The same for a call that fails, applied or not.
MarkFailedApiError(r, k) ==
    /\ resolver[r][k].pc \in {"getLatest", "update"}
    /\ Fault("api")
    /\ \/ UNCHANGED history
       \/ /\ resolver[r][k].pc = "update"
          /\ CanUpdateStatus(k, resolver[r][k].version)
          /\ Write(k, WithStatus(Stored(k),
                        MarkFailed(Stored(k).status, resolver[r][k].reason)))
    /\ Goto(r, k, ResolverIdle)
    /\ UNCHANGED <<controllerVars, now>>

ResolverRestart(r) ==
    /\ Relist(r)
    /\ resolver' = [resolver EXCEPT ![r] = [k \in Requests |-> ResolverIdle]]

ResolverWork(r, k) ==
    \/ ResolverSkip(r, k)
    \/ ResolverReconcile(r, k)
    \/ \E resource \in Resources : ResolveReturns(r, k, resource)
    \/ ResolveFails(r, k)
    \/ ResolveTimesOut(r, k)
    \/ WriteResolvedData(r, k)
    \/ WriteResolvedDataFails(r, k)
    \/ MarkFailedGet(r, k)
    \/ MarkFailedUpdate(r, k)
    \/ MarkFailedGivesUp(r, k)
    \/ MarkFailedApiError(r, k)

ResolverNext(r) ==
    \/ \E k \in Requests : ResolverWork(r, k)
    \/ Plumbing(r) /\ UNCHANGED resolver
    \/ ResolverRestart(r)
=============================================================================
