--------------------------- MODULE CoreController ---------------------------
(***************************************************************************)
(* The core controller: the generated reconciler around ReconcileKind.     *)
(*                                                                         *)
(* A worker computes the desired status from the cached copy in one step   *)
(* and then talks to the API server: an UpdateStatus carrying the cached   *)
(* resourceVersion and, on a conflict, Get and UpdateStatus again, with    *)
(* the SAME desired status.                                                *)
(***************************************************************************)
EXTENDS Controllers

CONSTANT RetrySteps  \* attempts of RetryUpdateConflicts

ASSUME CoreAssumption == RetrySteps \in Nat \ {0}

VARIABLES
    core,  \* core[k]: the worker that reconciles k
    delay  \* delay[k]: when AddAfter will enqueue k again, or NoDelay

coreVars == <<core, delay>>

NoDelay == -1

CoreWorkers ==
    [pc       : {"idle", "update", "get"},
     version  : Nat,        \* resourceVersion of `existing`
     desired  : Statuses,
     attempts : Nat,
     requeue  : Nat \cup {NoRequeue}]

CoreIdle ==
    [pc |-> "idle", version |-> 0, desired |-> EmptyStatus, attempts |-> 0,
     requeue |-> NoRequeue]

CoreTypeOK ==
    /\ core \in [Requests -> CoreWorkers]
    /\ delay \in [Requests -> (0 .. MaxTime) \cup {NoDelay}]

CoreInit ==
    /\ core = [k \in Requests |-> CoreIdle]
    /\ delay = [k \in Requests |-> NoDelay]

-----------------------------------------------------------------------------
CoreBusy == {k \in Requests : core[k].pc # "idle"}

\* Mutant: the delayed name is dropped.
AddAfterDropped(k, d) == delay' = delay

\* workqueue.AddAfter; a name waits once, for the earlier of two times.  A
\* delay of zero is due at once: CoreRequeue is enabled.
AddAfter(k, d) ==
    delay' = IF d = NoRequeue THEN delay
             ELSE [delay EXCEPT ![k] =
                     IF @ # NoDelay /\ @ < Due(d) THEN @ ELSE Due(d)]

\* Reconcile returns: the worker is done with k and the event, if any,
\* asks for k again later.
CoreReturn(k, requeue) ==
    /\ core' = [core EXCEPT ![k] = CoreIdle]
    /\ AddAfter(k, requeue)

\* Reconcile returns an error that is not permanent: AddRateLimited puts k
\* into the delaying queue, from where it comes back some time later.
CoreReturnError(k) ==
    /\ CoreReturn(k, 0)
    /\ UNCHANGED controllerVars

DesiredStatus(rr) ==
    PostProcessReconcile(rr, ReconcileKindStatus(PreProcessReconcile(rr), now))

RequeueEvent(rr) == ReconcileKindEvent(PreProcessReconcile(rr), now)

\* Not the leader, or the request is gone from the cache: nothing to do.
CoreSkip(k) ==
    /\ Dequeue(Core, k, CoreBusy)
    /\ ~IsLeader(Core) \/ Cached(Core, k) = Absent
    /\ UNCHANGED <<coreVars, seen, leader, clusterVars>>

\* Reconciling changed nothing, so updateStatus is not called.
CoreUnchanged(k) ==
    LET original == Cached(Core, k) IN
    /\ Dequeue(Core, k, CoreBusy)
    /\ IsLeader(Core)
    /\ original # Absent
    /\ DesiredStatus(original) = original.status
    /\ CoreReturn(k, RequeueEvent(original))
    /\ UNCHANGED <<seen, leader, clusterVars>>

CoreReconcile(k) ==
    LET original == Cached(Core, k) IN
    /\ Dequeue(Core, k, CoreBusy)
    /\ IsLeader(Core)
    /\ original # Absent
    /\ DesiredStatus(original) # original.status
    /\ core' = [core EXCEPT ![k] =
                  [pc       |-> "update",
                   version  |-> seen[Core][k],
                   desired  |-> DesiredStatus(original),
                   attempts |-> 0,
                   requeue  |-> RequeueEvent(original)]]
    /\ UNCHANGED <<delay, seen, leader, clusterVars>>

\* updateStatus: the API server accepts the desired status.
CoreUpdate(k) ==
    /\ core[k].pc = "update"
    /\ CanUpdateStatus(k, core[k].version)
    /\ Write(k, WithStatus(Stored(k), core[k].desired))
    /\ CoreReturn(k, core[k].requeue)
    /\ UNCHANGED <<controllerVars, now, faults>>

\* updateStatus: a conflict is retried as long as attempts are left.
CoreConflict(k) ==
    /\ core[k].pc = "update"
    /\ Present(k)
    /\ ~CanUpdateStatus(k, core[k].version)
    /\ IF core[k].attempts + 1 < RetrySteps
       THEN /\ core' = [core EXCEPT ![k].pc = "get",
                                    ![k].attempts = @ + 1]
            /\ UNCHANGED <<controllerVars, delay>>
       ELSE CoreReturnError(k)
    /\ UNCHANGED clusterVars

\* The retry's Get: an equal status needs no update.
CoreGet(k) ==
    /\ core[k].pc = "get"
    /\ Present(k)
    /\ IF Stored(k).status = core[k].desired
       THEN CoreReturn(k, core[k].requeue)
       ELSE /\ core' = [core EXCEPT ![k].pc = "update",
                                    ![k].version = Latest(k)]
            /\ UNCHANGED delay
    /\ UNCHANGED <<controllerVars, clusterVars>>

\* The request does not exist any more: an error, but not a conflict.
CoreNotFound(k) ==
    /\ core[k].pc # "idle"
    /\ ~Present(k)
    /\ CoreReturnError(k)
    /\ UNCHANGED clusterVars

\* A call fails; an update may have been applied all the same.
CoreApiError(k) ==
    /\ core[k].pc # "idle"
    /\ Fault("api")
    /\ \/ UNCHANGED history
       \/ /\ core[k].pc = "update"
          /\ CanUpdateStatus(k, core[k].version)
          /\ Write(k, WithStatus(Stored(k), core[k].desired))
    /\ CoreReturnError(k)
    /\ UNCHANGED now

\* The delaying queue hands over a name whose time has come.
CoreRequeue(k) ==
    /\ delay[k] # NoDelay
    /\ delay[k] <= now
    /\ delay' = [delay EXCEPT ![k] = NoDelay]
    /\ queue' = [queue EXCEPT ![Core] = @ \cup {k}]
    /\ UNCHANGED <<core, seen, leader, clusterVars>>

CoreRestart ==
    /\ Relist(Core)
    /\ core' = [k \in Requests |-> CoreIdle]
    /\ delay' = [k \in Requests |-> NoDelay]

CoreWork(k) ==
    \/ CoreSkip(k)
    \/ CoreUnchanged(k)
    \/ CoreReconcile(k)
    \/ CoreUpdate(k)
    \/ CoreConflict(k)
    \/ CoreGet(k)
    \/ CoreNotFound(k)

CoreNext ==
    \/ \E k \in Requests : CoreWork(k) \/ CoreApiError(k) \/ CoreRequeue(k)
    \/ Plumbing(Core) /\ UNCHANGED coreVars
    \/ CoreRestart
=============================================================================
