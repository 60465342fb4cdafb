-------------------------- MODULE ResolutionSystem --------------------------
(***************************************************************************)
(* The whole system: users, the API server, the core controller and the    *)
(* resolvers' controllers.                                                 *)
(***************************************************************************)
EXTENDS CoreController, ResolverFramework

vars == <<clusterVars, controllerVars, coreVars, resolver>>

Init ==
    /\ ClusterInit
    /\ ControllersInit
    /\ CoreInit
    /\ ResolverInit

EnvironmentStep ==
    /\ Environment \/ Tick
    /\ UNCHANGED <<controllerVars, coreVars, resolver>>

CoreStep == CoreNext /\ UNCHANGED resolver

ResolverStep(r) == ResolverNext(r) /\ UNCHANGED coreVars

Next ==
    \/ EnvironmentStep
    \/ CoreStep
    \/ \E r \in Resolvers : ResolverStep(r)

Spec == Init /\ [][Next]_vars

TypeOK ==
    /\ ClusterTypeOK
    /\ ControllersTypeOK
    /\ CoreTypeOK
    /\ ResolverTypeOK

\* No informer cache is ahead of the API server.
CacheBehindStore ==
    \A c \in ControllerIds, k \in Requests : seen[c][k] <= Latest(k)

-----------------------------------------------------------------------------
(***************************************************************************)
(* Properties.                                                             *)
(***************************************************************************)
Done(k) == Present(k) /\ IsDone(Stored(k))

Succeeded(k) == Present(k) /\ Stored(k).status.cond.status = "True"

\* Whatever a resolver does - a late patch, MarkFailed after a timeout or an
\* error - it never changes the condition of a request that is done: the
\* copy MarkFailed checks with IsDone is the one its UpdateStatus replaces.
ResolversRespectDone ==
    [][resolver' # resolver =>
         \A k \in Requests :
            Done(k) => /\ Present(k)'
                       /\ Stored(k)'.status.cond = Stored(k).status.cond]_vars

\* A request only succeeds with a result in it: a stale status written by
\* the core never pairs "succeeded" with a status no resolver has filled.
SucceededHasResult ==
    \A k \in Requests : Succeeded(k) => Stored(k).status.data # NoData

\* No request fails with ResolutionTimedOut before the global timeout, no
\* matter how late the decision is written.
TimeoutNotEarly ==
    \A k \in Requests :
        /\ Present(k)
        /\ Stored(k).status.cond.reason = ReasonResolutionTimedOut
        => now - Stored(k).created > Timeout

\* While the core leads, every request that is not done is on its way back
\* to a worker: an event, the queue, a worker at it or the delaying queue.
CoreWillLook(k) ==
    \/ seen[Core][k] < Latest(k)
    \/ k \in queue[Core]
    \/ core[k].pc # "idle"
    \/ delay[k] # NoDelay

NoLostTimeout ==
    leader[Core] = "yes" =>
        \A k \in Requests : Present(k) /\ ~Done(k) => CoreWillLook(k)

\* A resolver answers every request with its label: as long as the request
\* is neither done nor has a result, the resolver has an event to come, the
\* name in its queue, or a worker at it - although OnError never requeues.
ResolverWillLook(r, k) ==
    \/ seen[r][k] < Latest(k)
    \/ k \in queue[r]
    \/ resolver[r][k].pc # "idle"

NoAbandonedRequest ==
    \A r \in Resolvers, k \in Requests :
        /\ Present(k)
        /\ Stored(k).type = Selector[r]
        /\ ~Done(k)
        /\ Stored(k).status.data = NoData
        => ResolverWillLook(r, k)

\* A resolver only works on requests that carry its label, although its
\* Reconcile never looks at labels: only the event filter keeps others out.
WorksOnSelected ==
    \A r \in Resolvers, k \in Requests :
        resolver[r][k].pc # "idle" /\ Present(k) => Stored(k).type = Selector[r]

\* A final condition is final: neither PreProcessReconcile's reset nor a
\* late updateStatus of the core takes a failure or a success back.
DoneIsFinal ==
    [][\A k \in Requests : Done(k) /\ Present(k)' => Done(k)']_vars

\* The core does not remove a result a resolver has written: what
\* updateStatus writes is never older than the result in the store.
NoResultOverwritten ==
    [][\A k \in Requests :
         /\ Present(k)
         /\ Stored(k).status.data # NoData
         /\ Present(k)'
         => Stored(k)'.status.data # NoData]_vars

-----------------------------------------------------------------------------
(***************************************************************************)
(* Liveness.  Time passes and the core's informer, election, delaying      *)
(* queue and workers go on; nothing is assumed of users and resolvers.     *)
(***************************************************************************)
Fairness ==
    /\ WF_vars(Tick /\ UNCHANGED <<controllerVars, coreVars, resolver>>)
    /\ WF_vars(Promote(Core) /\ UNCHANGED <<coreVars, resolver>>)
    /\ WF_vars(PromoteFunc(Core) /\ UNCHANGED <<coreVars, resolver>>)
    /\ \A k \in Requests :
        /\ WF_vars(/\ \E v \in 1 .. Latest(k) : Deliver(Core, k, v)
                   /\ UNCHANGED <<coreVars, resolver>>)
        /\ WF_vars(CoreRequeue(k) /\ UNCHANGED resolver)
        /\ SF_vars(CoreWork(k) /\ UNCHANGED resolver)

FairSpec == Spec /\ Fairness

\* Every request is eventually done for good: resolved, failed by a
\* resolver, or timed out by the core even if no resolver ever answers.
EventuallyDone == \A k \in Requests : <>[](Present(k) => Done(k))
=============================================================================
