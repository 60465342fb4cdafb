----------------------------- MODULE Controllers -----------------------------
(***************************************************************************)
(* What every controller process has in common: an informer whose cache    *)
(* lags behind the API server, a work queue of request names, and leader   *)
(* election.  The controllers are the core controller and one per resolver.*)
(***************************************************************************)
EXTENDS Cluster, FiniteSets

CONSTANTS
    Core,      \* the core ResolutionRequest controller
    Resolvers, \* the resolvers' controllers
    Selector,  \* Selector[r]: the type label resolver r asks for
    Threads,   \* DefaultThreadsPerController
    Repeats    \* may a name that is handed out stay queued?  {FALSE} keeps
               \* the instance small, BOOLEAN is what the queue does

ASSUME ControllersAssumption ==
    /\ Core \notin Resolvers
    /\ Selector \in [Resolvers -> Types]
    /\ Threads \in Nat \ {0}
    /\ Repeats \subseteq BOOLEAN

ControllerIds == {Core} \cup Resolvers

VARIABLES
    seen,   \* seen[c][k]: the version of k in the informer cache of c
    queue,  \* queue[c]: the names waiting in the work queue of c
    leader  \* leader[c]: "no", "promoting" (leader, requeue not done), "yes"

controllerVars == <<seen, queue, leader>>

ControllersTypeOK ==
    /\ seen \in [ControllerIds -> [Requests -> Nat]]
    /\ queue \in [ControllerIds -> SUBSET Requests]
    /\ leader \in [ControllerIds -> {"no", "promoting", "yes"}]

ControllersInit ==
    /\ seen = [c \in ControllerIds |-> [k \in Requests |-> 0]]
    /\ queue = [c \in ControllerIds |-> {}]
    /\ leader = [c \in ControllerIds |-> "yes"]

-----------------------------------------------------------------------------
Cached(c, k) == Version(k, seen[c][k])

\* Mutant: the filter lets every labelled request through.
MatchesAny(r, rr) == rr.type \in Types

\* filterResolutionRequestsBySelector
Matches(r, rr) == rr.type = Selector[r]

\* Mutant: a resolver handles additions only.
EnqueuesAdditions(c, old, new) ==
    IF c = Core
    THEN old # Absent \/ new # Absent
    ELSE old = Absent /\ new # Absent /\ Matches(c, new)

\* Does the event handler of c enqueue the request when the cached copy
\* changes from old to new?  The core handles every event, a resolver the
\* additions and updates of requests with its label.
Enqueues(c, old, new) ==
    IF c = Core
    THEN old # Absent \/ new # Absent
    ELSE new # Absent /\ Matches(c, new)

\* The informer of c receives version v of k.  Events come in order; a
\* watch that had to list again skips versions.
Deliver(c, k, v) ==
    /\ seen[c][k] < v
    /\ v <= Latest(k)
    /\ seen' = [seen EXCEPT ![c][k] = v]
    /\ queue' = [queue EXCEPT ![c] =
                    IF Enqueues(c, Cached(c, k), Version(k, v))
                    THEN @ \cup {k} ELSE @]
    /\ UNCHANGED <<leader, clusterVars>>

\* A name is handed to a worker: busy are the names workers are at.  A
\* second event for it may be on its way through the queue's lanes at that
\* moment, and then the name stays queued (see TwoLaneQueue).
Dequeue(c, k, busy) ==
    /\ k \in queue[c]
    /\ k \notin busy
    /\ Cardinality(busy) < Threads
    /\ \E again \in Repeats :
         queue' = [queue EXCEPT ![c] = IF again THEN @ ELSE @ \ {k}]

\* LeaderAwareFuncs.IsLeaderFor
IsLeader(c) == leader[c] # "no"

\* Mutant: nothing is enqueued on promotion.
PromoteOnly(c) ==
    /\ leader[c] = "no"
    /\ leader' = [leader EXCEPT ![c] = "yes"]
    /\ UNCHANGED <<seen, queue, clusterVars>>

\* LeaderAwareFuncs.Promote, first half: the bucket is recorded, and from
\* here on IsLeaderFor is true.
Promote(c) ==
    /\ leader[c] = "no"
    /\ leader' = [leader EXCEPT ![c] = "promoting"]
    /\ UNCHANGED <<seen, queue, clusterVars>>

\* Second half, PromoteFunc: every request in the cache is enqueued,
\* whatever its label.
PromoteFunc(c) ==
    /\ leader[c] = "promoting"
    /\ leader' = [leader EXCEPT ![c] = "yes"]
    /\ queue' = [queue EXCEPT ![c] =
                    @ \cup {k \in Requests : Cached(c, k) # Absent}]
    /\ UNCHANGED <<seen, clusterVars>>

\* The lease is lost; the elector will run for it again.
Demote(c) ==
    /\ IsLeader(c)
    /\ Fault("demote")
    /\ leader' = [leader EXCEPT ![c] = "no"]
    /\ UNCHANGED <<seen, queue, history, now>>

\* The process of c restarts: its informer lists every request and
\* announces those that exist before the workers start.
Relist(c) ==
    /\ Fault("restart")
    /\ seen' = [seen EXCEPT ![c] = [k \in Requests |-> Latest(k)]]
    /\ queue' = [queue EXCEPT ![c] =
                    {k \in Requests : Enqueues(c, Absent, Stored(k))}]
    /\ leader' = [leader EXCEPT ![c] = "no"]
    /\ UNCHANGED <<history, now>>

Plumbing(c) ==
    \/ \E k \in Requests : \E v \in 1 .. Latest(k) : Deliver(c, k, v)
    \/ Promote(c)
    \/ PromoteFunc(c)
    \/ Demote(c)
=============================================================================
