------------------------------- MODULE Cluster -------------------------------
(***************************************************************************)
(* The API server, as the controllers use it through the typed client, and *)
(* the wall clock.                                                         *)
(*                                                                         *)
(* history[k] is the sequence of versions request name k has gone through, *)
(* Absent after a deletion.  The position of a version is its              *)
(* resourceVersion, the last one is what Get returns, and a watch delivers *)
(* versions in this order.                                                 *)
(*                                                                         *)
(* The clock is bounded: MaxTime stands for every later time, and a timer  *)
(* that would expire after it expires at it.                               *)
(***************************************************************************)
EXTENDS ResolutionRequest, Sequences

CONSTANTS
    Requests,       \* names of requests
    MaxTime,        \* bound on the clock
    MaxVersion,     \* bound on versions after which nothing new is started
    MaxGeneration,  \* bound on edits of a spec
    AllowDelete,    \* may requests be deleted (and created again)?
    FaultKinds,     \* which faults happen: "api", "restart", "demote"
    MaxFaults       \* how many faults happen

ASSUME ClusterAssumption ==
    /\ MaxTime \in Nat
    /\ MaxVersion \in Nat
    /\ MaxGeneration \in Nat
    /\ MaxFaults \in Nat
    /\ AllowDelete \in BOOLEAN
    /\ FaultKinds \subseteq {"api", "restart", "demote"}
    /\ Absent \notin Objects

VARIABLES
    history,  \* versions of every request
    now,      \* the time
    faults    \* faults that happened so far

clusterVars == <<history, now, faults>>

ClusterTypeOK ==
    /\ history \in [Requests -> Seq(Objects \cup {Absent})]
    /\ now \in 0 .. MaxTime
    /\ faults \in 0 .. MaxFaults

ClusterInit ==
    /\ history = [k \in Requests |-> <<>>]
    /\ now = 0
    /\ faults = 0

-----------------------------------------------------------------------------
\* Version v of request k; version 0 is "never created".
Version(k, v) == IF v = 0 THEN Absent ELSE history[k][v]

Latest(k) == Len(history[k])

\* What a Get from the API server returns.
Stored(k) == Version(k, Latest(k))

Present(k) == Stored(k) # Absent

\* A write that changes nothing makes no new version.
Write(k, obj) ==
    history' = IF obj = Stored(k)
               THEN history
               ELSE [history EXCEPT ![k] = Append(@, obj)]

WithStatus(obj, s) == [obj EXCEPT !.status = s]

\* UpdateStatus of a copy read at version v: refused unless v is current.
CanUpdateStatus(k, v) == Present(k) /\ v = Latest(k)

\* A merge patch of status.data and status.annotations, addressed by name
\* only: it applies to whatever version is current.
PatchData(k, result) ==
    Write(k, WithStatus(Stored(k), [Stored(k).status EXCEPT !.data = result]))

\* A fault of the given kind happens now.
Fault(kind) ==
    /\ kind \in FaultKinds
    /\ faults < MaxFaults
    /\ faults' = faults + 1

\* The time a timer started now for the duration d expires.
Due(d) == IF now + d < MaxTime THEN now + d ELSE MaxTime

-----------------------------------------------------------------------------
(***************************************************************************)
(* The environment: users and time.                                        *)
(***************************************************************************)
NewRequest(type) ==
    [generation |-> 1, created |-> now, type |-> type, status |-> EmptyStatus]

\* A user, or CRDRequester.Submit, creates a request.
Create(k, type) ==
    /\ ~Present(k)
    /\ now + Timeout < MaxTime
    /\ Latest(k) < MaxVersion
    /\ Write(k, NewRequest(type))
    /\ UNCHANGED <<now, faults>>

\* A user changes the parameters in the spec.
EditSpec(k) ==
    /\ Present(k)
    /\ Stored(k).generation < MaxGeneration
    /\ Latest(k) < MaxVersion
    /\ Write(k, [Stored(k) EXCEPT !.generation = @ + 1])
    /\ UNCHANGED <<now, faults>>

Delete(k) ==
    /\ AllowDelete
    /\ Present(k)
    /\ Latest(k) < MaxVersion
    /\ Write(k, Absent)
    /\ UNCHANGED <<now, faults>>

Tick ==
    /\ now < MaxTime
    /\ now' = now + 1
    /\ UNCHANGED <<history, faults>>

Environment ==
    \/ \E k \in Requests, type \in Types : Create(k, type)
    \/ \E k \in Requests : EditSpec(k)
    \/ \E k \in Requests : Delete(k)
=============================================================================
