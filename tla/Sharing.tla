------------------------------- MODULE Sharing -------------------------------
(***************************************************************************)
(* Who may write to which memory.  A lister returns the object that the    *)
(* informer's cache holds, a Go map is a reference, and assigning a struct *)
(* copies the references in it: the code of the repository relies on       *)
(* copies in the right places.  This module gives every struct, map and    *)
(* slice that is passed around a cell, and follows the references that     *)
(* the goroutines of a process keep, for one request: those of the core's  *)
(* reconciler, of resolutions that may outlive the reconcile that started  *)
(* them, of the code that submitted the request, and of the configuration. *)
(* A cell that nobody refers to is free.                                   *)
(***************************************************************************)
EXTENDS Naturals, FiniteSets

CONSTANTS
    Resolutions,  \* goroutines that may run in Resolve at a time
    MaxEvents,    \* bound on what the informers see
    None          \* nil

VARIABLES
    cache,       \* the request in the informer's cache
    configMap,   \* the data of the ConfigMap in its informer's cache
    store,       \* the map in the untyped store, None before it is loaded
    watches,     \* does the resolver have a ConfigMap of its own?
    core,        \* where the core's reconcile is, and its objects
    resolution,  \* resolution[g]: what goroutine g refers to, or None
    caller,      \* the params of the caller's request
    resource,    \* the object behind the caller's ResolvedResource, or None
    annotations, \* what Annotations returned to the caller last, or None
    events       \* watch events so far

vars == <<cache, configMap, store, watches, core, resolution, caller,
          resource, annotations, events>>

\* A ResolutionRequest has three cells: the struct, Spec.Parameters, and the
\* conditions and annotations of its status.  The other maps are those of a
\* configuration, of a caller's params and of its annotations.
Kinds == {"self", "params", "status", "conf", "map"}

Cells(kind) == {kind} \X Nat

Objects ==
    [self : Cells("self"), params : Cells("params"), status : Cells("status")]

ASSUME SharingAssumption ==
    /\ IsFiniteSet(Resolutions)
    /\ Resolutions \cap {"informers", "core", "caller"} = {}
    /\ MaxEvents \in Nat
    /\ None \notin Objects

CellsOf(rr) == IF rr = None THEN {} ELSE {rr.self, rr.params, rr.status}

Idle == [at |-> "idle", original |-> None, resource |-> None, existing |-> None]

TypeOK ==
    /\ cache \in Objects
    /\ configMap \in Cells("conf")
    /\ store \in Cells("conf") \cup {None}
    /\ watches \in BOOLEAN
    /\ core \in [at : {"idle", "reconcile", "update"},
                 original : Objects \cup {None},
                 resource : Objects \cup {None},
                 existing : Objects \cup {None}]
    /\ resolution \in
         [Resolutions ->
            [params : Cells("params"), conf : Cells("conf")] \cup {None}]
    /\ caller \in Cells("map")
    /\ resource \in Objects \cup {None}
    /\ annotations \in Cells("map") \cup {None}
    /\ events \in 0 .. MaxEvents

-----------------------------------------------------------------------------
(***************************************************************************)
(* References.                                                             *)
(***************************************************************************)
Actors == {"informers", "core", "caller"} \cup Resolutions

\* The cells an actor may read from now on.
Reach(a) ==
    CASE a = "informers" -> CellsOf(cache) \cup ({configMap, store} \ {None})
      [] a = "core" -> CellsOf(core.original) \cup CellsOf(core.resource)
                         \cup CellsOf(core.existing)
      [] a = "caller" -> CellsOf(resource) \cup ({caller, annotations} \ {None})
      [] OTHER -> IF resolution[a] = None THEN {}
                  ELSE {resolution[a].params, resolution[a].conf}

\* The cells an actor takes to be its own, and may write.
Owned(a) ==
    CASE a = "informers" -> {}
      [] a = "core" ->
           CellsOf(core.resource)
             \cup (IF core.existing = None THEN {} ELSE {core.existing.self})
      [] a = "caller" -> {caller, annotations} \ {None}
      [] OTHER -> IF resolution[a] = None THEN {} ELSE {resolution[a].conf}

InUse == UNION {Reach(a) : a \in Actors}

New(kind) ==
    <<kind, CHOOSE n \in 1 .. Cardinality(InUse) + 1 : <<kind, n>> \notin InUse>>

NewObject ==
    [self |-> New("self"), params |-> New("params"), status |-> New("status")]

-----------------------------------------------------------------------------
Init ==
    /\ cache = [self |-> <<"self", 1>>, params |-> <<"params", 1>>,
                status |-> <<"status", 1>>]
    /\ configMap = <<"conf", 1>>
    /\ store = None
    /\ watches \in BOOLEAN
    /\ core = Idle
    /\ resolution = [g \in Resolutions |-> None]
    /\ caller = <<"map", 1>>
    /\ resource = None
    /\ annotations = None
    /\ events = 0

\* A watch event: the informer replaces the object by one it decoded.
RequestChanges ==
    /\ events < MaxEvents
    /\ events' = events + 1
    /\ cache' = NewObject
    /\ UNCHANGED <<configMap, store, watches, core, resolution, caller,
                   resource, annotations>>

ConfigMapChanges ==
    /\ events < MaxEvents
    /\ events' = events + 1
    /\ configMap' = New("conf")
    /\ UNCHANGED <<cache, store, watches, core, resolution, caller, resource,
                   annotations>>

\* The store takes in the ConfigMap: DataFromConfigMap copies its data.
DataFromConfigMap ==
    /\ watches
    /\ store' = New("conf")
    /\ UNCHANGED <<cache, configMap, watches, core, resolution, caller,
                   resource, annotations, events>>

-----------------------------------------------------------------------------
(***************************************************************************)
(* The core's generated reconciler.                                        *)
(***************************************************************************)

\* Mutant: the parameters are copied as a reference.
DeepCopyShallowSpec(rr) == [NewObject EXCEPT !.params = rr.params]

\* Spec.DeepCopyInto makes a map of its own for the parameters.
SpecDeepCopy(params) == New("params")

\* Status.DeepCopyInto copies the conditions and the annotations.
StatusDeepCopy(status) == New("status")

DeepCopy(rr) ==
    [self   |-> New("self"),
     params |-> SpecDeepCopy(rr.params),
     status |-> StatusDeepCopy(rr.status)]

\* Reconcile takes the request from the lister and works on a copy, which
\* ReconcileKind marks.
Reconcile ==
    /\ core.at = "idle"
    /\ core' = [Idle EXCEPT !.at = "reconcile",
                            !.original = cache,
                            !.resource = DeepCopy(cache)]
    /\ UNCHANGED <<cache, configMap, store, watches, resolution, caller,
                   resource, annotations, events>>

\* Mutant: the first attempt uses the informer's object itself.
updateStatusInPlace ==
    /\ core.at \in {"reconcile", "update"}
    /\ \E existing \in {core.original, NewObject} :
         core' = [core EXCEPT !.at = "update",
                              !.existing = [existing EXCEPT
                                              !.status = core.resource.status]]
    /\ UNCHANGED <<cache, configMap, store, watches, resolution, caller,
                   resource, annotations, events>>

\* updateStatus: the first attempt writes to a copy of the original, a later
\* one to what the API server returns; the status is shared with resource.
updateStatus ==
    /\ core.at \in {"reconcile", "update"}
    /\ \E existing \in {DeepCopy(core.original), NewObject} :
         core' = [core EXCEPT !.at = "update",
                              !.existing = [existing EXCEPT
                                              !.status = core.resource.status]]
    /\ UNCHANGED <<cache, configMap, store, watches, resolution, caller,
                   resource, annotations, events>>

Reconciled ==
    /\ core.at # "idle"
    /\ core' = Idle
    /\ UNCHANGED <<cache, configMap, store, watches, resolution, caller,
                   resource, annotations, events>>

-----------------------------------------------------------------------------
(***************************************************************************)
(* The resolver framework.                                                 *)
(***************************************************************************)

\* Mutant: the stored map is handed out.
GetStoredConfig == IF store = None THEN New("conf") ELSE store

\* Mutant: no map when nothing is stored.
GetConfigOrNil == IF store = None THEN None ELSE New("conf")

\* A copy of what is stored, or an empty map.
GetResolverConfig == New("conf")

\* The map a resolver finds in its context: the one ToContext put there or,
\* without a ConfigMap of its own, an empty one.
GetResolverConfigFromContext == IF watches THEN GetResolverConfig ELSE New("conf")

\* Resolve runs in a goroutine, with the parameters of the cached object.
Resolve(g) ==
    /\ resolution[g] = None
    /\ resolution' = [resolution EXCEPT
                        ![g] = [params |-> cache.params,
                                conf |-> GetResolverConfigFromContext]]
    /\ UNCHANGED <<cache, configMap, store, watches, core, caller, resource,
                   annotations, events>>

\* It ends, long after its reconcile if that timed out.
Resolved(g) ==
    /\ resolution[g] # None
    /\ resolution' = [resolution EXCEPT ![g] = None]
    /\ UNCHANGED <<cache, configMap, store, watches, core, caller, resource,
                   annotations, events>>

-----------------------------------------------------------------------------
(***************************************************************************)
(* The code that submits the request.                                      *)
(***************************************************************************)

\* Submit returns the object in the cache, wrapped.
Submit ==
    /\ resource' = cache
    /\ UNCHANGED <<cache, configMap, store, watches, core, resolution, caller,
                   annotations, events>>

\* Mutant: the map itself is returned.
AnnotationsOfObject ==
    /\ resource # None
    /\ annotations' = resource.status
    /\ UNCHANGED <<cache, configMap, store, watches, core, resolution, caller,
                   resource, events>>

\* A copy of the annotations, or nil when there are none.
Annotations ==
    /\ resource # None
    /\ annotations' \in {New("map"), None}
    /\ UNCHANGED <<cache, configMap, store, watches, core, resolution, caller,
                   resource, events>>

-----------------------------------------------------------------------------
Next ==
    \/ RequestChanges
    \/ ConfigMapChanges
    \/ DataFromConfigMap
    \/ Reconcile
    \/ updateStatus
    \/ Reconciled
    \/ \E g \in Resolutions : Resolve(g) \/ Resolved(g)
    \/ Submit
    \/ Annotations

Spec == Init /\ [][Next]_vars

-----------------------------------------------------------------------------
(***************************************************************************)
(* Properties.                                                             *)
(***************************************************************************)

\* What one goroutine may write no other can read: neither the caches of
\* the informers and the stored configuration, nor a map that a resolution
\* still uses after its reconcile has given up, change under a reader.
NoSharedWrites ==
    \A a, b \in Actors : a # b => Owned(a) \cap Reach(b) = {}
=============================================================================
