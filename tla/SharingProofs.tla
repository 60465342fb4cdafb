---------------------------- MODULE SharingProofs ----------------------------
(***************************************************************************)
(* No goroutine of a process writes to memory another one reads, for any   *)
(* number of resolutions that run at a time and any sequence of events.    *)
(***************************************************************************)
EXTENDS Sharing, TLAPS, FiniteSetTheorems

\* Every leaf may take a minute, so that a slow machine changes nothing.
USE SMTT(60), ZenonT(60)

-----------------------------------------------------------------------------
(***************************************************************************)
(* Memory.  Finitely many cells are in use, so that there is a new one.    *)
(***************************************************************************)
ReachOf ==
    /\ Reach("informers") = CellsOf(cache) \cup ({configMap, store} \ {None})
    /\ Reach("core") = CellsOf(core.original) \cup CellsOf(core.resource)
                         \cup CellsOf(core.existing)
    /\ Reach("caller") =
         CellsOf(resource) \cup ({caller, annotations} \ {None})
    /\ \A g \in Resolutions :
         Reach(g) = IF resolution[g] = None THEN {}
                    ELSE {resolution[g].params, resolution[g].conf}

OwnedOf ==
    /\ Owned("informers") = {}
    /\ Owned("core") =
         CellsOf(core.resource)
           \cup (IF core.existing = None THEN {} ELSE {core.existing.self})
    /\ Owned("caller") = {caller, annotations} \ {None}
    /\ \A g \in Resolutions :
         Owned(g) = IF resolution[g] = None THEN {} ELSE {resolution[g].conf}

LEMMA Actor == ReachOf /\ OwnedOf
  BY SharingAssumption DEF Reach, Owned, ReachOf, OwnedOf

LEMMA ActorNext == ReachOf' /\ OwnedOf'
  BY SharingAssumption DEF Reach, Owned, ReachOf, OwnedOf

\* What an actor owns it refers to.
LEMMA OwnedIsReached == \A a \in Actors : Owned(a) \subseteq Reach(a)
  BY Actor DEF ReachOf, OwnedOf, Actors, CellsOf

LEMMA FewInUse == IsFiniteSet(InUse)
  <1>u. \A S, T : IsFiniteSet(S) /\ IsFiniteSet(T) => IsFiniteSet(S \cup T)
    BY ZenonT(60), FS_Union
  <1>d. \A S, T : IsFiniteSet(S) => IsFiniteSet(S \ T)
    BY ZenonT(60), FS_Difference
  <1>1. /\ IsFiniteSet({})
        /\ \A x, y : IsFiniteSet({x}) /\ IsFiniteSet({x, y})
    <2>1. IsFiniteSet({}) /\ \A x : IsFiniteSet({x})
      BY ZenonT(60), FS_Singleton, FS_EmptySet
    <2>2. ASSUME NEW x, NEW y PROVE IsFiniteSet({x, y})
      <3>1. IsFiniteSet({x} \cup {y})
        BY ZenonT(60), <1>u, <2>1
      <3>2. {x, y} = {x} \cup {y}
        OBVIOUS
      <3>3. QED
        BY <3>1, <3>2
    <2>3. QED
      BY ZenonT(60), <2>1, <2>2
  <1>2. \A rr : IsFiniteSet(CellsOf(rr))
    <2> TAKE rr
    <2>1. IsFiniteSet({rr.self, rr.params} \cup {rr.status})
      BY ZenonT(60), <1>u, <1>1
    <2>2. {rr.self, rr.params, rr.status}
          = {rr.self, rr.params} \cup {rr.status}
      OBVIOUS
    <2>3. QED
      BY <1>1, <2>1, <2>2 DEF CellsOf
  <1>3. \A a \in Actors : IsFiniteSet(Reach(a))
    <2>1. IsFiniteSet(Reach("informers"))
      <3>1. IsFiniteSet(CellsOf(cache) \cup ({configMap, store} \ {None}))
        BY ZenonT(60), <1>u, <1>d, <1>1, <1>2
      <3>2. QED
        BY ZenonT(60), <3>1, Actor DEF ReachOf
    <2>2. IsFiniteSet(Reach("core"))
      <3>1. IsFiniteSet(CellsOf(core.original) \cup CellsOf(core.resource)
                          \cup CellsOf(core.existing))
        BY ZenonT(60), <1>u, <1>2
      <3>2. QED
        BY ZenonT(60), <3>1, Actor DEF ReachOf
    <2>3. IsFiniteSet(Reach("caller"))
      <3>1. IsFiniteSet(CellsOf(resource) \cup ({caller, annotations} \ {None}))
        BY ZenonT(60), <1>u, <1>d, <1>1, <1>2
      <3>2. QED
        BY ZenonT(60), <3>1, Actor DEF ReachOf
    <2>4. ASSUME NEW g \in Resolutions PROVE IsFiniteSet(Reach(g))
      <3>1. CASE resolution[g] = None
        BY ZenonT(60), <1>1, <3>1, Actor DEF ReachOf
      <3>2. CASE resolution[g] # None
        <4>1. Reach(g) = {resolution[g].params, resolution[g].conf}
          BY <3>2, Actor DEF ReachOf
        <4>2. QED
          BY ZenonT(60), <1>1, <4>1
      <3>3. QED
        BY <3>1, <3>2
    <2>5. QED
      BY <2>1, <2>2, <2>3, <2>4 DEF Actors
  <1>4. IsFiniteSet(Actors)
    <2>1. IsFiniteSet({"informers", "core"} \cup {"caller"})
      BY ZenonT(60), <1>u, <1>1
    <2>2. {"informers", "core", "caller"}
          = {"informers", "core"} \cup {"caller"}
      OBVIOUS
    <2>3. QED
      BY ZenonT(60), <1>u, <2>1, <2>2, SharingAssumption DEF Actors
  <1>5. IsFiniteSet({Reach(a) : a \in Actors})
    <2> DEFINE reach == [a \in Actors |-> Reach(a)]
    <2>1. reach \in Surjection(Actors, {Reach(a) : a \in Actors})
      BY DEF Surjection
    <2> HIDE DEF reach
    <2>2. QED
      BY <1>4, <2>1, FS_Surjection
  <1>6. QED
    BY <1>3, <1>5, FS_UNION DEF InUse

LEMMA NewIsNew ==
    ASSUME NEW kind
    PROVE  New(kind) \in Cells(kind) /\ New(kind) \notin InUse
  <1> DEFINE C == Cardinality(InUse)
             free == \E n \in 1 .. C + 1 : <<kind, n>> \notin InUse
  <1>1. C \in Nat
    BY FewInUse, FS_CardinalityType
  <1>2. IsFiniteSet(1 .. C + 1) /\ Cardinality(1 .. C + 1) = C + 1
    <2>1. 1 \in Int /\ C + 1 \in Int /\ ~(1 > C + 1) /\ C + 1 - 1 + 1 = C + 1
      BY <1>1
    <2>2. QED
      BY <2>1, FS_Interval
  <1>3. ASSUME ~free PROVE FALSE
    <2> DEFINE cell == [n \in 1 .. C + 1 |-> <<kind, n>>]
    <2>1. cell \in [1 .. C + 1 -> InUse]
      BY <1>3
    <2>2. C < C + 1
      BY <1>1
    <2> HIDE DEF C
    <2>3. \E x, y \in 1 .. C + 1 : x # y /\ cell[x] = cell[y]
      <3> HIDE DEF cell
      <3>1. Cardinality(InUse) < Cardinality(1 .. C + 1)
        BY <1>2, <2>2 DEF C
      <3>2. QED
        BY ZenonT(60), <1>2, <2>1, <3>1, FewInUse, FS_PigeonHole
    <2>4. QED
      BY <2>3
  <1> HIDE DEF C
  <1>4. QED
    BY <1>1, <1>3 DEF New, Cells, C

LEMMA NewObjectIsNew ==
    /\ NewObject \in Objects
    /\ NewObject # None
    /\ CellsOf(NewObject) \cap InUse = {}
  BY NewIsNew, SharingAssumption DEF NewObject, Objects, CellsOf

LEMMA DeepCopyIsNew == \A rr : DeepCopy(rr) = NewObject
  BY DEF DeepCopy, SpecDeepCopy, StatusDeepCopy, NewObject

-----------------------------------------------------------------------------
(***************************************************************************)
(* The invariant.  While the core is at a request it has both objects; one *)
(* that is idle has let go of all.                                         *)
(***************************************************************************)
SharingInv ==
    /\ TypeOK
    /\ NoSharedWrites
    /\ core.at = "idle" => core = Idle
    /\ core.at # "idle" => core.original # None /\ core.resource # None

Same(a) == Reach(a)' = Reach(a) /\ Owned(a)' = Owned(a)

\* What an actor refers to is in the variables it reads.
LEMMA Frame ==
    /\ UNCHANGED <<cache, configMap, store>> => Same("informers")
    /\ UNCHANGED core => Same("core")
    /\ UNCHANGED <<resource, caller, annotations>> => Same("caller")
    /\ \A g \in Resolutions : resolution'[g] = resolution[g] => Same(g)
  BY ZenonT(60), Actor, ActorNext DEF ReachOf, OwnedOf, CellsOf, Same

\* Only actor x moves; it takes up new cells and what the informers hold,
\* and owns only new cells on top of what it owned.
Moves(x, fresh) ==
    /\ fresh \cap InUse = {}
    /\ \A b \in Actors \ {x} : Same(b)
    /\ Reach(x)' \subseteq Reach(x) \cup Reach("informers") \cup fresh
    /\ Owned(x)' \subseteq Owned(x) \cup fresh

\* Such a step shares no writes: the informers own nothing.
LEMMA OneActorMoves ==
    ASSUME NoSharedWrites, NEW x \in Actors, NEW fresh, Moves(x, fresh)
    PROVE  NoSharedWrites'
  <1> SUFFICES ASSUME NEW a \in Actors, NEW b \in Actors, a # b,
                      NEW c \in Owned(a)', c \in Reach(b)'
               PROVE  FALSE
    BY DEF NoSharedWrites
  <1>1. \A y \in Actors : Reach(y) \subseteq InUse /\ Owned(y) \subseteq InUse
    BY OwnedIsReached DEF InUse
  <1>2. Owned("informers") = {} /\ "informers" \in Actors
    BY Actor DEF OwnedOf, Actors
  <1>3. CASE a = x
    BY <1>3, <1>1 DEF Moves, Same, NoSharedWrites
  <1>4. CASE b = x
    BY <1>4, <1>1, <1>2 DEF Moves, Same, NoSharedWrites
  <1>5. CASE a # x /\ b # x
    BY <1>5 DEF NoSharedWrites, Moves, Same
  <1>6. QED
    BY <1>3, <1>4, <1>5

LEMMA InitSharing == Init => SharingInv
  <1> SUFFICES ASSUME Init PROVE SharingInv
    OBVIOUS
  <1>1. TypeOK
    BY SharingAssumption DEF Init, TypeOK, Idle, Objects, Cells
  <1>2. NoSharedWrites
    BY Actor, SharingAssumption DEF Init, NoSharedWrites, Actors, Idle,
       CellsOf, ReachOf, OwnedOf
  <1>3. QED
    BY <1>1, <1>2 DEF SharingInv, Init, Idle

LEMMA NextSharing ==
    ASSUME SharingInv, [Next]_vars
    PROVE  SharingInv'
  <1>t. TypeOK /\ NoSharedWrites
    BY DEF SharingInv
  <1>m. \A kind : {New(kind)} \cap InUse = {}
    BY NewIsNew
  <1>1. ASSUME RequestChanges PROVE SharingInv'
    <2>1. TypeOK'
      BY <1>1, <1>t, NewObjectIsNew, SharingAssumption DEF RequestChanges,
         TypeOK
    <2>2. NoSharedWrites'
      <3>1. \A b \in Actors \ {"informers"} : Same(b)
        BY <1>1, Frame DEF RequestChanges, Actors
      <3>2. Reach("informers")' \subseteq
              Reach("informers") \cup CellsOf(NewObject)
        BY <1>1, Actor, ActorNext DEF RequestChanges, ReachOf, CellsOf
      <3>3. Owned("informers")' = {}
        BY ActorNext DEF OwnedOf
      <3>4. QED
        BY <1>t, <3>1, <3>2, <3>3, NewObjectIsNew, OneActorMoves DEF Moves,
           Actors
    <2>3. QED
      BY <1>1, <2>1, <2>2 DEF RequestChanges, SharingInv, Idle
  <1>2. ASSUME ConfigMapChanges \/ DataFromConfigMap PROVE SharingInv'
    <2>1. TypeOK'
      BY <1>2, <1>t, NewIsNew, SharingAssumption DEF ConfigMapChanges,
         DataFromConfigMap, TypeOK
    <2>2. NoSharedWrites'
      <3>1. \A b \in Actors \ {"informers"} : Same(b)
        BY <1>2, Frame DEF ConfigMapChanges, DataFromConfigMap, Actors
      <3>2. Reach("informers")' \subseteq Reach("informers") \cup {New("conf")}
        BY <1>2, Actor, ActorNext DEF ConfigMapChanges, DataFromConfigMap,
           ReachOf, CellsOf
      <3>3. Owned("informers")' = {}
        BY ActorNext DEF OwnedOf
      <3>4. QED
        BY ZenonT(60), <1>t, <3>1, <3>2, <3>3, <1>m, OneActorMoves DEF Moves,
           Actors
    <2>3. core' = core
      BY <1>2 DEF ConfigMapChanges, DataFromConfigMap
    <2>4. QED
      BY ZenonT(60), <2>1, <2>2, <2>3 DEF SharingInv, Idle
  <1>3. ASSUME Reconcile PROVE SharingInv'
    <2>c. core' = [at |-> "reconcile", original |-> cache,
                   resource |-> NewObject, existing |-> None]
      BY ZenonT(60), <1>3, DeepCopyIsNew DEF Reconcile, Idle
    <2>1. TypeOK'
      BY <1>3, <1>t, <2>c, NewObjectIsNew DEF Reconcile, TypeOK
    <2>2. NoSharedWrites'
      <3>1. \A b \in Actors \ {"core"} : Same(b)
        BY <1>3, Frame DEF Reconcile, Actors
      <3>2. Reach("core")' \subseteq Reach("informers") \cup CellsOf(NewObject)
        BY <2>c, Actor, ActorNext DEF ReachOf, CellsOf
      <3>3. Owned("core")' \subseteq CellsOf(NewObject)
        BY <2>c, ActorNext DEF OwnedOf, CellsOf
      <3>4. QED
        BY <1>t, <3>1, <3>2, <3>3, NewObjectIsNew, OneActorMoves DEF Moves,
           Actors
    <2>3. QED
      BY <1>t, <2>c, <2>1, <2>2, NewObjectIsNew, SharingAssumption
         DEF SharingInv, TypeOK
  <1>4. ASSUME updateStatus PROVE SharingInv'
    <2> DEFINE existing == [NewObject EXCEPT !.status = core.resource.status]
    <2>c. core' = [core EXCEPT !.at = "update", !.existing = existing]
      BY ZenonT(60), <1>4, DeepCopyIsNew DEF updateStatus
    <2>r. /\ core.resource \in Objects /\ core.resource # None
          /\ core.original # None
          /\ core.at # "idle"
      BY <1>4, <1>t DEF updateStatus, SharingInv, TypeOK
    <2>e. /\ existing \in Objects /\ existing # None
          /\ existing.self \in CellsOf(NewObject)
          /\ CellsOf(existing) \subseteq
               CellsOf(NewObject) \cup CellsOf(core.resource)
      BY <2>r, NewObjectIsNew, SharingAssumption DEF Objects, CellsOf
    <2> HIDE DEF existing
    <2>f. /\ core'.original = core.original /\ core'.resource = core.resource
          /\ core'.existing = existing /\ core'.at = "update"
      BY <1>t, <2>c DEF TypeOK
    <2>1. TypeOK'
      BY ZenonT(60), <1>4, <1>t, <2>c, <2>e DEF updateStatus, TypeOK
    <2>2. NoSharedWrites'
      <3>1. \A b \in Actors \ {"core"} : Same(b)
        BY <1>4, Frame DEF updateStatus, Actors
      <3>2. Reach("core")' \subseteq Reach("core") \cup CellsOf(NewObject)
        BY <2>f, <2>e, Actor, ActorNext DEF ReachOf, CellsOf
      <3>3. Owned("core")' \subseteq Owned("core") \cup CellsOf(NewObject)
        BY <2>f, <2>e, Actor, ActorNext DEF OwnedOf, CellsOf
      <3>4. QED
        BY <1>t, <3>1, <3>2, <3>3, NewObjectIsNew, OneActorMoves DEF Moves,
           Actors
    <2>3. QED
      BY <1>t, <2>f, <2>r, <2>1, <2>2 DEF SharingInv
  <1>5. ASSUME Reconciled PROVE SharingInv'
    <2>1. /\ core' = Idle
          /\ UNCHANGED <<cache, configMap, store, watches, resolution, caller,
                         resource, annotations, events>>
      BY <1>5 DEF Reconciled
    <2>2. TypeOK' /\ core'.at = "idle"
      BY <2>1, <1>t DEF TypeOK, Idle
    <2>3. NoSharedWrites'
      <3>1. \A b \in Actors \ {"core"} : Same(b)
        BY <2>1, Frame DEF Actors
      <3>2. Reach("core")' = {} /\ Owned("core")' = {}
        BY <2>1, ActorNext DEF ReachOf, OwnedOf, CellsOf, Idle
      <3>3. QED
        BY <1>t, <3>1, <3>2, OneActorMoves DEF Moves, Actors
    <2>4. QED
      BY ZenonT(60), <2>1, <2>2, <2>3 DEF SharingInv, Idle
  <1>6. ASSUME NEW g \in Resolutions, Resolve(g) PROVE SharingInv'
    <2>c. resolution' = [resolution EXCEPT
                           ![g] = [params |-> cache.params,
                                   conf |-> New("conf")]]
      BY <1>6 DEF Resolve, GetResolverConfigFromContext, GetResolverConfig
    <2>d. /\ cache # None /\ cache.params \in Cells("params")
          /\ cache.params \in CellsOf(cache)
          /\ resolution \in
               [Resolutions ->
                  [params : Cells("params"), conf : Cells("conf")] \cup {None}]
      BY <1>t, SharingAssumption DEF TypeOK, Objects, CellsOf
    <2>1. TypeOK'
      BY <1>6, <1>t, <2>c, <2>d, NewIsNew DEF Resolve, TypeOK
    <2>2. NoSharedWrites'
      <3>1. \A b \in Actors \ {g} : Same(b)
        BY <1>6, <2>c, <2>d, Frame DEF Resolve, Actors
      <3>2. Reach(g)' \subseteq Reach("informers") \cup {New("conf")}
        BY <2>c, <2>d, Actor, ActorNext DEF ReachOf
      <3>3. Owned(g)' \subseteq {New("conf")}
        BY <2>c, <2>d, ActorNext DEF OwnedOf
      <3>4. QED
        BY ZenonT(60), <1>t, <3>1, <3>2, <3>3, <1>m, OneActorMoves DEF Moves,
           Actors
    <2>3. QED
      BY <1>6, <2>1, <2>2 DEF Resolve, SharingInv, Idle
  <1>7. ASSUME NEW g \in Resolutions, Resolved(g) PROVE SharingInv'
    <2>1. TypeOK'
      BY <1>7, <1>t DEF Resolved, TypeOK
    <2>2. NoSharedWrites'
      <3>1. \A b \in Actors \ {g} : Same(b)
        BY <1>7, <1>t, Frame DEF Resolved, TypeOK, Actors
      <3>2. Reach(g)' = {} /\ Owned(g)' = {}
        BY <1>7, <1>t, ActorNext DEF Resolved, TypeOK, ReachOf, OwnedOf
      <3>3. QED
        BY ZenonT(60), <1>t, <3>1, <3>2, OneActorMoves DEF Moves, Actors
    <2>3. QED
      BY <1>7, <2>1, <2>2 DEF Resolved, SharingInv, Idle
  <1>8. ASSUME Submit \/ Annotations PROVE SharingInv'
    <2>1. TypeOK'
      BY <1>8, <1>t, NewIsNew DEF Submit, Annotations, TypeOK
    <2>2. NoSharedWrites'
      <3>1. \A b \in Actors \ {"caller"} : Same(b)
        BY <1>8, Frame DEF Submit, Annotations, Actors
      <3>2. Reach("caller")' \subseteq
              Reach("caller") \cup Reach("informers") \cup {New("map")}
        BY <1>8, Actor, ActorNext DEF Submit, Annotations, ReachOf, CellsOf
      <3>3. Owned("caller")' \subseteq Owned("caller") \cup {New("map")}
        BY <1>8, Actor, ActorNext DEF Submit, Annotations, OwnedOf
      <3>4. QED
        BY ZenonT(60), <1>t, <3>1, <3>2, <3>3, <1>m, OneActorMoves DEF Moves,
           Actors
    <2>3. QED
      BY <1>8, <2>1, <2>2 DEF Submit, Annotations, SharingInv,
         Idle
  <1>9. ASSUME UNCHANGED vars PROVE SharingInv'
    <2>1. \A b \in Actors : Same(b)
      BY <1>9, Frame DEF vars, Actors
    <2>2. NoSharedWrites'
      BY <1>t, <2>1 DEF NoSharedWrites, Same
    <2>3. QED
      BY <1>9, <2>2 DEF vars, SharingInv, TypeOK, Idle
  <1>10. QED
    BY <1>1, <1>2, <1>3, <1>4, <1>5, <1>6, <1>7, <1>8, <1>9 DEF Next

\* Every reference is to a struct, map or slice of the right kind.
THEOREM SharingTyped == Spec => []TypeOK
  <1>1. SharingInv => TypeOK
    BY DEF SharingInv
  <1>2. QED
    BY <1>1, InitSharing, NextSharing, PTL DEF Spec

\* What one goroutine may write no other can read, however many resolutions
\* outlive the reconcile that started them.
THEOREM WritesAreUnshared == Spec => []NoSharedWrites
  <1>1. SharingInv => NoSharedWrites
    BY DEF SharingInv
  <1>2. QED
    BY <1>1, InitSharing, NextSharing, PTL DEF Spec
=============================================================================
