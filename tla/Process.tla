------------------------------- MODULE Process -------------------------------
(***************************************************************************)
(* One controller process, the core's or a resolver's, from main to exit:  *)
(* the resolver is validated, clients and informers are injected, the      *)
(* controller is constructed, configuration is loaded, the informers run,  *)
(* the workers run, and a signal stops it all.  Requests exist, and        *)
(* change, at any time.                                                    *)
(*                                                                         *)
(* Names are the names of requests the controller's event handler lets     *)
(* through.                                                                *)
(***************************************************************************)
EXTENDS TwoLaneQueue

CONSTANTS
    Configs,    \* how a resolver is configured: "none", "empty" or "named"
    Existing,   \* the requests that exist when the process starts
    MaxChanges  \* bound on changes made by users and on leases lost

ASSUME ProcessAssumption ==
    /\ Configs \subseteq {"none", "empty", "named"}
    /\ Existing \subseteq Names
    /\ MaxChanges \in Nat

VARIABLES
    resolver,   \* what main was built with, and the cluster it starts in
    stage,      \* where main is
    informers,  \* the factory, the informers main runs, and the handler's
    loaded,     \* the ConfigStore holds the resolver's configuration
    signal,     \* SIGTERM was received
    elector,    \* "waiting" for the lease, "leading" or "ended"
    term,       \* how often it won the lease
    leads,      \* LeaderAwareFuncs has recorded the bucket
    promotion,  \* where the OnStartedLeading goroutine of each term is
    store,      \* requests in the API server
    watch,      \* requests with a change the informer has not seen
    cache,      \* requests in the informer's cache
    inbox,      \* names with a notification the handler has not handled
    read,       \* names whose worker has read the cache
    owed,       \* requests with a change no Reconcile has looked at, up to
                \* ShutDown
    changes     \* changes and leases lost so far

mainVars == <<resolver, stage, informers, loaded, signal>>
electionVars == <<elector, term, leads, promotion>>
requestVars == <<store, watch, cache, inbox, read, owed, changes>>
vars == <<queueVars, mainVars, electionVars, requestVars>>

\* A resolver as NewController meets it.  The core controller has none, and
\* asks for nothing.
Resolvers ==
    [kind       : {"resolver"},
     selector   : {"nil", "untyped", "typed"},
     initialize : {"ok", "error"},
     config     : Configs,  \* not a ConfigWatcher, or its GetConfigName
     configMap  : BOOLEAN]  \* is there a map of that name?

TheCore ==
    [kind |-> "core", selector |-> "nil", initialize |-> "ok",
     config |-> "none", configMap |-> FALSE]

\* The resolvers of the repository.  The manifests of the git resolver
\* create its git-resolver-config.
Git ==
    [kind |-> "resolver", selector |-> "typed", initialize |-> "ok",
     config |-> "named", configMap |-> TRUE]

Bundles ==
    [kind |-> "resolver", selector |-> "typed", initialize |-> "ok",
     config |-> "none", configMap |-> FALSE]

Demo ==
    [kind |-> "resolver", selector |-> "typed", initialize |-> "ok",
     config |-> "none", configMap |-> FALSE]

\* Each lease lost is a change, so that these are the terms that occur.
Terms == 1 .. MaxChanges + 1

\* A promotion is about to record the bucket, then to list the cache, then
\* to enqueue the names it has listed; it is over when none is left.
Promotions ==
    [at : {"none", "record", "list", "enqueue"}, names : SUBSET Names]

Stages ==
    {"main", "inject", "construct", "configure", "inform", "sync", "run",
     "stop", "exited", "dead"}

TypeOK ==
    /\ QueueTypeOK
    /\ resolver \in Resolvers \cup {TheCore}
    /\ stage \in Stages
    /\ informers \in [made : Nat, shared : Nat, run : Nat, handled : Nat]
    /\ loaded \in BOOLEAN
    /\ signal \in BOOLEAN
    /\ elector \in {"waiting", "leading", "ended"}
    /\ term \in 0 .. changes + (IF elector = "waiting" THEN 0 ELSE 1)
    /\ leads \in BOOLEAN
    /\ promotion \in [Terms -> Promotions]
    /\ \A t \in Terms : promotion[t].names \subseteq cache
    /\ watch \cup cache \cup owed \subseteq store
    /\ inbox \subseteq cache
    /\ store \subseteq Names
    /\ read \subseteq processing
    /\ changes \in 0 .. MaxChanges

NoInformer == 0

NewSharedInformerFactory ==
    [made |-> 0, shared |-> NoInformer, run |-> NoInformer,
     handled |-> NoInformer]

Init ==
    /\ QueueInit
    /\ resolver \in Resolvers \cup {TheCore}
    /\ resolver.configMap => resolver.config = "named"
    /\ stage = "main"
    /\ informers = NewSharedInformerFactory
    /\ loaded = FALSE
    /\ signal = FALSE
    /\ elector = "waiting"
    /\ term = 0
    /\ leads = FALSE
    /\ promotion = [t \in Terms |-> [at |-> "none", names |-> {}]]
    /\ store = Existing
    /\ watch = store
    /\ cache = {}
    /\ inbox = {}
    /\ read = {}
    /\ owed = store
    /\ changes = 0

-----------------------------------------------------------------------------
(***************************************************************************)
(* Before the workers start.                                               *)
(***************************************************************************)
Goto(s) == stage' = s

validateResolver == resolver.selector = "typed"

\* main evaluates framework.NewController, which panics on a resolver that
\* does not say which type it serves; the core's NewController checks none.
Main ==
    /\ stage = "main"
    /\ Goto(IF resolver.kind = "resolver" /\ ~validateResolver
            THEN "dead" ELSE "inject")
    /\ UNCHANGED <<queueVars, resolver, informers, loaded, signal,
                   electionVars, requestVars>>

\* Mutant: the factory does not remember the informer.
InformerForAlwaysNew(infs) == [infs EXCEPT !.made = @ + 1, !.shared = @ + 1]

\* The factory makes the informer of a type once and returns it every time.
InformerFor(infs) ==
    IF infs.shared # NoInformer THEN infs
    ELSE [infs EXCEPT !.made = @ + 1, !.shared = infs.made + 1]

\* The informer injected here is the one main runs.
withInformer(factory) ==
    LET infs == InformerFor(factory) IN [infs EXCEPT !.run = infs.shared]

\* EnableInjectionOrDie: withInformerFactory, then withInformer.
Inject ==
    /\ stage = "inject"
    /\ informers' = withInformer(NewSharedInformerFactory)
    /\ Goto("construct")
    /\ UNCHANGED <<queueVars, resolver, loaded, signal, electionVars,
                   requestVars>>

\* Mutant: an error of Initialize is not looked at.
InitializePanicsNever == FALSE

InitializePanics == resolver.initialize = "error"

\* Mutant: every ConfigWatcher is refused.
watchConfigChangesPanicsAlways == resolver.config # "none"

watchConfigChangesPanics == resolver.config = "empty"

\* AddEventHandler on the informer the factory returns now.
AddEventHandler(infs) ==
    LET now == InformerFor(infs) IN [now EXCEPT !.handled = now.shared]

\* The constructor a resolver's main hands to sharedmain: Initialize, the
\* configuration watch, the queue, the event handler.  The lister asks the
\* factory for the informer as well.
NewController ==
    /\ stage = "construct"
    /\ resolver.kind = "resolver"
    /\ IF InitializePanics \/ watchConfigChangesPanics
       THEN Goto("dead") /\ UNCHANGED informers
       ELSE /\ Goto("configure")
            /\ informers' = AddEventHandler(InformerFor(informers))
    /\ UNCHANGED <<queueVars, resolver, loaded, signal, electionVars,
                   requestVars>>

\* The core's: NewImpl, then the event handler.
NewCoreController ==
    /\ stage = "construct"
    /\ resolver.kind = "core"
    /\ Goto("configure")
    /\ informers' = AddEventHandler(InformerFor(informers))
    /\ UNCHANGED <<queueVars, resolver, loaded, signal, electionVars,
                   requestVars>>

\* InformedWatcher.Start: a watched config map must exist, and has been
\* handed to the ConfigStore when Start returns.
Configure ==
    /\ stage = "configure"
    /\ IF signal \/ (resolver.config = "named" /\ ~resolver.configMap)
       THEN Goto("dead") /\ UNCHANGED loaded
       ELSE /\ Goto("inform")
            /\ loaded' = (resolver.config = "named")
    /\ UNCHANGED <<queueVars, resolver, informers, signal, electionVars,
                   requestVars>>

HandlerRuns == informers.handled = informers.run

\* The informer lists what exists, tells its handler of each request, and
\* counts as synced; the handler hears of them in a goroutine of its own.
InformerLists ==
    /\ stage = "inform"
    /\ cache' = store
    /\ watch' = {}
    /\ inbox' = IF HandlerRuns THEN store ELSE {}
    /\ Goto("sync")
    /\ UNCHANGED <<queueVars, resolver, informers, loaded, signal,
                   electionVars, store, read, owed, changes>>

\* StartInformers returns, or fails because of the signal; then StartAll
\* launches the workers.
StartAll ==
    /\ stage = "sync"
    /\ IF signal
       THEN Goto("dead") /\ UNCHANGED queueVars
       ELSE Goto("run") /\ QueueStartWorkers
    /\ UNCHANGED <<resolver, informers, loaded, signal, electionVars,
                   requestVars>>

Startup ==
    \/ Main
    \/ Inject
    \/ NewController
    \/ NewCoreController
    \/ Configure
    \/ InformerLists
    \/ StartAll

-----------------------------------------------------------------------------
(***************************************************************************)
(* While it runs.                                                          *)
(***************************************************************************)

\* The process has neither panicked nor returned from main.
Alive == stage \notin {"dead", "exited"}

\* A user creates or changes a request.  What changes after the signal never
\* reaches the process, and is left out.
Change(k) ==
    /\ ~signal
    /\ changes < MaxChanges
    /\ changes' = changes + 1
    /\ store' = store \cup {k}
    /\ watch' = watch \cup {k}
    /\ owed' = owed \cup {k}
    /\ UNCHANGED <<queueVars, mainVars, electionVars, cache, inbox, read>>

\* The informer receives the change.  It stops with the process's context.
Deliver(k) ==
    /\ stage \in {"sync", "run"}
    /\ ~signal
    /\ k \in watch
    /\ watch' = watch \ {k}
    /\ cache' = cache \cup {k}
    /\ inbox' = IF HandlerRuns THEN inbox \cup {k} ELSE inbox
    /\ UNCHANGED <<queueVars, mainVars, electionVars, store, read, owed, changes>>

\* The event handler is called: impl.Enqueue, which adds to the fast lane.
Notify(k) ==
    /\ Alive
    /\ k \in inbox
    /\ inbox' = inbox \ {k}
    /\ QueueAdd("fast", k)
    /\ UNCHANGED <<mainVars, electionVars, store, watch, cache, read, owed, changes>>

\* The elector wins the lease, and starts OnStartedLeading in a goroutine of
\* its own.
Elect ==
    /\ stage = "run"
    /\ ~signal
    /\ elector = "waiting"
    /\ elector' = "leading"
    /\ term' = term + 1
    /\ promotion' = [promotion EXCEPT ![term + 1].at = "record"]
    /\ UNCHANGED <<leads, queueVars, mainVars, requestVars>>

\* LeaderAwareFuncs.Promote records the bucket, whether or not the lease is
\* still held.
Promote(t) ==
    /\ Alive
    /\ promotion[t].at = "record"
    /\ leads' = TRUE
    /\ promotion' = [promotion EXCEPT ![t].at = "list"]
    /\ UNCHANGED <<elector, term, queueVars, mainVars, requestVars>>

\* Mutant: PromoteFunc, or the enq it is given, is nil.
PromoteListsNothing(t) ==
    /\ Alive
    /\ promotion[t].at = "list"
    /\ promotion' = [promotion EXCEPT ![t].at = "enqueue"]
    /\ UNCHANGED <<elector, term, leads, queueVars, mainVars, requestVars>>

\* PromoteFunc lists the informer's cache.
PromoteLists(t) ==
    /\ Alive
    /\ promotion[t].at = "list"
    /\ promotion' =
         [promotion EXCEPT ![t] = [at |-> "enqueue", names |-> cache]]
    /\ UNCHANGED <<elector, term, leads, queueVars, mainVars, requestVars>>

\* It calls enq, MaybeEnqueueBucketKey, with one name after the other.  The
\* one bucket has every name.
PromoteFunc(t, k) ==
    /\ Alive
    /\ k \in promotion[t].names
    /\ promotion' = [promotion EXCEPT ![t].names = @ \ {k}]
    /\ QueueAdd("slow", k)
    /\ UNCHANGED <<elector, term, leads, mainVars, requestVars>>

OnStartedLeading(t) ==
    Promote(t) \/ PromoteLists(t) \/ \E k \in Names : PromoteFunc(t, k)

\* The lease is lost: Demote forgets the bucket, and the elector starts over.
Demote ==
    /\ elector = "leading"
    /\ ~signal
    /\ changes < MaxChanges
    /\ changes' = changes + 1
    /\ elector' = "waiting"
    /\ leads' = FALSE
    /\ UNCHANGED <<term, promotion, queueVars, mainVars, store, watch, cache,
                   inbox, read, owed>>

\* On a signal the elector stops, and calls Demote even if it waits.
Resign ==
    /\ stage \in {"run", "stop"}
    /\ signal
    /\ elector # "ended"
    /\ elector' = "ended"
    /\ leads' = FALSE
    /\ UNCHANGED <<term, promotion, queueVars, mainVars, requestVars>>

\* A worker takes a name.
Get ==
    /\ QueueGet
    /\ UNCHANGED <<mainVars, electionVars, requestVars>>

\* The generated reconciler of the core skips what it does not lead; the
\* resolvers' Reconcile does not ask.
Reconciles == resolver.kind = "resolver" \/ leads

\* Reconcile reads the request from the lister.
Reconcile(k) ==
    /\ k \in processing \ read
    /\ read' = read \cup {k}
    /\ owed' = IF Reconciles /\ k \notin watch THEN owed \ {k} ELSE owed
    /\ UNCHANGED <<queueVars, mainVars, electionVars, store, watch, cache,
                   inbox, changes>>

Done(k) ==
    /\ k \in read
    /\ read' = read \ {k}
    /\ QueueDone(k)
    /\ UNCHANGED <<mainVars, electionVars, store, watch, cache, inbox, owed,
                   changes>>

\* The queue's own goroutines.
LaneRuns(l) ==
    /\ QueueProcess(l) \/ QueueClose(l)
    /\ UNCHANGED <<mainVars, electionVars, requestVars>>

ConsumerRuns ==
    /\ QueueConsumer
    /\ UNCHANGED <<mainVars, electionVars, requestVars>>

Running ==
    \/ \E k \in Names : Deliver(k) \/ Notify(k) \/ Reconcile(k) \/ Done(k)
    \/ \E t \in Terms : OnStartedLeading(t)
    \/ \E l \in Lanes : LaneRuns(l)
    \/ Elect
    \/ Resign
    \/ Get

-----------------------------------------------------------------------------
(***************************************************************************)
(* The end.                                                                *)
(***************************************************************************)
Signal ==
    /\ ~signal
    /\ signal' = TRUE
    /\ UNCHANGED <<queueVars, resolver, stage, informers, loaded,
                   electionVars, requestVars>>

\* RunContext's context is done: ShutDown, of one lane and then the other.
\* A notification that is handled after the first adds nothing.
ShutDown ==
    /\ stage = "run"
    /\ signal
    /\ QueueShutDown("fast")
    /\ Goto("stop")
    /\ inbox' = {}
    /\ owed' = {}
    /\ UNCHANGED <<resolver, informers, loaded, signal, electionVars, store,
                   watch, cache, read, changes>>

ShutDownSlow ==
    /\ stage = "stop"
    /\ QueueShutDown("slow")
    /\ UNCHANGED <<mainVars, electionVars, requestVars>>

WorkerExits ==
    /\ stage = "stop"
    /\ QueueExit
    /\ UNCHANGED <<mainVars, electionVars, requestVars>>

\* RunContext has shut both lanes and waited for the queues to be empty, the
\* workers and the elector, not for a promotion; main returns.
Exit ==
    /\ stage = "stop"
    /\ "slow" \in shut
    /\ QueueLen = 0
    /\ workers = 0
    /\ elector = "ended"
    /\ Goto("exited")
    /\ UNCHANGED <<queueVars, resolver, informers, loaded, signal,
                   electionVars, requestVars>>

Shutdown == ShutDown \/ ShutDownSlow \/ WorkerExits \/ Exit

\* What the process does not decide.
Environment == Signal \/ Demote \/ \E k \in Names : Change(k)

Next == Startup \/ Running \/ Shutdown \/ ConsumerRuns \/ Environment

Spec == Init /\ [][Next]_vars

-----------------------------------------------------------------------------
(***************************************************************************)
(* Properties.                                                             *)
(***************************************************************************)

\* Workers run only when everything a Reconcile relies on is there: the
\* resolver is valid and initialized, its configuration is in the store,
\* and the event handler listens to the informer that was run.
ReadyBeforeWork ==
    workers > 0 =>
        /\ stage \in {"run", "stop"}
        /\ HandlerRuns
        /\ resolver.kind = "resolver" =>
             /\ validateResolver
             /\ resolver.initialize = "ok"
             /\ resolver.config # "none" => loaded

\* The repository's own processes do not die while they start: no check of
\* NewController refuses them, and only a signal stops them.
OwnProcessesStart ==
    stage = "dead" => signal \/ resolver \notin {TheCore, Git, Bundles, Demo}

\* The requests a promotion has still to enqueue: all of the cache until it
\* has listed it.
Promoting ==
    {k \in cache : \E t \in Terms :
        promotion[t].at = "list" \/ k \in promotion[t].names}

\* No change of a request is missed, whenever it happens during startup or a
\* promotion: it is on its way to the informer, to the handler, to a worker,
\* or a promotion has still to list or to enqueue it.  A core that does not
\* lead skips what it takes; from the moment IsLeaderFor says that it leads,
\* what it skipped before is on its way again.
NoMissedChange ==
    /\ shut = {}
    /\ resolver.kind = "resolver" \/ leads
    => owed \subseteq watch \cup inbox \cup Pending \cup (processing \ read)
                       \cup Promoting

-----------------------------------------------------------------------------
(***************************************************************************)
(* Liveness.  Nothing is assumed of how goroutines share the processor but *)
(* that some goroutine of the process goes on while one can; the elector,  *)
(* one of them, wins the lease in the end.  runConsumer does not count: it *)
(* spins when a channel is closed and the other is not.  It goes on by     *)
(* itself, and select, which picks among the ready channels at random,     *)
(* does not pick a closed one for ever.                                    *)
(***************************************************************************)
Fairness == WF_vars(Startup \/ Running \/ Shutdown) /\ WF_vars(ConsumerRuns)

FairSpec == Spec /\ Fairness

\* Every change is looked at by a Reconcile, from the requests that existed
\* before the process did to those that change while it starts or while it
\* is promoted: the time comes when nothing is owed, unless the process
\* dies or is told to stop.  What the core skipped while it did not lead is
\* included, as it wins the lease in the end.
EventuallyReconciled ==
    owed # {} ~> \/ owed = {}
                 \/ stage = "dead"
                 \/ signal

\* A process that is told to stop drains both lanes, hands out what is queued
\* and ends, wherever its elector and its promotions are.
EventuallyStops == signal ~> stage \in {"exited", "dead"}
=============================================================================
