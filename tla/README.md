# Tekton Resolution in TLA+

Tekton Resolution fetches Tekton resources (a pipeline in a git repository, a
task in an OCI bundle) on request. A user or a library creates a
`ResolutionRequest` object in a Kubernetes cluster. A *resolver* writes the
content into the object's status, and the *core controller* marks the request
as succeeded, in progress, or timed out after one minute. No process talks to
another one: everything goes through the API server, through informer caches
that lag behind it, and through work queues. That is where the difficulty of
the program is, and it is what this project models.

## 1. The system and its parts

| part | state | operations | interacts with |
|---|---|---|---|
| `ResolutionRequest` type (`pkg/apis/resolution/v1alpha1`, `pkg/common`) | the `Succeeded` condition, `status.data`, `status.observedGeneration`; generation, creation time, type label | `IsDone`, `InitializeConditions`, `Mark*`, `ReasonError` | everything |
| core `ReconcileKind` (`pkg/reconciler/resolutionrequest`) | none of its own | decides on a status and on a requeue delay | generated reconciler |
| generated reconciler (`pkg/client/injection/reconciler/...`) | a worker's copy of the request and the status it wants | `Reconcile`, `updateStatus` with its conflict retry, `PromoteFunc` | cache, API server, queue |
| resolver framework (`pkg/resolver/framework`) | a worker in `resolve`, `writeResolvedData` or `MarkFailed` | `Reconcile`, `resolve`, `OnError`, `MarkFailed`, `writeResolvedData`, label filter, `PromoteFunc` | cache, API server, queue, resolver |
| knative/client-go runtime (vendored) | informer cache, work queue, delaying queue, leadership | event handlers, `processNextWorkItem`, `handleErr`, `AddAfter`, `Promote`, `Demote` | all controllers |
| API server (used through the typed client) | versions of every object | Get, Create, Update, UpdateStatus, Patch, Delete, watch | all |
| requester library (`pkg/resource`) | a lister | `Submit`, `GenerateDeterministicName` | API server |
| git resolver | a clone, the commit asked for | `ValidateParams`, `Resolve`, `GetResolutionTimeout` | framework, git remote |
| bundle resolver | options, an image, a position in it | `ValidateParams`, `Resolve`, `GetEntry` | framework, registry, service accounts |
| framework config store | latest ConfigMap | `ToContext` | framework |
| controller processes (the mains, both `NewController`, the informer factory, knative's `sharedmain` and two-lane queue) | how far main is, informers and handlers, the lease, two lanes, their channels and the consumer queue, workers | startup, election, `Promote`, handover of names, shutdown | all controllers |
| webhook (`cmd/webhook`, `resolution_request_validation.go`) | a shared certificate, a lease per controller, two configurations in the API server, pods with caches | `Validate`, certificate and configuration reconcilers | API server, everyone who writes |

### What makes it hard

* A worker decides on a cached copy and writes later. `updateStatus` carries the
  cached resourceVersion, but after a conflict it fetches the latest object and
  assigns **the same** desired status to it.
* The result of a resolver is a merge patch: no version, no look at the condition.
* `MarkFailed` is a Get, a check and an UpdateStatus without a retry, and its
  error is ignored; `Reconcile` returns a permanent error, so the queue forgets
  the name.
* The core's timeout exists only as a name in the delaying queue of one process.
  Restarts and lost leases take it away.
* `IsLeaderFor` becomes true before `PromoteFunc` has listed or enqueued anything,
  and the lease may be gone before it has.
* `PreProcessReconcile` resets the condition whenever the core has not observed
  the generation, on a request that is already final too.
* A request can be deleted and created again under its name, which is
  deterministic, while workers are at it.
* The core takes an empty `status.data` for "no data yet", and that is also the
  encoding of an empty resource.
* `resolve` waits for the first of two unbuffered channels and a timer. The
  goroutine on the other side outlives the call when the timer wins.
* A client polls through a lister of its own, so it can see any version, late.
* Branches and tags move while a resolver fetches from them.
* Go iterates over maps in any order.
* A process is put together in many places. The handler must be added to the very
  informer that main runs, before it runs, and requests exist and change all the
  while.
* The queue is a fast lane for events, a slow lane for promotions and a consumer
  queue, with goroutines and channels in between: a name can be in all of them at
  once, the fast lane goes first, and shutdown has to drain them in order.
* The webhook's policy on failure is `Fail`, and its rules include the status: a
  wrong certificate stops the controllers too.
* Listers return the object in the cache, maps and slices are references, and a
  resolution can outlive the reconcile that started it.

### What each part should guarantee

* Core: a request is eventually done; it is not timed out early; success comes
  with a result; a result or a final condition is not taken back.
* Resolvers: each answers the requests with its label, works on no others, and
  does not touch a condition that is final.
* Runtime: no name is lost, whatever the order of events, retries and elections,
  or given to two workers.
* Processes: they start, miss no change made meanwhile, work only when all is
  ready, and stop when told to.
* Webhook: only requests with a type label get in, except in namespaces labelled
  `webhooks.knative.dev/exclude`, where nothing is checked; a change of
  certificates ends with a webhook that answers.
* Memory: what one goroutine may write, no other can read.
* The resolve call: one outcome, whatever the resolver does; the worker returns;
  a configuration change does not touch a call under way.
* Requester: a client gets an answer in the end, and the answer stands.
* Names: reproducible, and different for different requests.
* Git and bundle resolvers: the file, or the entry, that was asked for, labelled
  with where it comes from.

## 2. Modules

| module | models | main state | actions |
|---|---|---|---|
| `ResolutionRequest` | the object and the pure functions on it | - | operators: `PreProcessReconcile`, `ReconcileKindStatus`, `ReconcileKindEvent`, `PostProcessReconcile`, `Mark*`, `ReasonError` |
| `Cluster` | API server, users, wall clock | `history`, `now`, `faults` | `Create`, `EditSpec`, `Delete`, `Tick`; helpers `Write`, `CanUpdateStatus`, `PatchData` |
| `Controllers` | informer cache, work queue, election, the same for all controllers | `seen`, `queue`, `leader` | `Deliver`, `Promote`, `PromoteFunc`, `Demote`; `Dequeue`, `Relist` as parts of others |
| `CoreController` | generated reconciler around `ReconcileKind` | `core`, `delay` | `CoreSkip`, `CoreUnchanged`, `CoreReconcile`, `CoreUpdate`, `CoreConflict`, `CoreGet`, `CoreNotFound`, `CoreApiError`, `CoreRequeue`, `CoreRestart` |
| `ResolverFramework` | framework reconciler of every resolver | `resolver` | `ResolverSkip`, `ResolverReconcile`, `ResolveReturns`, `ResolveFails`, `ResolveTimesOut`, `WriteResolvedData(Fails)`, `MarkFailedGet/Update/GivesUp/ApiError`, `ResolverRestart` |
| `ResolutionSystem` | the composition, its properties and fairness | all | `Next` |
| `Requester` | `CRDRequester.Submit`, composed with `ResolutionSystem` | `view`, `told` | `Observe`, `SubmitCreates`, `SubmitFindsExisting`, `SubmitReads` |
| `ResolveOutcome` | what `resolve` promises: the abstract call | `outcome`, `deadline`, `now` | `Call`, `Return`, `Fail`, `TimeOut`, `Tick` |
| `ResolveCall` | `resolve` itself and the config store; implements `ResolveOutcome` | `caller`, `goroutine`, `message`, `config` | `Resolve`, `ValidateParamsReturns/Fails`, `ResolveReturns/Fails`, `ReceiveError`, `ReceiveResource`, `ContextDone`, `OnConfigChanged` |
| `GitResolver` | the git resolver and its remote repository | `branch`, `clone`, `commit`, `content` | `ValidateParams`, `Clone`, `Checkout`, `ReadFile` and their failures; `Push`, `CreateBranch`, `Rewind` |
| `BundleResolver` | the bundle resolver and its registry | `tag`, `opts`, `credentials`, `image`, `idx` | `ValidateParams`, `NewKeychain`, `FetchImage`, `Scan*`, `ReadEntry` and their failures; `Retag` |
| `RequestName` | `GenerateDeterministicName`, called twice | `paramKeys`, `written`, `name` | `CollectKey`, `StartHashing`, `HashParam`, `ReturnName` |
| `WorkQueue` | what a work queue promises: the abstract queue | `open`, `pending`, `busy`, `idle` | `StartWorkers`, `Add`, `Get`, `Done`, `ShutDown`, `Exit` |
| `TwoLaneQueue` | the queue itself: both lanes, their channels, `runConsumer`, the consumer queue, workers | `lane`, `hand`, `closed`, `reading`, `consumer`, `line`, `dirty`, `processing`, `shut`, `workers` | `QueueAdd`, `QueueProcess`, `QueueClose`, `QueuePoll`, `QueueSelect`, `QueueShutConsumer`, `QueueGet`, `QueueDone` and the others of `Process` |
| `Process` | one controller process from main to exit, with its queue; implements `WorkQueue` | `resolver`, `stage`, `informers`, `loaded`, `elector`, `leads`, `promotion`, `store`, `watch`, `cache`, `inbox`, `owed` | startup, `Deliver`, `Notify`, `Get`, `Reconcile`, `Done`, `Elect`, `Promote`, `PromoteLists`, `PromoteFunc`, `Demote`, `Resign`, shutdown |
| `Admission` | the webhook's pods, certificate and configurations, and those who write requests | `secret`, `pod`, `leader`, `hook`, `stored` | `reconcileCertificate`, `NewDefaultingAdmissionController`, `NewValidationAdmissionController`, `SecretSeen`, `Elected`, `Demoted`, `PodCrashes`, `Expires`; `Create`, `Relabel`, `UpdateStatus` |
| `Sharing` | which memory the goroutines of a process refer to | `cache`, `store`, `core`, `resolution`, `caller`, `resource`, `annotations` | `Reconcile`, `updateStatus`, `Resolve`, `DataFromConfigMap`, `Submit`, `Annotations`, changes seen by the informers |
| `MCResolution`, `MCRequester`, `MCResolveCall`, `MCGitResolver`, `MCBundleResolver`, `MCRequestName`, `MCSharing` | constants and symmetry for TLC | | |
| `ResolutionSystemProofs`, `ResolutionSafetyProofs`, `ResolutionProgressProofs` | theorems about `ResolutionSystem`; the last also about `Requester` | | |
| `ResolverProofs` | theorems about `ResolveCall` and `BundleResolver` | | |
| `GitResolverProofs`, `ProcessProofs`, `SharingProofs` | theorems about the module in their name | | |
| `RequestProofs` | theorems about `RequestName` and `Admission` | | |

Definitions whose comment begins with "Mutant" are not part of the model. Each is
a plausible wrong version of the definition below it, kept to show that a
property notices the difference.

### How the state corresponds to the code

* `history[k]` is every version that the object named `k` has had, `Absent` after
  a deletion. The position in the sequence is the resourceVersion. What a Get
  returns is the last one; an informer cache is `seen[c][k]`, an earlier
  position. An UpdateStatus is refused unless it carries the last position. A
  write that changes nothing makes no version, as in the API server.
* `queue[c]` is the set of names the work queue owes a worker (`pending` of
  `WorkQueue`). A name that is enqueued while a worker is at it stays there until
  the worker is done (`Dequeue` refuses busy names), and at most `Threads` names
  are worked on at a time. A name can be handed out and stay owed, when it was
  added twice and is in a lane as well as in the consumer queue; `Repeats` says
  whether that happens. The instances have `{FALSE}`, the theorems hold for both.
* `delay[k]` is the delaying queue: at most one waiting time per name, the
  earlier one when two are asked for. `AddAfter` with a delay of zero is a name
  that is due at once. `AddRateLimited` goes the same way; its back-off is the
  time until `CoreRequeue` happens, which is not bounded.
* `leader[c]` is `"promoting"` between the two halves of `Promote`.
* `core[k]` and `resolver[r][k]` are the local variables of a worker between two
  calls of the API server. Each step of a worker contains one call at most, and
  everything the code computes between two calls is part of a step.
* `Selector[r]` is the type label of a resolver's `GetSelector`.
* In `ResolveCall` a send on an unbuffered channel and its receive are one step
  (`ReceiveError`, `ReceiveResource`). A goroutine in `"sendError"` or
  `"sendResource"` whose caller has returned is blocked for ever.
* In `GitResolver` a commit is its number, and a file is the commit it is read
  from. `NewHash` and `CheckoutTarget` follow go-git: a hash in capitals or with
  more text behind it (`Respelled`) decodes to the same commit as the hash, a text
  that does not begin with hexadecimal digits (`NotAHash`) becomes the zero hash,
  and a checkout of the zero hash goes to the local branch `master`.
* In `BundleResolver` an image is the sequence of its manifest's layers. The
  content of a layer is its digest and whether all of it was read.
* `Process` refines the step from names to workers. Its refinement mapping makes
  a name owed when it is in a lane, at the hand of a lane's `process` or dirty in
  the consumer queue, and busy when it is in the consumer queue's processing set.
* In `TwoLaneQueue` `consumer` says which `select` of `runConsumer` is next: the
  one over the fast channel alone, which has a default (`QueuePoll`), or the one
  over both (`QueueSelect`). `reading` holds its two flags.
* In `Process` events go to the fast lane (`Notify`) and promoted names to the slow
  one (`PromoteFunc`, one name per step). The callback `OnStartedLeading` runs in a
  goroutine of its own for each term: it records the bucket (`Promote`), lists the
  cache (`PromoteLists`) and enqueues, and the lease can be lost, and won again,
  before each of these. `ShutDown` and `ShutDownSlow` are the two statements of
  `ShutDown`. An
  informer is a number: the one the factory shares, the one main runs and the one
  the handler was added to have to be the same.
* `owed` in `Process` is not state of the program: it holds the requests with a
  change that no `Reconcile` has looked at yet.
* In `Admission` a certificate is its number; a write is admitted when, for each
  configuration that has rules, some pod that is up serves the certificate of its
  CA bundle, and validation passes. A request of `Excluded` is in a namespace that
  the configurations' selector leaves out, and no webhook is called for it. The
  certificates and each configuration have a controller with a lease of its own,
  which can be lost while the pod goes on (`Demoted`).
* In `Sharing` a struct, map or slice is a cell, and a deep copy is a new one.
  `Owned(a)` is what the code of actor `a` may write to, `Reach(a)` all it can
  read.
* In `RequestName` the hash is the text that was written to the hasher, that is,
  a hash without collisions. `SortStrings` is the set of all ascending orders of
  the keys; that there is only one is proved (section 6).

### What is abstracted

* A result is one value for `status.data` and `status.annotations` together.
  `EmptyResources` are those with empty content, which the core cannot tell from
  no data (`HasData`).
* A condition is its status and reason. Messages are left out, and so is
  `LastTransitionTime`: its type `VolatileTime` is ignored by the semantic
  equality that `updateStatus` and `Reconcile` use.
* The clock is read once per reconcile. The code reads it twice (the comparison
  and the requeue delay); a delay that became negative in between makes
  `AddAfter` enqueue at once, as a delay of zero does. The code uses `time.Now`,
  not the clock the reconciler is given.
* The clock stops at `MaxTime`, which stands for all later times. `Create` is
  only enabled when the timeout of the new request can still expire.
* After `MaxVersion` versions of a name, users and resolvers start nothing new
  for it; what is under way and the core go on.
* In `ResolverFramework`, `resolve` is one choice between a resource, an error
  and a timeout. A resource may be taken after the deadline, since `select` picks
  freely among the ready cases. `ResolveCall` shows that the code of `resolve`
  implements this choice.
* The ConfigMap of a resolver has one key, `fetch-timeout`: missing, no duration,
  or a duration.
* A `Create` in `Submit` fails only because the request exists. Owner references
  are left out.
* A commit parameter that begins with some hexadecimal digits but fewer than a
  hash has becomes a hash no commit has; it is one of the hashes the clone does not
  contain. One that begins with a whole hash is that hash, `Respelled`.
* Of a bundle image every manifest layer has an image layer with its digest, so
  the fallback of `GetEntry` to raw layers is not reached and is left out.
* Users edit parameters (`EditSpec`), not labels; in `Admission` they edit labels.
* A request with a finalizer or a deletion timestamp, several replicas of a
  controller, the queue's rate limits and the ten-hour resync are left out. The
  resync would only add events.
* `Process` follows one of the process's informers, and one bucket. A lane, a
  client-go queue like the consumer queue, is a sequence: `process` takes a name
  out and calls `Done` at once, so its processing set is empty between steps.
* In `Controllers` both lanes are one set of names and `PromoteFunc` is one step,
  after the bucket has been recorded; `Process` has the finer steps.
* In `Admission` a request is its labels and whether it is done.
* All controllers lead in the initial state, with empty caches and queues;
  election is exercised by the faults `"restart"` and `"demote"`.

## 3. Properties

| property | says |
|---|---|
| `TypeOK` | types; a requeue delay is never negative; in `Process`, the consumer queue's line is exactly what is dirty and not processed, whichever lanes it came through |
| `ResolversRespectDone` | no step of a resolver changes the condition of a request that is done |
| `SucceededHasResult` | a succeeded request has a result |
| `TimeoutNotEarly` | `ResolutionTimedOut` is never seen before the timeout of this request |
| `NoLostTimeout` | while the core leads, a request that is not done is in its queue, its delaying queue, with a worker, or its cache is behind |
| `NoAbandonedRequest` | the same for a resolver and an unanswered request with its label |
| `WorksOnSelected` | a resolver works only on requests with its label; holds until a promotion (section 5) |
| `EventuallyDone` | every request is eventually done for good |
| `AnswerHasResult` | when `Submit` reports success it returns data |
| `EventuallyAnswered` | a client that keeps asking gets a resource or an error |
| `ImplementsOutcome` | `resolve` implements the abstract call: one outcome that never changes, no early timeout |
| `BlockedOnlyAfterTimeout` | only a call that timed out leaves its goroutine blocked |
| `EveryCallReturns` | every call of `resolve` returns, even if the resolver never does |
| `AnnotationNamesCommit` | the commit annotation decodes to the commit the file was read from |
| `FileOfAskedCommit` | the file is that of the commit asked for, or of a commit the branch was at during the call |
| `FirstMatchReturned` | `GetEntry` returns the whole first layer with the kind and name asked for |
| `NoMatchMeansNone` | `GetEntry` reports "no matching image layer" only if there is none |
| `Reproducible` | a name does not depend on the order of map iteration |
| `ValuesTellApart` | values of the same lengths under the same keys give the same name only if they are equal |
| `ReadyBeforeWork` | workers run only when the resolver is valid and initialized, its configuration is loaded and the handler listens to the informer that runs |
| `OwnProcessesStart` | no check during startup refuses the repository's own controllers |
| `NoMissedChange` | every change made before, during or after startup is on its way to a reconcile; the way may be a promotion that is still to list it |
| `EventuallyReconciled` | and a reconcile looks at it, unless the process dies or stops; what the core skipped while it did not lead is included, and comes through the slow lane |
| `EventuallyStops` | a process that is told to stop ends: both lanes are drained and closed, then the consumer queue, then the workers leave |
| `ImplementsWorkQueue` | the two lanes, their channels and the consumer queue implement `WorkQueue`: no name is lost or given to two workers |
| `NoNameStarves` | and its fairness: no name waits for ever while others are handed out, in the slow lane neither |
| `LabelsGuarded` | once the validating webhook has rules, no request appears without a type label or loses it, but for those in excluded namespaces |
| `RotationSettles` | after every change of certificates, pods and configurations agree on the last one |
| `LabelledDone` | no outage of the webhook keeps the core from finishing a request for good, if it is labelled or in an excluded namespace |
| `NoSharedWrites` | what one goroutine may write, no other can read |
| `DoneIsFinal`, `NoResultOverwritten`, `AnswerStands`, `OwnReasonReported`, `CredentialsOfServiceAccount`, `EveryPartHashed`, `NoZombies` | stated by comments and documentation, refuted (section 5) |

## 4. Runs

| run | instance | checks | distinct states |
|---|---|---|---|
| `churn` | 1 request of 2 possible types, 1 resolver, edits, deletion and creation under the same name | `TypeOK`, `SucceededHasResult`, `NoLostTimeout`, `NoAbandonedRequest`, `ResolversRespectDone` | 811 174 |
| `liveness` | 1 request, one fault: failed call, restart or lost lease; fair | `NoLostTimeout`, `TimeoutNotEarly`, `EventuallyDone` | 352 454 |
| `requester` | 1 request, a client, the whole system, a resource with and one without content, fair | `AnswerHasResult`, `WorksOnSelected`, `EventuallyAnswered` | 250 183 |
| `resolve_call` | 2 calls on 2 threads, 1 configuration change, fair | `TypeOK`, `BlockedOnlyAfterTimeout`, `ImplementsOutcome`, `EveryCallReturns` | 62 960 |
| `git_resolver` | 2 branches, 3 commits, all combinations of parameters, each hash in two spellings | `TypeOK`, `AnnotationNamesCommit`, `FileOfAskedCommit` | 428 873 |
| `bundle_resolver` | all images of up to 2 of the layers in `MCBundleResolver`, the tag moves once | `BundleTypeOK`, `FirstMatchReturned`, `NoMatchMeansNone` | 3 009 120 |
| `request_names` | all pairs of requests over 3 characters, 2 parameters | `Reproducible`, `ValuesTellApart` | 510 021 |
| `process` | the core or a resolver with an empty or a proper config name, 2 requests of which one exists already, 2 threads, 1 change or lost lease, fair | `TypeOK`, `ReadyBeforeWork`, `NoMissedChange`, `OwnProcessesStart`, `EventuallyReconciled`, `EventuallyStops`, `ImplementsWorkQueue`, `NoNameStarves` | 153 454 |
| `admission` | 2 pods, 2 requests of which one is in an excluded namespace, 2 certificates, 1 crash or lost lease, 2 edits, fair | `AdmissionTypeOK`, `LabelsGuarded`, `RotationSettles`, `LabelledDone` | 224 663 |
| `sharing` | 1 request, 2 resolutions at a time (symmetric), 2 watch events | `TypeOK`, `NoSharedWrites` | 468 918 |

The runs `answer_stands` and `promotion` end with a counterexample (section 5).
Every passing run ends within three minutes on two cores.

**Bounds.** The timeout is one unit, so a clock of 0..2 has a time before, at and
after the limit. After `MaxVersion` versions users and resolvers start nothing
new. `churn` and `liveness` have 3: a resolver can start again after the creation
and one more write, the core's first update or a user's edit, and all that was
under way still adds its versions. `requester` has 2, since each version is one
more that the client's lister can be at; `answer_stands` has 4.
`RetrySteps` is 2 (5 in client-go): one attempt from the cache and one after a
Get; a further attempt repeats the second. One request is enough for the
composed system because requests only meet in the number of threads. That no
request keeps another one waiting for ever is `NoNameStarves`, with two requests
and two threads; `MCTwoRequests.cfg` (by hand, with `MCResolution`) also passes
with two requests and one thread, the resolvers being silent.
In `resolve_call` timeouts of 0, 1 and 2 units meet a clock of 0..3, so calls
start with different deadlines and each can expire; two calls are enough as calls
share only the threads and the configuration. `request_names` has texts of one
character, enough for all orders of two keys; texts of different lengths appear
through empty values. In `process` the core stands for a controller without a
configuration. The name that exists is listed by the informer and again by the
promotion, so it can be in both lanes, in the consumer queue and at a worker at
once, and one change or lost lease adds a second round. The events are bounded: a
fast lane that is never found empty keeps the slow one waiting for ever, and is
meant to (its contents are processed "if fast queue has no items").
In `admission` two certificates are one rotation after the first, which a crash
or a lost lease can interrupt at any step. In `sharing` cells are not bounded: a
new cell is one of its kind that nobody refers to, so that cells are used again
and the states stay few. The theorems of section 6 hold without bounds on their
constants.

**Deadlock** is checked in `sharing` only. In the other modules something ends:
when the bounded clock has run out and every request is done, when a process has
exited, or when a call has returned, nothing is left to do.

**Fairness** (`FairSpec`). Time passes; the core's informer delivers; the elector
runs for the lease again and `PromoteFunc` finishes; the delaying queue's loop
hands over names that are due: weak fairness, since nothing disables these for
good. `CoreWork(k)` is strongly fair: a worker at another name disables it again
and again, but the queue reaches `k` all the same, which is what `NoNameStarves`
shows of the code of the queue. Nothing is
assumed of users and resolvers, so the core alone makes `EventuallyDone` true.
`FairSystemSpec` adds that the client's informer delivers and that the client
calls `Submit` again, as `ErrorRequestInProgress` asks it to. In `ResolveCall`,
`FairSpec` says that time passes and that a `select` with a case that stays ready
takes one; nothing is assumed of the resolver. In `Process` it is enough that some
goroutine of the process goes on while one can (weak fairness of all their steps
together, the elector's among them), and that `runConsumer` does: it is apart
because it spins, between a channel that is closed and one that is empty. Nothing
is assumed of users, signals or the loss of a lease, and nothing of which name is
next: the order in the queues and the two `select` statements make each one's turn
come. In `Admission`, weak fairness says that the webhook goes on while some pod
can restart, win a lease, see the secret or reconcile, and strong fairness that
some `UpdateStatus` that is accepted again and again is made: the core tries again
for ever, and its attempts are not for ever sent to the pod that does not answer.

## 5. Where the code and its comments disagree

Each of these runs ends with a counterexample.

* `answer_stands`: core updates from stale copies first remove a result, then
  write success from a version that had it, then a time-out from one that had
  not. A client gets the resource and later an error. `IsDone` is documented as
  "a completed state".
* `promotion`: after a restart and promotion, a resolver works on requests of
  another type, since `PromoteFunc` enqueues everything and `Reconcile` does not
  look at labels. `GetSelector` is documented as "the labels that are used to
  direct resolution requests to this resolver".

The same models have further counterexamples, each with a configuration that TLC
runs by hand (`tlc -config MCDoneIsFinal.cfg MCResolution`). The module is
`MCResolution` unless another is given.

* `MCResultOverwritten.cfg`, `NoResultOverwritten`:
  `updateStatus` meets a conflict because a resolver has
  patched the result in; the retry assigns the status computed from the old copy
  and the result is gone. A comment in the same file says "we don't want to
  overwrite a prior update to status with this stale state".
* `MCDoneIsFinal.cfg`, `DoneIsFinal`:
  a resolver fails a request before the core has observed its
  generation; the core resets the condition and marks the request in progress.
  `OnError` calls this "a terminal situation that cannot be recovered from".
* `MCDroppedError.cfg`, `NoAbandonedRequest`:
  one failed call in `MarkFailed`, and the request is neither
  failed nor queued again. It is left to the core's timeout. The comment on
  `Reconcile` says errors "are handled by updating or failing the
  ResolutionRequest".
* `MCRecreated.cfg`, `TimeoutNotEarly`:
  the retry fetches by name, so the time-out of a deleted request is
  written to a new one of the same name. `ReasonResolutionTimedOut` "indicates
  that a resolver did not manage to respond to a ResolutionRequest within a
  timeout".
* `MCGitNotAHash.cfg` with `MCGitResolver`, `AnnotationNamesCommit`:
  a commit parameter such as a tag name is turned into the zero
  hash, `master` is checked out, and the annotation is the tag name.
  `AnnotationKeyCommitHash` is "the commit hash that was fetched from git".
* `MCLostReason.cfg` with `MCResolveCall`, `OwnReasonReported`:
  `resolve` wraps a resolver's error and `ReasonError` looks only
  at the outermost type, so the error's own reason is lost. The `Resolver`
  interface says "its Reason and Message are used as part of the response".
* `MCBundleCredentials.cfg` with `MCBundleResolver`, `CredentialsOfServiceAccount`:
  the error of `k8schain.New` is dropped and the image is
  fetched without credentials. The parameter is documented as "the name of the
  service account to use when constructing registry credentials".
* `MCNameCollision.cfg` with `MCRequestName`, `EveryPartHashed`:
  texts are hashed without separators, so requests with
  different parameters can have one name. The comment on
  `GenerateDeterministicName` describes a hash made of the hash of each part.
* `MCZombies.cfg` with `Admission`, `NoZombies`:
  a request without a type label is created before the
  validating webhook has rules. Once it has, every status update of this request
  is refused, so it cannot be timed out. A comment on the framework's interface
  says of the global timeout, "This prevents zombie requests (such as those with a
  misconfigured `type`) sticking around in perpetuity".

Seen while reading: the bundle resolver's README gives its type as
`bundle`, the code selects `bundles`.

## 6. What is proved

The theorems hold for all sets of requests, resolvers, resources and types, any
number of threads, retries, versions and faults, under the named assumptions on
the constants of the modules they are about: `ConstantsAssumption`,
`ClusterAssumption`, `ControllersAssumption`, `CoreAssumption`,
`ResolverAssumption` (the composed system and its clients), `CallAssumption`,
`GitAssumption`, `BundleAssumption`, `QueueAssumption` with `ProcessAssumption`,
`SharingAssumption`, `NameAssumption` and `AdmissionAssumption`. `BundleResolver`
and `Admission` name their specifications `BundleSpec` and `AdmissionSpec`, because
each shares a module of proofs with another component.

| theorem | further assumption | along which invariant |
|---|---|---|
| `TypeCorrect`: `Spec => []TypeOK` | | `TInv`: `TypeOK` and no cache ahead of the API server. The second is needed because a cached copy is typed only if that version exists. |
| `SuccessHasResult`: `[]SucceededHasResult` | | `ResultInv`: success comes with a result in **every** version, not only the last, and in the status every core worker is about to write, since workers decide on old versions. |
| `ResolversKeepConditions`: `ResolversRespectDone` | | `CheckedInv`: a resolver worker about to update holds a version that was not done when it was fetched; the update is only accepted while this version is the last. |
| `NoEarlyTimeout`: `[]TimeoutNotEarly` | `~AllowDelete` | `TimeInv`: all versions of a name were created at the same time, and a worker that wants to write `ResolutionTimedOut` decided so after the timeout. The assumption is needed, as `MCRecreated.cfg` shows. |
| `CoreKeepsLooking`: `[]NoLostTimeout` | | `FinalInv`: a worker that will ask for no requeue wants to write a final status. Every path out of a worker then leaves a final status, a new version to be seen, or a waiting name. |
| `ResolversKeepLooking`: `[]NoAbandonedRequest` | no failing calls | `EventInv` and `ResultInv`: a worker that ends has written a result, met a final condition, or met a version its cache has not seen. The assumption is needed, as `MCDroppedError.cfg` shows. |
| `RequesterIsUser`: the system with clients implements the system | | none: a `Submit` that creates is a user's `Create`, everything else leaves the system alone or is a step of it. All of the above then holds with clients. |
| `SuccessIsAnswered`: `[]AnswerHasResult` | | `ToldInv`, from `ResultInv` carried over by `RequesterIsUser`: no client's lister is ahead of the API server, so that a client reads some version, and every version has it. |
| `GoroutinesEnd`: `[]BlockedOnlyAfterTimeout` | | `CallInv`: also how the places of caller and goroutine and the outcome of a call belong together. |
| `ResolveKeepsPromise`: `ImplementsOutcome` | | `CallInv`: every step of `ResolveCall` is a step of `ResolveOutcome` or leaves its variables alone. The refinement mapping is the identity on `outcome`, `deadline` and `now`. |
| `AnnotationCorrect`: `[]AnnotationNamesCommit` | the commit parameter is empty or begins with a hexadecimal digit pair (`NotAHash \notin CommitTexts`) | `GitInv`: after the clone, `commit` is a hash, so that the checkout never falls back to `master`. The assumption is needed, as `MCGitNotAHash.cfg` shows. |
| `AskedFileReturned`: `[]FileOfAskedCommit` | the same | `AskedInv`: what is fetched was the branch's commit at some time since the request, and a checkout stays within what was fetched. |
| `FirstMatch`: `[]FirstMatchReturned`; `NoMatch`: `[]NoMatchMeansNone` | | `ScanInv`: while the image is scanned, no layer before the position matches. |
| `ProcessImplementsWorkQueue`: `ImplementsWorkQueue` | | `QInv`: the line holds what is dirty and not processed, each name once, and every processed name has a worker; `ShutInOrder`: the fast lane shuts before the slow one, a lane that closed its channel is shut and drained, and the consumer queue shuts after `runConsumer` has seen both closed. The handover between queues is a stutter of `WorkQueue`, and a worker may leave only when nothing it could take is left in any of them. |
| `ProcessReady`: `[]ReadyBeforeWork` | | `MainInv`: what each stage of main has behind it. |
| `ProcessStarts`: `[]OwnProcessesStart` | the git resolver's ConfigMap exists (part of `Git`) | the same; none of the checks that end a process applies to these controllers. |
| `ProcessMissesNothing`: `[]NoMissedChange` | | `ChangeInv`: a change is at the watch, in the handler's inbox, in the queue, with a worker that has not read the cache, or in the list of a promotion or in the cache that a promotion is about to list, and each step passes it on. `ElectionInv`: a lease was lost between any two terms, and terms to come have no promotion yet. |
| `WritesAreUnshared`: `[]NoSharedWrites` | | `SharingInv`: types, and that a core that reconciles has its two objects. In each step one actor moves, to cells it or the informers had or to new ones. That there is a new cell, and that nobody refers to it, is the lemma `NewIsNew`, a pigeonhole argument over what the finitely many actors reach. |
| `NamesReproducible`: `[]Reproducible` | | `NameInv`: what the hasher has been given is determined by the keys in ascending order, and what is left of them is yet to come. `AscendingUnique`: a set of texts has one ascending order; `OneName`: hence a request has one name. |
| `NamesTellApart`: `[]ValuesTellApart` | | `NameInv` and `OneRequest`: the two texts are equally long after each parameter, so that key and value can be cut off their ends, one after the other. |
| `LabelsAreGuarded`: `LabelsGuarded` | | `WebhookInv`: types only. Every write is admitted, and once there are rules a request without a type label is not, unless its namespace is excluded. |
| `GitTyped`: `[]TypeOK` | | `GitTypes`: nothing is checked out before the checkout, and the clone has the commit its HEAD is at; so the worktree is at a fetched commit even where the commit parameter is no hash. |
| `CallTyped`, `BundleTyped`, `SharingTyped`, `ProcessTyped`, `AdmissionTyped`: `[]TypeOK`, `[]BundleTypeOK`, `[]AdmissionTypeOK` | as for the other theorems about the module | `CallInv`, `BundleTypeOK` itself, `SharingInv`, `QInv` with `MainInv` and `FollowInv` (caches and lists follow the API server), and `WebhookInv` (a certificate that ends has a successor within the bound). |

Each proof has one step per action of `Next`; those about the whole system go
through the lemmas `Writers` (who appends a version, and which), `CoreWorkerStep`
and `ResolverWorkerStep` (how a worker's local state comes about).

**Only model-checked**: everything about what eventually happens
(`EventuallyDone`, `EventuallyAnswered`, `EveryCallReturns`,
`EventuallyReconciled`, `EventuallyStops`, `NoNameStarves`, `RotationSettles`,
`LabelledDone`), as liveness under fairness is out of reach of the proof
system; and `WorksOnSelected`, which holds without promotions only and would need
an assumption that no real process meets. Every other invariant, action property
and refinement that a passing run checks is also proved. The induction over
parameters that the properties of names need goes through sets of numbers
(`LeastNumber`, `AllNumbers`), since the provers cannot use an induction theorem
with an operator as its parameter.

## 7. What is not modelled

* The transport of git and of registries, metrics, logging, the recorder of
  events: input and output without state of the program.
* The webhook for the ConfigMaps of logging and metrics, which knative provides
  as a whole, and `SetDefaults`, which fills in the kind of the object and
  nothing a property looks at.
* The request-scoped context values (name and namespace): set once, then read.
* The construction of clients: the limits on their rate are validated or
  defaulted before, so that `NewForConfig` cannot fail on them. Fakes, filtered
  informers and the dynamic client are used by no main.
* Lists of requests through the API, and the copies of such lists, which no code
  here asks for apart from the informer's own list.
* Finalizers and observers: `ReconcileKind`'s type implements neither interface,
  so those branches of the generated reconciler are dead. Nothing here waits for
  a deletion timestamp.
* Owner references and the garbage collection they lead to.
* Several replicas of a controller, each with a lease.

## 8. Where to go from here

* Results that remember the generation they were resolved for, so that a stale
  result after `EditSpec` can be stated.
* Several replicas of a controller, with leases that overlap.
* Edits of labels in the composed system, where they move a request from one
  resolver to another.
