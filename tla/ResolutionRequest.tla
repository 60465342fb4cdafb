-------------------------- MODULE ResolutionRequest --------------------------
(***************************************************************************)
(* The ResolutionRequest object and the pure functions on it.              *)
(*                                                                         *)
(* A request is abstracted to what the controllers read or write:          *)
(*   generation   metadata.generation, bumped by edits of the spec         *)
(*   created      metadata.creationTimestamp                               *)
(*   type         the value of the resolution.tekton.dev/type label        *)
(*   status       the Succeeded condition, the resolved result and         *)
(*                status.observedGeneration                                *)
(*                                                                         *)
(* A result stands for the pair status.data, status.annotations written    *)
(* by a resolver.  The base64 text of a resource with no content is the    *)
(* empty string, which the core controller cannot tell from "no data yet": *)
(* EmptyResources are the resources for which that happens.                *)
(***************************************************************************)
EXTENDS Integers

CONSTANTS
    Resources,        \* what the resolvers can return
    EmptyResources,   \* those of Resources whose content is empty
    NoData,           \* status.data before any resolver wrote it
    Types,            \* values of the type label
    Timeout,          \* defaultMaximumResolutionDuration of the core
    Absent            \* "no such object"

ASSUME ConstantsAssumption ==
    /\ EmptyResources \subseteq Resources
    /\ NoData \notin Resources
    /\ Timeout \in Nat

-----------------------------------------------------------------------------
(***************************************************************************)
(* Conditions.  The request has a batch condition set: one condition,      *)
(* Succeeded, without dependents.                                          *)
(***************************************************************************)
ReasonResolutionInProgress == "ResolutionInProgress"
ReasonResolutionFailed == "ResolutionFailed"
ReasonResolutionTimedOut == "ResolutionTimedOut"
NewObservedGenFailure == "NewObservedGenFailure"

Condition(s, r) == [status |-> s, reason |-> r]

Conditions ==
    [status : {"nil", "Unknown", "True", "False"},
     reason : {"", ReasonResolutionInProgress, ReasonResolutionFailed,
               ReasonResolutionTimedOut, NewObservedGenFailure}]

NilCondition == Condition("nil", "")

Statuses ==
    [cond : Conditions, data : Resources \cup {NoData}, observedGeneration : Nat]

Objects ==
    [generation : Nat, created : Nat, type : Types, status : Statuses]

EmptyStatus ==
    [cond |-> NilCondition, data |-> NoData, observedGeneration |-> 0]

\* A missing condition counts as Unknown.
IsUnknown(s) == s.cond.status \in {"nil", "Unknown"}

IsDone(rr) == ~IsUnknown(rr.status)

\* Mutant: only the data of an empty resource counts as missing.
HasDataOrNone(s) == s.data \notin EmptyResources

\* status.data # "" as the core reads it.
HasData(s) == s.data \notin EmptyResources \cup {NoData}

InitializeConditions(s) ==
    [s EXCEPT !.cond = IF @.status = "nil" THEN Condition("Unknown", "") ELSE @]

MarkFailed(s, reason) == [s EXCEPT !.cond = Condition("False", reason)]

MarkSucceeded(s) == [s EXCEPT !.cond = Condition("True", "")]

MarkInProgress(s) ==
    [s EXCEPT !.cond = Condition("Unknown", ReasonResolutionInProgress)]

-----------------------------------------------------------------------------
(***************************************************************************)
(* What the core controller makes of a request at time now.                *)
(***************************************************************************)

\* The generated reconciler's work before ReconcileKind: a generation the
\* core has not observed yet resets the condition, a final one included.
PreProcessReconcile(rr) ==
    [rr EXCEPT !.status =
        IF @.observedGeneration # rr.generation
        THEN [@ EXCEPT !.cond = Condition("Unknown", NewObservedGenFailure)]
        ELSE InitializeConditions(@)]

requestDuration(rr, now) == now - rr.created

\* Mutant: off by one at the limit.
TimedOutAtLimit(rr, now) == requestDuration(rr, now) >= Timeout

TimedOut(rr, now) == requestDuration(rr, now) > Timeout

ReconcileKindStatus(rr, now) ==
    IF IsDone(rr) THEN rr.status
    ELSE IF HasData(rr.status) THEN MarkSucceeded(rr.status)
    ELSE IF TimedOut(rr, now)
         THEN MarkFailed(rr.status, ReasonResolutionTimedOut)
    ELSE MarkInProgress(rr.status)

\* No event; no delay a slip in the arithmetic could give.
NoRequeue == -2

\* Mutants: the time-out case falls through to the default, and no requeue.
ReconcileKindEventFallsThrough(rr, now) ==
    IF IsDone(rr) \/ HasData(rr.status)
    THEN NoRequeue
    ELSE Timeout - requestDuration(rr, now)

ReconcileKindEventNone(rr, now) == NoRequeue

\* The event ReconcileKind returns: the delay of NewRequeueAfter, or none.
ReconcileKindEvent(rr, now) ==
    IF IsDone(rr) \/ HasData(rr.status) \/ TimedOut(rr, now)
    THEN NoRequeue
    ELSE Timeout - requestDuration(rr, now)

PostProcessReconcile(rr, s) == [s EXCEPT !.observedGeneration = rr.generation]

-----------------------------------------------------------------------------
(***************************************************************************)
(* Errors of a resolver and the reason they are reported with.             *)
(***************************************************************************)
ErrorTypes ==
    {"Error", "ErrorInvalidRequest", "ErrorGettingResource",
     "ErrorUpdatingRequest", "DeadlineExceeded"}

Error(type, reason) == [type |-> type, reason |-> reason]

\* Only an error that is itself a common.Error carries a reason of its own;
\* the assertion does not look at wrapped errors.
ReasonError(err) ==
    IF err.type = "Error" THEN err.reason ELSE ReasonResolutionFailed
=============================================================================
