----------------------------- MODULE ResolveCall -----------------------------
(***************************************************************************)
(* The inside of the resolver framework's resolve: the goroutine that runs *)
(* ValidateParams and Resolve, its two unbuffered channels, the timer of   *)
(* resolutionCtx and the select that waits for the first of them, together *)
(* with the configuration a call takes from the config store.              *)
(*                                                                         *)
(* Every call makes its own channels, so a send of goroutine c only meets  *)
(* the select of call c; a send and its receive are one step.  At most     *)
(* Threads calls wait at the same time; a goroutine outlives its call.     *)
(***************************************************************************)
EXTENDS ResolutionRequest, FiniteSets

CONSTANTS
    Calls,             \* calls of resolve
    Threads,           \* worker threads of the controller
    OwnReasons,        \* reasons a resolver gives its own common.Errors
    DefaultTimeout,    \* defaultMaximumResolutionDuration of the framework
    Durations,         \* fetch-timeouts an admin may configure
    MaxTime,           \* bound on the clock
    MaxChanges         \* bound on changes of the ConfigMap

ASSUME CallAssumption ==
    /\ DefaultTimeout \in Nat
    /\ Durations \subseteq Nat
    /\ MaxTime \in Nat
    /\ MaxChanges \in Nat

\* fetch-timeout in the ConfigMap: missing, not a duration, or a duration.
Unset == -1
Unparsable == -2
Configs == Durations \cup {Unset, Unparsable}

VARIABLES
    now,        \* the time
    changes,    \* changes of the ConfigMap so far
    config,     \* what the config store holds
    caller,     \* caller[c]: where the worker that runs call c is
    deadline,   \* deadline[c]: of resolutionCtx
    goroutine,  \* goroutine[c]: what the goroutine of call c is doing
    message,    \* message[c]: what it is sending
    outcome     \* outcome[c]: what select received

vars == <<now, changes, config, caller, deadline, goroutine, message, outcome>>

\* What a goroutine sends on errChan: its error, and the reason of the
\* common.Error wrapped in it if there is one.
Errors ==
    [type : {"ErrorInvalidRequest", "ErrorGettingResource"},
     reason : OwnReasons \cup {""}]

\* Reasons a call can end with.
Reasons == OwnReasons \cup {ReasonResolutionFailed}

Outcome(kind, value) == [kind |-> kind, value |-> value]

NotCalled == Outcome("notCalled", "")
Pending == Outcome("pending", "")

Outcomes ==
    {NotCalled, Pending}
      \cup [kind : {"resource"}, value : Resources]
      \cup [kind : {"error", "timeout"}, value : Reasons]

NoMessage == Error("", "")

TypeOK ==
    /\ now \in 0 .. MaxTime
    /\ changes \in 0 .. MaxChanges
    /\ config \in Configs
    /\ caller \in [Calls -> {"notCalled", "select", "returned"}]
    /\ deadline \in [Calls -> 0 .. MaxTime]
    /\ goroutine \in
         [Calls -> {"none", "validate", "resolve", "sendError", "sendResource",
                    "exited"}]
    /\ message \in [Calls -> Errors \cup Resources \cup {NoMessage}]
    /\ \A c \in Calls :
         /\ goroutine[c] = "sendError" => message[c] \in Errors
         /\ goroutine[c] = "sendResource" => message[c] \in Resources
    /\ outcome \in [Calls -> Outcomes]

Init ==
    /\ now = 0
    /\ changes = 0
    /\ config \in Configs
    /\ caller = [c \in Calls |-> "notCalled"]
    /\ deadline = [c \in Calls |-> 0]
    /\ goroutine = [c \in Calls |-> "none"]
    /\ message = [c \in Calls |-> NoMessage]
    /\ outcome = [c \in Calls |-> NotCalled]

-----------------------------------------------------------------------------
\* The git resolver's timeout; a value it cannot parse is ignored.
GetResolutionTimeout(conf) ==
    IF conf \in Durations THEN conf ELSE DefaultTimeout

\* The time a context.WithTimeout of duration d started now expires.
WithTimeout(d) == IF now + d < MaxTime THEN now + d ELSE MaxTime

\* The configuration that Reconcile copies into the context of a call.
ToContext == config

\* The config store replaces its copy of the ConfigMap.
OnConfigChanged(conf) ==
    /\ changes < MaxChanges
    /\ conf # config
    /\ config' = conf
    /\ changes' = changes + 1
    /\ UNCHANGED <<now, caller, deadline, goroutine, message, outcome>>

\* Reconcile puts a copy of the configuration into the context; resolve
\* takes its timeout from it, starts the goroutine and goes to its select.
Resolve(c) ==
    /\ caller[c] = "notCalled"
    /\ Cardinality({d \in Calls : caller[d] = "select"}) < Threads
    /\ caller' = [caller EXCEPT ![c] = "select"]
    /\ deadline' =
         [deadline EXCEPT ![c] = WithTimeout(GetResolutionTimeout(ToContext))]
    /\ goroutine' = [goroutine EXCEPT ![c] = "validate"]
    /\ outcome' = [outcome EXCEPT ![c] = Pending]
    /\ UNCHANGED <<now, changes, config, message>>

-----------------------------------------------------------------------------
(***************************************************************************)
(* The goroutine.  The resolver's calls return at any time or never.       *)
(***************************************************************************)
Send(c, channel, value) ==
    /\ goroutine' = [goroutine EXCEPT ![c] = channel]
    /\ message' = [message EXCEPT ![c] = value]
    /\ UNCHANGED <<now, changes, config, caller, deadline, outcome>>

ValidateParamsReturns(c) ==
    /\ goroutine[c] = "validate"
    /\ goroutine' = [goroutine EXCEPT ![c] = "resolve"]
    /\ UNCHANGED <<now, changes, config, caller, deadline, message, outcome>>

\* Only the text of a validation error is kept.
ValidateParamsFails(c) ==
    /\ goroutine[c] = "validate"
    /\ Send(c, "sendError", Error("ErrorInvalidRequest", ""))

ResolveReturns(c, resource) ==
    /\ goroutine[c] = "resolve"
    /\ Send(c, "sendResource", resource)

\* The resolver's error is wrapped: reason is the one of its common.Error,
\* or empty for any other error.
ResolveFails(c, reason) ==
    /\ goroutine[c] = "resolve"
    /\ Send(c, "sendError", Error("ErrorGettingResource", reason))

-----------------------------------------------------------------------------
(***************************************************************************)
(* The select.  Of several cases that are ready it takes any.  After it    *)
(* nobody receives from the channels of this call any more.                *)
(***************************************************************************)
Return(c, result) ==
    /\ caller' = [caller EXCEPT ![c] = "returned"]
    /\ outcome' = [outcome EXCEPT ![c] = result]
    /\ UNCHANGED <<now, changes, config, deadline, message>>

\* Mutant: the goroutine does not return after it has sent an error.
ReceiveErrorNoReturn(c) ==
    /\ caller[c] = "select"
    /\ goroutine[c] = "sendError"
    /\ goroutine' = [goroutine EXCEPT ![c] = "resolve"]
    /\ Return(c, Outcome("error", ReasonError(message[c])))

\* Mutant: the reason of the original error is used without a default.
ReceiveErrorOwnReason(c) ==
    /\ caller[c] = "select"
    /\ goroutine[c] = "sendError"
    /\ goroutine' = [goroutine EXCEPT ![c] = "exited"]
    /\ Return(c, Outcome("error", message[c].reason))

\* case err := <-errChan, up to the reason MarkFailed writes
ReceiveError(c) ==
    /\ caller[c] = "select"
    /\ goroutine[c] = "sendError"
    /\ goroutine' = [goroutine EXCEPT ![c] = "exited"]
    /\ Return(c, Outcome("error", ReasonError(message[c])))

\* case resource := <-resourceChan
ReceiveResource(c) ==
    /\ caller[c] = "select"
    /\ goroutine[c] = "sendResource"
    /\ goroutine' = [goroutine EXCEPT ![c] = "exited"]
    /\ Return(c, Outcome("resource", message[c]))

\* Mutants: the context is done from the start; the context never expires.
ContextDoneAtOnce(c) ==
    /\ caller[c] = "select"
    /\ Return(c, Outcome("timeout", ReasonError(Error("DeadlineExceeded", ""))))
    /\ UNCHANGED goroutine

ContextDoneNever(c) ==
    /\ caller[c] = "select"
    /\ deadline[c] > MaxTime
    /\ Return(c, Outcome("timeout", ReasonError(Error("DeadlineExceeded", ""))))
    /\ UNCHANGED goroutine

\* case <-resolutionCtx.Done(): the goroutine is left behind.
ContextDone(c) ==
    /\ caller[c] = "select"
    /\ deadline[c] <= now
    /\ Return(c, Outcome("timeout", ReasonError(Error("DeadlineExceeded", ""))))
    /\ UNCHANGED goroutine

Tick ==
    /\ now < MaxTime
    /\ now' = now + 1
    /\ UNCHANGED <<changes, config, caller, deadline, goroutine, message,
                   outcome>>

Select(c) == ReceiveError(c) \/ ReceiveResource(c) \/ ContextDone(c)

Goroutine(c) ==
    \/ ValidateParamsReturns(c)
    \/ ValidateParamsFails(c)
    \/ \E resource \in Resources : ResolveReturns(c, resource)
    \/ \E reason \in OwnReasons \cup {""} : ResolveFails(c, reason)

Next ==
    \/ \E conf \in Configs : OnConfigChanged(conf)
    \/ \E c \in Calls : Resolve(c) \/ Goroutine(c) \/ Select(c)
    \/ Tick

Spec == Init /\ [][Next]_vars

-----------------------------------------------------------------------------
(***************************************************************************)
(* Properties.                                                             *)
(***************************************************************************)

\* resolve keeps the promise the rest of the framework relies on: a call
\* ends once, with a resource, an error, or a timeout after its deadline,
\* and nothing a goroutine does later changes that.
Promise == INSTANCE ResolveOutcome

ImplementsOutcome == Promise!Spec

\* A goroutine is only left blocked on its channel by a call that timed
\* out: in every other case the select has received what it sends.
BlockedOnlyAfterTimeout ==
    \A c \in Calls :
        /\ caller[c] = "returned"
        /\ goroutine[c] # "exited"
        => outcome[c].kind = "timeout"

\* The reason of a common.Error that a resolver returns is the reason the
\* request fails with.
OwnReasonReported ==
    \A c \in Calls :
        /\ outcome[c].kind = "error"
        /\ message[c].reason # ""
        => outcome[c].value = message[c].reason

(***************************************************************************)
(* Time passes and a select takes a case once one stays ready; nothing is  *)
(* assumed of the resolver.                                                *)
(***************************************************************************)
FairSpec ==
    /\ Spec
    /\ WF_vars(Tick)
    /\ \A c \in Calls : WF_vars(Select(c))

\* Every call of resolve returns, even if the resolver ignores its context
\* and Resolve never does.
EveryCallReturns ==
    \A c \in Calls : caller[c] = "select" ~> caller[c] = "returned"
=============================================================================
