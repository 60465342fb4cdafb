------------------------------ MODULE Requester ------------------------------
(***************************************************************************)
(* CRDRequester: the library with which a client (Tekton Pipelines) asks   *)
(* for a resource, composed with the whole system.  The client calls       *)
(* Submit again until it gets an answer; Submit reads the request from a   *)
(* lister, that is, from the client's own informer cache.                  *)
(***************************************************************************)
EXTENDS ResolutionSystem

VARIABLES
    view,  \* view[k]: the version of request k the client's lister has
    told   \* told[k]: what the last Submit of k returned

requesterVars == <<view, told>>
allVars == <<vars, requesterVars>>

Answer(kind, data) == [kind |-> kind, data |-> data]

NotAsked == Answer("notAsked", NoData)
RequestInProgress == Answer("inProgress", NoData)
AlreadyExists == Answer("alreadyExists", NoData)
ResolutionFailed == Answer("failed", NoData)

RequesterTypeOK ==
    /\ \A k \in Requests : view[k] \in 0 .. Latest(k)
    /\ told \in
         [Requests ->
            [kind : {"notAsked", "inProgress", "alreadyExists", "failed",
                     "resource"},
             data : Resources \cup {NoData}]]

RequesterInit ==
    /\ view = [k \in Requests |-> 0]
    /\ told = [k \in Requests |-> NotAsked]

-----------------------------------------------------------------------------
Listed(k) == Version(k, view[k])

Told(k, answer) == told' = [told EXCEPT ![k] = answer]

\* The client's informer catches up, one version after the other.
Observe(k) ==
    /\ view[k] < Latest(k)
    /\ view' = [view EXCEPT ![k] = @ + 1]
    /\ UNCHANGED <<told, vars>>

\* The lister has no request: create one.
SubmitCreates(k, type) ==
    /\ Listed(k) = Absent
    /\ Create(k, type)
    /\ Told(k, RequestInProgress)
    /\ UNCHANGED <<view, controllerVars, coreVars, resolver>>

\* The lister has no request, but the API server does.
SubmitFindsExisting(k) ==
    /\ Listed(k) = Absent
    /\ Present(k)
    /\ Told(k, AlreadyExists)
    /\ UNCHANGED <<view, vars>>

\* Mutant: any condition that is not False counts as success.
ReadRequestUnlessFailed(rr) ==
    IF rr.status.cond.status = "False" THEN ResolutionFailed
    ELSE Answer("resource", rr.status.data)

\* Mutant: a failed request counts as still in progress.
ReadRequestUntilSuccess(rr) ==
    IF rr.status.cond.status = "True"
    THEN Answer("resource", rr.status.data)
    ELSE RequestInProgress

\* What Submit returns for a request the lister has.
ReadRequest(rr) ==
    IF IsUnknown(rr.status) THEN RequestInProgress
    ELSE IF rr.status.cond.status = "True"
         THEN Answer("resource", rr.status.data)
    ELSE ResolutionFailed

SubmitReads(k) ==
    /\ Listed(k) # Absent
    /\ Told(k, ReadRequest(Listed(k)))
    /\ UNCHANGED <<view, vars>>

Submit(k, type) ==
    SubmitCreates(k, type) \/ SubmitFindsExisting(k) \/ SubmitReads(k)

RequesterNext ==
    \E k \in Requests : Observe(k) \/ \E type \in Types : Submit(k, type)

SystemInit == Init /\ RequesterInit

SystemNext == (Next /\ UNCHANGED requesterVars) \/ RequesterNext

SystemSpec == SystemInit /\ [][SystemNext]_allVars

-----------------------------------------------------------------------------
(***************************************************************************)
(* Properties.                                                             *)
(***************************************************************************)

\* Whenever Submit reports success it returns a result: in every version a
\* stale lister can show, success comes with the data of a resolver.
AnswerHasResult ==
    \A k \in Requests : told[k].kind = "resource" => told[k].data # NoData

\* A client that was given a resource is not told later that the same
\* request failed: a completed request stays as it was completed.
AnswerStands ==
    [][\A k \in Requests :
         told[k].kind = "resource" => told'[k].kind # "failed"]_allVars

(***************************************************************************)
(* The client's informer delivers and the client calls Submit again and    *)
(* again, as Submit's "still in progress" error asks it to.                *)
(***************************************************************************)
RequesterFairness ==
    \A k \in Requests :
        /\ WF_allVars(Observe(k))
        /\ WF_allVars(SubmitReads(k))

FairSystemSpec == SystemSpec /\ Fairness /\ RequesterFairness

\* A client that has asked, and keeps asking, is given a resource or an
\* error in the end and is not put off for ever - even if no resolver
\* answers, or if somebody else created the request.
EventuallyAnswered ==
    \A k \in Requests :
        told[k].kind # "notAsked" ~> told[k].kind \in {"resource", "failed"}
=============================================================================
