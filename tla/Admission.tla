------------------------------ MODULE Admission ------------------------------
(***************************************************************************)
(* The webhook: its pods, the certificate they share through a secret, the *)
(* two webhook configurations they keep up to date, and what that means    *)
(* for users who write requests and for the core controller, whose         *)
(* UpdateStatus is an update like any other.                               *)
(*                                                                         *)
(* A certificate is its number: 0 is the empty secret of the manifest, and *)
(* every new certificate has a CA of its own.  A configuration of the      *)
(* manifest has no rules, so that nothing is sent to it; the policy on     *)
(* failures is Fail.  Requests in namespaces that are labelled             *)
(* webhooks.knative.dev/exclude are not sent to it either, once the        *)
(* reconciler has set the selector that says so.                           *)
(***************************************************************************)
EXTENDS Naturals, FiniteSets

CONSTANTS
    Pods,        \* the pods of the webhook's deployment
    Requests,    \* names of requests
    Excluded,    \* those in namespaces the webhook excludes
    NoPod,       \* nobody
    MaxCerts,    \* bound on certificates
    MaxCrashes,  \* bound on pods that crash and leases that are lost
    MaxEdits     \* bound on what users do

ASSUME AdmissionAssumption ==
    /\ NoPod \notin Pods
    /\ Excluded \subseteq Requests
    /\ MaxCerts \in Nat \ {0}
    /\ MaxCrashes \in Nat
    /\ MaxEdits \in Nat

VARIABLES
    secret,    \* the certificate in the secret
    expiring,  \* it ends within a day
    pod,       \* pod[p]: is it up, and the certificate in its informer cache
    leader,    \* leader[c]: the pod that holds the lease of controller c
    hook,      \* hook[h]: have rules been set, and the CA bundle
    stored,    \* stored[k]: request k
    crashes,   \* pods that crashed and leases that were lost so far
    edits      \* what users did so far

webhookVars == <<secret, expiring, pod, leader, hook, crashes>>
admissionVars == <<webhookVars, stored, edits>>

Hooks == {"defaulting", "validation"}

\* Each controller of the webhook has a lease of its own.
Controllers == {"certificates"} \cup Hooks

Certs == 0 .. MaxCerts

\* The labels of a request: none at all, others only, the type label.
LabelSets == {"nil", "others", "type"}

Absent == [exists |-> FALSE, labels |-> "nil", done |-> FALSE]

Request(labels) == [exists |-> TRUE, labels |-> labels, done |-> FALSE]

AdmissionTypeOK ==
    /\ secret \in Certs
    /\ expiring \in BOOLEAN
    /\ pod \in [Pods -> [up : BOOLEAN, cert : Certs]]
    /\ leader \in [Controllers -> Pods \cup {NoPod}]
    /\ hook \in [Hooks -> [rules : BOOLEAN, ca : Certs]]
    /\ stored \in
         [Requests -> [exists : BOOLEAN, labels : LabelSets, done : BOOLEAN]]
    /\ crashes \in 0 .. MaxCrashes
    /\ edits \in 0 .. MaxEdits

AdmissionInit ==
    /\ secret = 0
    /\ expiring = FALSE
    /\ pod = [p \in Pods |-> [up |-> FALSE, cert |-> 0]]
    /\ leader = [c \in Controllers |-> NoPod]
    /\ hook = [h \in Hooks |-> [rules |-> FALSE, ca |-> 0]]
    /\ stored = [k \in Requests |-> Absent]
    /\ crashes = 0
    /\ edits = 0

-----------------------------------------------------------------------------
(***************************************************************************)
(* Validation.                                                             *)
(***************************************************************************)

\* Mutant: having labels at all is enough.
validateAnyLabel(rr) == rr.labels # "nil"

validateTypeLabel(rr) == rr.labels = "type"

Validate(rr) == validateTypeLabel(rr)

\* A call of hook h reaches pod p: the pod serves the certificate in its
\* cache, which the API server checks against the CA bundle.
Answers(h, p) ==
    /\ pod[p].up
    /\ pod[p].cert # 0
    /\ pod[p].cert = hook[h].ca

\* Is a write of request k sent to hook h?  Its rules and its selector for
\* namespaces are set together.
Calls(h, k) == hook[h].rules /\ k \notin Excluded

\* Mutant: a write is let through when the webhook does not answer.
AdmittedOnFailure(k, rr) ==
    \A h \in Hooks :
        Calls(h, k) => \/ ~\E p \in Pods : Answers(h, p)
                       \/ h = "validation" => Validate(rr)

\* May rr be written as k, on a create or an update, of the status or not?
\* The service picks any pod for each call; when it picks one that does not
\* answer, the write fails and may be tried again.
Admitted(k, rr) ==
    \A h \in Hooks :
        Calls(h, k) => /\ \E p \in Pods : Answers(h, p)
                       /\ h = "validation" => Validate(rr)

-----------------------------------------------------------------------------
(***************************************************************************)
(* The pods.                                                               *)
(***************************************************************************)

\* main: the informers have synced before a call is answered or a
\* reconciler runs.
PodStarts(p) ==
    /\ ~pod[p].up
    /\ pod' = [pod EXCEPT ![p] = [up |-> TRUE, cert |-> secret]]
    /\ UNCHANGED <<secret, expiring, leader, hook, crashes, stored, edits>>

PodCrashes(p) ==
    /\ pod[p].up
    /\ crashes < MaxCrashes
    /\ crashes' = crashes + 1
    /\ pod' = [pod EXCEPT ![p] = [up |-> FALSE, cert |-> 0]]
    /\ leader' = [c \in Controllers |->
                    IF leader[c] = p THEN NoPod ELSE leader[c]]
    /\ UNCHANGED <<secret, expiring, hook, stored, edits>>

\* Pod p wins the lease of controller c, and Promote enqueues its one key.
Elected(c, p) ==
    /\ leader[c] = NoPod
    /\ pod[p].up
    /\ leader' = [leader EXCEPT ![c] = p]
    /\ UNCHANGED <<secret, expiring, pod, hook, crashes, stored, edits>>

\* A pod that is up fails to renew the lease of controller c, and keeps its
\* other leases.
Demoted(c) ==
    /\ leader[c] # NoPod
    /\ crashes < MaxCrashes
    /\ crashes' = crashes + 1
    /\ leader' = [leader EXCEPT ![c] = NoPod]
    /\ UNCHANGED <<secret, expiring, pod, hook, stored, edits>>

\* The informer of p sees the secret.
SecretSeen(p) ==
    /\ pod[p].up
    /\ pod[p].cert # secret
    /\ pod' = [pod EXCEPT ![p].cert = secret]
    /\ UNCHANGED <<secret, expiring, leader, hook, crashes, stored, edits>>

\* Mutant: a certificate is made on every reconcile.
reconcileCertificateAlways(p) ==
    /\ leader["certificates"] = p
    /\ pod[p].cert = secret
    /\ secret' = secret + 1
    /\ expiring' = FALSE
    /\ UNCHANGED <<pod, leader, hook, crashes, stored, edits>>

\* certificates.NewController: the secret is filled when it is empty, and
\* again a day before the certificate ends.  The update carries the cached
\* resourceVersion, so that a stale copy is refused.
reconcileCertificate(p) ==
    /\ leader["certificates"] = p
    /\ pod[p].cert = secret
    /\ secret = 0 \/ expiring
    /\ secret' = secret + 1
    /\ expiring' = FALSE
    /\ UNCHANGED <<pod, leader, hook, crashes, stored, edits>>

\* Mutant: a configuration that has its rules is left alone.
reconcileWebhookOnce(h, p) ==
    /\ leader[h] = p
    /\ pod[p].cert # 0
    /\ ~hook[h].rules
    /\ hook' = [hook EXCEPT ![h] = [rules |-> TRUE, ca |-> pod[p].cert]]
    /\ UNCHANGED <<secret, expiring, pod, leader, crashes, stored, edits>>

\* The reconciler of a configuration writes its rules, the selector that
\* excludes namespaces, and the CA bundle in the cached secret; without one
\* there it fails and is tried again.
reconcileWebhook(h, p) ==
    /\ leader[h] = p
    /\ pod[p].cert # 0
    /\ hook[h] # [rules |-> TRUE, ca |-> pod[p].cert]
    /\ hook' = [hook EXCEPT ![h] = [rules |-> TRUE, ca |-> pod[p].cert]]
    /\ UNCHANGED <<secret, expiring, pod, leader, crashes, stored, edits>>

NewDefaultingAdmissionController(p) == reconcileWebhook("defaulting", p)

NewValidationAdmissionController(p) == reconcileWebhook("validation", p)

\* Time passes.
Expires ==
    /\ secret # 0
    /\ secret < MaxCerts
    /\ ~expiring
    /\ expiring' = TRUE
    /\ UNCHANGED <<secret, pod, leader, hook, crashes, stored, edits>>

PodRuns(p) ==
    \/ PodStarts(p)
    \/ \E c \in Controllers : Elected(c, p)
    \/ SecretSeen(p)
    \/ reconcileCertificate(p)
    \/ NewDefaultingAdmissionController(p)
    \/ NewValidationAdmissionController(p)

Webhook ==
    \/ \E p \in Pods : PodRuns(p) \/ PodCrashes(p)
    \/ \E c \in Controllers : Demoted(c)
    \/ Expires

-----------------------------------------------------------------------------
(***************************************************************************)
(* Those who write requests.                                               *)
(***************************************************************************)
WriteRequest(k, rr) ==
    /\ Admitted(k, rr)
    /\ stored' = [stored EXCEPT ![k] = rr]
    /\ UNCHANGED webhookVars

Edit == edits < MaxEdits /\ edits' = edits + 1

Create(k, labels) ==
    /\ Edit
    /\ ~stored[k].exists
    /\ WriteRequest(k, Request(labels))

\* A user changes the labels.
Relabel(k, labels) ==
    /\ Edit
    /\ stored[k].exists
    /\ labels # stored[k].labels
    /\ WriteRequest(k, [stored[k] EXCEPT !.labels = labels])

\* The core times the request out, or marks it succeeded: what counts here
\* is that its UpdateStatus is admitted.  A refused one is tried again.
UpdateStatus(k) ==
    /\ stored[k].exists
    /\ ~stored[k].done
    /\ WriteRequest(k, [stored[k] EXCEPT !.done = TRUE])
    /\ UNCHANGED edits

Writers ==
    \E k \in Requests :
        \/ \E labels \in LabelSets : Create(k, labels) \/ Relabel(k, labels)
        \/ UpdateStatus(k)

AdmissionNext == Webhook \/ Writers

AdmissionSpec == AdmissionInit /\ [][AdmissionNext]_admissionVars

-----------------------------------------------------------------------------
(***************************************************************************)
(* Properties.                                                             *)
(***************************************************************************)
Unlabelled(k) == stored[k].exists /\ stored[k].labels # "type"

\* From the moment the validating webhook has its rules, no request appears
\* without a type label and none loses it in a namespace that is not
\* excluded: not while pods are down, while certificates change, or while
\* nobody leads.
LabelsGuarded ==
    [][hook["validation"].rules =>
         \A k \in Requests \ Excluded :
            Unlabelled(k)' => Unlabelled(k)]_admissionVars

-----------------------------------------------------------------------------
(***************************************************************************)
(* Liveness.  The webhook goes on while a pod can restart, win a lease,    *)
(* see the secret or reconcile; and the core's retries are not for ever    *)
(* sent to a pod that does not answer.                                     *)
(***************************************************************************)
Fairness ==
    /\ WF_admissionVars(\E p \in Pods : PodRuns(p))
    /\ SF_admissionVars(\E k \in Requests : UpdateStatus(k))

FairSpec == AdmissionSpec /\ Fairness

\* After every change of certificates, the pods and both configurations
\* agree on the last one: the webhook does not lock the cluster out.
RotationSettles ==
    <>[](\A h \in Hooks, p \in Pods : hook[h].rules /\ Answers(h, p))

\* The core's timeout reaches every request with a type label, and all in
\* excluded namespaces: neither an outage of the webhook nor a change of
\* certificates blocks it for good.
LabelledDone ==
    \A k \in Requests :
        stored[k].exists ~> \/ stored[k].done
                            \/ Unlabelled(k) /\ k \notin Excluded

\* The core's timeout reaches all requests, also those with a misconfigured
\* type.
NoZombies == \A k \in Requests : stored[k].exists ~> stored[k].done
=============================================================================
