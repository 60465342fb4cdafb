--------------------------- MODULE ResolveOutcome ---------------------------
(***************************************************************************)
(* What the resolver framework promises of a call of resolve, whatever the *)
(* resolver does: one outcome - a resource, an error, or a timeout that is *)
(* not early - which never changes afterwards.  ResolverFramework treats   *)
(* resolve in this way.                                                    *)
(***************************************************************************)
EXTENDS Integers

CONSTANTS
    Calls,      \* calls of resolve
    Resources,  \* what resolvers can return
    Reasons,    \* reasons a failure is reported with
    MaxTime     \* bound on the clock

VARIABLES
    outcome,   \* outcome[c]: how call c ended
    deadline,  \* deadline[c]: when call c may time out
    now        \* the time

vars == <<outcome, deadline, now>>

Outcome(kind, value) == [kind |-> kind, value |-> value]

NotCalled == Outcome("notCalled", "")
Pending == Outcome("pending", "")

Init ==
    /\ outcome = [c \in Calls |-> NotCalled]
    /\ deadline = [c \in Calls |-> 0]
    /\ now = 0

Call(c) ==
    /\ outcome[c] = NotCalled
    /\ outcome' = [outcome EXCEPT ![c] = Pending]
    /\ \E t \in now .. MaxTime : deadline' = [deadline EXCEPT ![c] = t]
    /\ UNCHANGED now

End(c, result) ==
    /\ outcome[c] = Pending
    /\ outcome' = [outcome EXCEPT ![c] = result]
    /\ UNCHANGED <<deadline, now>>

Return(c, resource) == End(c, Outcome("resource", resource))

Fail(c, reason) == End(c, Outcome("error", reason))

TimeOut(c, reason) ==
    /\ deadline[c] <= now
    /\ End(c, Outcome("timeout", reason))

Tick ==
    /\ now < MaxTime
    /\ now' = now + 1
    /\ UNCHANGED <<outcome, deadline>>

Next ==
    \/ \E c \in Calls :
        \/ Call(c)
        \/ \E resource \in Resources : Return(c, resource)
        \/ \E reason \in Reasons : Fail(c, reason) \/ TimeOut(c, reason)
    \/ Tick

Spec == Init /\ [][Next]_vars
=============================================================================
