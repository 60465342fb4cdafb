------------------------------ MODULE WorkQueue ------------------------------
(***************************************************************************)
(* What a controller's work queue promises the handlers that add names and *)
(* the workers that take them.  Controllers builds on this: its queue is   *)
(* pending, its Dequeue is Get.                                            *)
(***************************************************************************)
EXTENDS Naturals

CONSTANTS
    Names,   \* the names of requests
    Threads  \* DefaultThreadsPerController

VARIABLES
    open,     \* no ShutDown yet
    pending,  \* names that were added and are owed a worker
    busy,     \* names workers are at
    idle      \* how many workers wait for a name

queueVars == <<open, pending, busy, idle>>

Init ==
    /\ open = TRUE
    /\ pending = {}
    /\ busy = {}
    /\ idle = 0

StartWorkers ==
    /\ open
    /\ idle = 0
    /\ busy = {}
    /\ idle' = Threads
    /\ UNCHANGED <<open, pending, busy>>

Add(k) ==
    /\ open
    /\ pending' = pending \cup {k}
    /\ UNCHANGED <<open, busy, idle>>

\* A name may be handed out and stay owed: it was added twice.  It is never
\* handed to two workers.
Get(k) ==
    /\ k \in pending \ busy
    /\ idle > 0
    /\ idle' = idle - 1
    /\ busy' = busy \cup {k}
    /\ pending' \in {pending, pending \ {k}}
    /\ UNCHANGED open

Done(k) ==
    /\ k \in busy
    /\ busy' = busy \ {k}
    /\ idle' = idle + 1
    /\ UNCHANGED <<open, pending>>

ShutDown ==
    /\ open' = FALSE
    /\ UNCHANGED <<pending, busy, idle>>

\* A worker leaves only after ShutDown, and only when every name that is
\* still owed is held by another worker, which will see it come back.
Exit ==
    /\ ~open
    /\ pending \subseteq busy
    /\ idle > 0
    /\ idle' = idle - 1
    /\ UNCHANGED <<open, pending, busy>>

Next ==
    \/ StartWorkers
    \/ ShutDown
    \/ Exit
    \/ \E k \in Names : Add(k) \/ Get(k) \/ Done(k)

Spec == Init /\ [][Next]_queueVars

\* No name waits for ever while others are handed out.
Fairness == \A k \in Names : SF_queueVars(Get(k))
=============================================================================
