---------------------------- MODULE TwoLaneQueue ----------------------------
(***************************************************************************)
(* The queue of a knative controller: three client-go queues joined by     *)
(* three goroutines.  Event handlers add to the fast lane, PromoteFunc to  *)
(* the slow one.  Each lane has a process goroutine, which takes a name    *)
(* out and offers it on the lane's channel; runConsumer receives from both *)
(* channels, from the fast one by preference, and adds to the consumer     *)
(* queue, from which the workers take names.                               *)
(***************************************************************************)
EXTENDS Naturals, Sequences, FiniteSets

CONSTANTS
    Names,   \* the names of requests
    Threads, \* DefaultThreadsPerController
    None     \* no name

ASSUME QueueAssumption ==
    /\ IsFiniteSet(Names)
    /\ None \notin Names
    /\ Threads \in Nat \ {0}

VARIABLES
    lane,        \* the names in each lane, in order
    hand,        \* the name process offers on each lane's channel, or None
    closed,      \* the lanes whose process has closed its channel
    reading,     \* runConsumer's flags: the lanes it has not seen closed
    consumer,    \* the select runConsumer is at: "poll" or "select"
    line,        \* consumerQueue.queue
    dirty,       \* consumerQueue.dirty
    processing,  \* consumerQueue.processing
    shut,        \* the queues that are shutting down: lanes, "consumer"
    workers      \* running worker goroutines

laneVars == <<lane, hand, closed>>
consumerVars == <<reading, consumer>>
queueVars ==
    <<laneVars, consumerVars, line, dirty, processing, shut, workers>>

Lanes == {"fast", "slow"}

InSeq(s) == {s[i] : i \in DOMAIN s}

NoDuplicates(s) == \A i, j \in DOMAIN s : s[i] = s[j] => i = j

\* The consumer queue's line holds, each once, the dirty names no worker is
\* at (the comment on workqueue's Type.queue says so of every queue).  The
\* fast channel is polled only while it is open to runConsumer.
QueueTypeOK ==
    /\ lane \in [Lanes -> Seq(Names)]
    /\ \A l \in Lanes : NoDuplicates(lane[l])
    /\ hand \in [Lanes -> Names \cup {None}]
    /\ closed \in SUBSET Lanes
    /\ reading \in SUBSET Lanes
    /\ consumer \in {"poll", "select"}
    /\ consumer = "poll" => "fast" \in reading
    /\ line \in Seq(Names) /\ NoDuplicates(line)
    /\ dirty \in SUBSET Names
    /\ processing \in SUBSET Names
    /\ InSeq(line) = dirty \ processing
    /\ shut \in SUBSET (Lanes \cup {"consumer"})
    /\ workers \in 0 .. Threads
    /\ Cardinality(processing) <= workers

QueueInit ==
    /\ lane = [l \in Lanes |-> <<>>]
    /\ hand = [l \in Lanes |-> None]
    /\ closed = {}
    /\ reading = Lanes
    /\ consumer = "poll"
    /\ line = <<>>
    /\ dirty = {}
    /\ processing = {}
    /\ shut = {}
    /\ workers = 0

-----------------------------------------------------------------------------
(***************************************************************************)
(* The lanes.                                                              *)
(***************************************************************************)

\* Add on a lane.  A name that waits there already is not added again; it
\* may wait in the other lane as well.
QueueAdd(l, k) ==
    /\ lane' = IF l \in shut \/ k \in InSeq(lane[l]) THEN lane
               ELSE [lane EXCEPT ![l] = Append(@, k)]
    /\ UNCHANGED <<hand, closed, consumerVars, line, dirty, processing, shut,
                   workers>>

\* process: Get and Done on the lane, then the name is offered.
QueueProcess(l) ==
    /\ hand[l] = None
    /\ lane[l] # <<>>
    /\ hand' = [hand EXCEPT ![l] = Head(lane[l])]
    /\ lane' = [lane EXCEPT ![l] = Tail(@)]
    /\ UNCHANGED <<closed, consumerVars, line, dirty, processing, shut, workers>>

\* process finds the lane shut and drained, and closes the channel.
QueueClose(l) ==
    /\ l \in shut \ closed
    /\ hand[l] = None
    /\ lane[l] = <<>>
    /\ closed' = closed \cup {l}
    /\ UNCHANGED <<lane, hand, consumerVars, line, dirty, processing, shut,
                   workers>>

\* ShutDown on one lane; the queue's own ShutDown shuts the fast one first.
QueueShutDown(l) ==
    /\ l \notin shut
    /\ l = "slow" => "fast" \in shut
    /\ shut' = shut \cup {l}
    /\ UNCHANGED <<laneVars, consumerVars, line, dirty, processing, workers>>

-----------------------------------------------------------------------------
(***************************************************************************)
(* runConsumer.                                                            *)
(***************************************************************************)

\* An iteration that looks at the fast lane polls it first.
QueueNextIteration(flags) ==
    consumer' = IF "fast" \in flags THEN "poll" ELSE "select"

\* Mutant: a name a worker is at joins the line as well.
QueueConsumeAlways(l) ==
    /\ hand[l] # None
    /\ hand' = [hand EXCEPT ![l] = None]
    /\ dirty' = dirty \cup {hand[l]}
    /\ line' = IF hand[l] \in dirty THEN line ELSE Append(line, hand[l])
    /\ QueueNextIteration(reading)
    /\ UNCHANGED <<lane, closed, reading, processing, shut, workers>>

\* A name is received and added to the consumer queue.
QueueConsume(l) ==
    /\ hand[l] # None
    /\ hand' = [hand EXCEPT ![l] = None]
    /\ dirty' = dirty \cup {hand[l]}
    /\ line' = IF hand[l] \in dirty \cup processing THEN line
               ELSE Append(line, hand[l])
    /\ QueueNextIteration(reading)
    /\ UNCHANGED <<lane, closed, reading, processing, shut, workers>>

\* The channel is found closed.
QueueForget(l) ==
    /\ l \in closed
    /\ reading' = reading \ {l}
    /\ QueueNextIteration(reading')
    /\ UNCHANGED <<laneVars, line, dirty, processing, shut, workers>>

QueueReceive(l) == QueueConsume(l) \/ QueueForget(l)

\* The default case, which is taken when the fast channel is not ready.
QueueDefault ==
    /\ hand["fast"] = None
    /\ "fast" \notin closed
    /\ consumer' = "select"
    /\ UNCHANGED <<laneVars, reading, line, dirty, processing, shut, workers>>

\* The select over the fast channel alone, which does not block.
QueuePoll ==
    /\ consumer = "poll"
    /\ QueueReceive("fast") \/ QueueDefault

\* Mutant: the second select does not look at the slow lane.
QueueSelectFast(l) ==
    /\ consumer = "select"
    /\ reading # {}
    /\ l = "fast"
    /\ QueueReceive(l)

\* The select over both channels takes one that is ready.  A closed channel
\* always is.
QueueSelect(l) ==
    /\ consumer = "select"
    /\ reading # {}
    /\ QueueReceive(l)

\* Mutants: the consumer queue never shuts down; it does when the first of
\* the lanes has closed.
QueueShutConsumerNever == FALSE /\ UNCHANGED queueVars

QueueShutConsumerEarly ==
    /\ reading # Lanes
    /\ "consumer" \notin shut
    /\ shut' = shut \cup {"consumer"}
    /\ UNCHANGED <<laneVars, consumerVars, line, dirty, processing, workers>>

\* Both channels are closed: the loop ends, and with it the consumer queue.
QueueShutConsumer ==
    /\ reading = {}
    /\ "consumer" \notin shut
    /\ shut' = shut \cup {"consumer"}
    /\ UNCHANGED <<laneVars, consumerVars, line, dirty, processing, workers>>

QueueConsumer ==
    QueuePoll \/ (\E l \in Lanes : QueueSelect(l)) \/ QueueShutConsumer

-----------------------------------------------------------------------------
(***************************************************************************)
(* The workers.                                                            *)
(***************************************************************************)

\* RunContext launches them.
QueueStartWorkers ==
    /\ workers = 0
    /\ shut = {}
    /\ workers' = Threads
    /\ UNCHANGED <<laneVars, consumerVars, line, dirty, processing, shut>>

\* Get on the consumer queue, by a worker that is not at a name.
QueueGet ==
    /\ line # <<>>
    /\ Cardinality(processing) < workers
    /\ line' = Tail(line)
    /\ dirty' = dirty \ {Head(line)}
    /\ processing' = processing \cup {Head(line)}
    /\ UNCHANGED <<laneVars, consumerVars, shut, workers>>

QueueDone(k) ==
    /\ k \in processing
    /\ processing' = processing \ {k}
    /\ line' = IF k \in dirty THEN Append(line, k) ELSE line
    /\ UNCHANGED <<laneVars, consumerVars, dirty, shut, workers>>

\* Get returns shutdown, and the worker leaves.
QueueExit ==
    /\ "consumer" \in shut
    /\ line = <<>>
    /\ Cardinality(processing) < workers
    /\ workers' = workers - 1
    /\ UNCHANGED <<laneVars, consumerVars, line, dirty, processing, shut>>

\* Len: what the three queues hold, and not what goroutines have in hand.
QueueLen == Len(lane["fast"]) + Len(lane["slow"]) + Len(line)

-----------------------------------------------------------------------------
\* The names a lane still has to deliver.
Waiting(l) == InSeq(lane[l]) \cup ({hand[l]} \ {None})

Pending == Waiting("fast") \cup Waiting("slow") \cup dirty

Queue == INSTANCE WorkQueue WITH
    open    <- "slow" \notin shut,
    pending <- Pending,
    busy    <- processing,
    idle    <- workers - Cardinality(processing)

\* The two lanes, the consumer queue and the goroutines between them keep
\* the promise of one work queue: no name that was added to either lane is
\* lost, not even when they shut down one after the other; a name that was
\* added to both is not handed to two workers at once; and a worker leaves
\* only when nothing is left for it.
ImplementsWorkQueue == Queue!Spec

\* A name whose turn comes again and again is handed out, the promoted names
\* behind the fast lane included: CoreWork's fairness in ResolutionSystem
\* rests on this.
NoNameStarves == Queue!Fairness
=============================================================================
