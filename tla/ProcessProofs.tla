---------------------------- MODULE ProcessProofs ----------------------------
(***************************************************************************)
(* For any names, any number of workers and any resolver: the work queue   *)
(* of a process, the two lanes and the goroutines between them, implements *)
(* the abstract WorkQueue whenever main starts and stops it; workers run   *)
(* only when everything is there; no change is missed.                     *)
(***************************************************************************)
EXTENDS Process, TLAPS, FiniteSetTheorems, SequenceTheorems

\* Every leaf may take a minute, so that a slow machine changes nothing.
USE SMTT(60), ZenonT(60)

-----------------------------------------------------------------------------
(***************************************************************************)
(* Sequences without duplicates.                                           *)
(***************************************************************************)
LEMMA InSeqAppend ==
    ASSUME NEW s \in Seq(Names), NEW k \in Names
    PROVE  InSeq(Append(s, k)) = InSeq(s) \cup {k}
  BY AppendProperties DEF InSeq

LEMMA NoDuplicatesAppend ==
    ASSUME NEW s \in Seq(Names), NEW k \in Names, NoDuplicates(s),
           k \notin InSeq(s)
    PROVE  NoDuplicates(Append(s, k))
  BY DEF NoDuplicates, InSeq

LEMMA TailOfUnique ==
    ASSUME NEW s \in Seq(Names), s # <<>>, NoDuplicates(s)
    PROVE  /\ Head(s) \in InSeq(s)
           /\ Head(s) \in Names
           /\ Tail(s) \in Seq(Names)
           /\ InSeq(Tail(s)) = InSeq(s) \ {Head(s)}
           /\ NoDuplicates(Tail(s))
  <1>1. /\ DOMAIN s = 1 .. Len(s) /\ Len(s) \in Nat \ {0}
        /\ Head(s) = s[1] /\ Head(s) \in Names
        /\ Tail(s) \in Seq(Names)
        /\ DOMAIN Tail(s) = 1 .. Len(s) - 1
        /\ \A i \in 1 .. Len(s) - 1 : Tail(s)[i] = s[i + 1]
    OBVIOUS
  <1>2. NoDuplicates(Tail(s))
    BY DEF NoDuplicates
  <1>3. Head(s) \in InSeq(s)
    BY DEF InSeq
  <1>4. ASSUME NEW x \in InSeq(Tail(s)) PROVE x \in InSeq(s) \ {Head(s)}
    <2>1. PICK i \in 1 .. Len(s) - 1 : x = s[i + 1]
      BY DEF InSeq
    <2>2. i + 1 \in DOMAIN s /\ 1 \in DOMAIN s /\ i + 1 # 1
      OBVIOUS
    <2>3. QED
      BY DEF InSeq, NoDuplicates
  <1>5. ASSUME NEW x \in InSeq(s) \ {Head(s)} PROVE x \in InSeq(Tail(s))
    <2>1. PICK i \in 1 .. Len(s) : x = s[i] /\ i # 1
      BY DEF InSeq
    <2>2. i - 1 \in 1 .. Len(s) - 1 /\ Tail(s)[i - 1] = x
      BY <1>1, <2>1
    <2>3. QED
      BY ZenonT(60), <1>1, <2>2 DEF InSeq
  <1>6. QED
    BY <1>2, <1>3, <1>4, <1>5

LEMMA InEmpty == InSeq(<<>>) = {} /\ NoDuplicates(<<>>)
  BY DEF InSeq, NoDuplicates

-----------------------------------------------------------------------------
(***************************************************************************)
(* The queue's invariant.  QueueTypeOK alone does not let a worker leave:  *)
(* that nothing is on its way any more when Get returns shutdown is due to *)
(* the order in which the queues and goroutines end: the fast lane is shut *)
(* before the slow one, a lane is shut and drained when its channel is     *)
(* closed, the channel is closed when runConsumer stops looking at it, and *)
(* runConsumer looks at neither when it ends.                              *)
(***************************************************************************)
ShutInOrder ==
    /\ \A l \in closed : l \in shut /\ lane[l] = <<>> /\ hand[l] = None
    /\ \A l \in Lanes : l \in reading \/ l \in closed
    /\ "slow" \in shut => "fast" \in shut
    /\ "consumer" \in shut => reading = {}

QInv == QueueTypeOK /\ ShutInOrder

QueueStep ==
    \/ \E k \in Names : QueueDone(k) \/ \E l \in Lanes : QueueAdd(l, k)
    \/ \E l \in Lanes :
         \/ QueueProcess(l)
         \/ QueueClose(l)
         \/ QueueConsume(l)
         \/ QueueForget(l)
         \/ QueueShutDown(l)
    \/ QueueDefault
    \/ QueueShutConsumer
    \/ QueueGet
    \/ QueueStartWorkers
    \/ QueueExit
    \/ UNCHANGED queueVars

LEMMA InitQueue == QueueInit => QInv
  BY FS_EmptySet, InEmpty, EmptySeq, QueueAssumption DEF QueueInit, QInv,
     QueueTypeOK, ShutInOrder, Lanes

\* A step of the queue keeps its invariant.
LEMMA QueueStepKeeps ==
    ASSUME QInv, QueueStep
    PROVE  QInv'
  <1>t. /\ lane \in [Lanes -> Seq(Names)]
        /\ \A l \in Lanes : NoDuplicates(lane[l])
        /\ hand \in [Lanes -> Names \cup {None}]
        /\ closed \in SUBSET Lanes
        /\ reading \in SUBSET Lanes
        /\ line \in Seq(Names) /\ NoDuplicates(line)
        /\ dirty \in SUBSET Names
        /\ processing \in SUBSET Names
        /\ InSeq(line) = dirty \ processing
        /\ shut \in SUBSET (Lanes \cup {"consumer"})
        /\ workers \in 0 .. Threads
        /\ Cardinality(processing) <= workers
        /\ ShutInOrder
    BY DEF QInv, QueueTypeOK
  <1>f. IsFiniteSet(processing) /\ Cardinality(processing) \in Nat
    BY <1>t, QueueAssumption, FS_Subset, FS_CardinalityType
  <1>1. ASSUME NEW l \in Lanes, NEW k \in Names, QueueAdd(l, k) PROVE QInv'
    <2>1. CASE lane' = lane
      BY <1>1, <2>1 DEF QueueAdd, consumerVars, ShutInOrder, QInv, QueueTypeOK
    <2>2. CASE lane' # lane
      <3>1. /\ l \notin shut /\ k \notin InSeq(lane[l])
            /\ lane' = [lane EXCEPT ![l] = Append(@, k)]
        BY <1>1, <2>2 DEF QueueAdd
      <3>2. /\ lane' \in [Lanes -> Seq(Names)]
            /\ \A m \in Lanes : NoDuplicates(lane'[m])
        BY <1>t, <3>1, NoDuplicatesAppend
      <3>3. \A m \in closed : lane'[m] = lane[m]
        BY <1>t, <3>1 DEF ShutInOrder
      <3>4. QED
        BY <1>1, <3>2, <3>3 DEF QueueAdd, consumerVars, ShutInOrder, QInv,
           QueueTypeOK
    <2>3. QED
      BY <2>1, <2>2
  <1>2. ASSUME NEW k \in Names, QueueDone(k) PROVE QInv'
    <2>1. line' \in Seq(Names) /\ NoDuplicates(line')
      BY <1>2, <1>t, NoDuplicatesAppend DEF QueueDone
    <2>2. InSeq(line') = dirty' \ processing'
      BY <1>2, <1>t, InSeqAppend DEF QueueDone
    <2>3. Cardinality(processing') <= workers'
      <3>1. Cardinality(processing \ {k}) = Cardinality(processing) - 1
        BY ZenonT(60), <1>2, <1>f, FS_RemoveElement DEF QueueDone
      <3>2. QED
        BY <1>2, <1>t, <1>f, <3>1 DEF QueueDone
    <2>4. QED
      BY <1>2, <1>t, <2>1, <2>2, <2>3 DEF QueueDone, laneVars, consumerVars,
         QInv, QueueTypeOK, ShutInOrder
  <1>3. ASSUME NEW l \in Lanes, QueueProcess(l) PROVE QInv'
    <2>1. Head(lane[l]) \in Names /\ Tail(lane[l]) \in Seq(Names)
          /\ NoDuplicates(Tail(lane[l]))
      BY <1>3, <1>t, TailOfUnique DEF QueueProcess
    <2>2. l \notin closed
      BY <1>3, <1>t DEF QueueProcess, ShutInOrder
    <2>3. /\ lane' \in [Lanes -> Seq(Names)]
          /\ \A m \in Lanes : NoDuplicates(lane'[m])
          /\ hand' \in [Lanes -> Names \cup {None}]
          /\ \A m \in closed : lane'[m] = lane[m] /\ hand'[m] = hand[m]
      BY <1>3, <1>t, <2>1, <2>2 DEF QueueProcess
    <2>4. QED
      BY <1>3, <2>3 DEF QueueProcess, consumerVars, ShutInOrder, QInv,
         QueueTypeOK
  <1>4. ASSUME NEW l \in Lanes, QueueClose(l) \/ QueueShutDown(l) PROVE QInv'
    <2>1. /\ UNCHANGED <<lane, hand, consumerVars, line, dirty, processing,
                         workers>>
          /\ closed' \subseteq Lanes
          /\ shut' \subseteq Lanes \cup {"consumer"}
      BY <1>4, <1>t DEF QueueClose, QueueShutDown, laneVars
    <2>2. QueueTypeOK'
      BY <2>1 DEF QInv, QueueTypeOK, consumerVars
    <2>3. ShutInOrder'
      BY <1>4, <1>t, <2>1 DEF QueueClose, QueueShutDown, laneVars,
         consumerVars, ShutInOrder, Lanes
    <2>4. QED
      BY <2>2, <2>3 DEF QInv
  <1>5. ASSUME NEW l \in Lanes, QueueConsume(l) PROVE QInv'
    <2>1. hand[l] \in Names /\ l \notin closed
      BY <1>5, <1>t DEF QueueConsume, ShutInOrder
    <2>2. /\ hand' \in [Lanes -> Names \cup {None}]
          /\ \A m \in closed : hand'[m] = hand[m]
      BY <1>5, <1>t, <2>1 DEF QueueConsume
    <2>3. /\ line' \in Seq(Names) /\ NoDuplicates(line')
          /\ InSeq(line') = dirty' \ processing'
      BY <1>5, <1>t, <2>1, NoDuplicatesAppend, InSeqAppend DEF QueueConsume
    <2>4. consumer' \in {"poll", "select"}
          /\ (consumer' = "poll" => "fast" \in reading')
      BY <1>5 DEF QueueConsume, QueueNextIteration
    <2>5. QED
      BY <1>5, <1>t, <2>1, <2>2, <2>3, <2>4 DEF QueueConsume, QInv,
         QueueTypeOK, ShutInOrder
  <1>6. ASSUME NEW l \in Lanes, QueueForget(l) PROVE QInv'
    BY <1>6 DEF QueueForget, QueueNextIteration, laneVars, QInv, QueueTypeOK,
       ShutInOrder
  <1>7. CASE QueueDefault \/ QueueShutConsumer
    BY <1>7 DEF QueueDefault, QueueShutConsumer, laneVars, consumerVars,
       QInv, QueueTypeOK, ShutInOrder
  <1>8. CASE QueueGet
    <2>1. /\ line' \in Seq(Names) /\ NoDuplicates(line')
          /\ InSeq(line') = InSeq(line) \ {Head(line)}
          /\ Head(line) \in Names
          /\ Head(line) \in dirty \ processing
      BY <1>8, <1>t, TailOfUnique DEF QueueGet
    <2>2. InSeq(line') = dirty' \ processing'
      BY <1>8, <1>t, <2>1 DEF QueueGet
    <2>3. Cardinality(processing') <= workers'
      <3>1. Cardinality(processing \cup {Head(line)}) = Cardinality(processing) + 1
        BY ZenonT(60), <1>f, <2>1, FS_AddElement
      <3>2. QED
        BY <1>8, <1>t, <1>f, <3>1 DEF QueueGet
    <2>4. QED
      BY <1>8, <1>t, <2>1, <2>2, <2>3 DEF QueueGet, laneVars, consumerVars,
         QInv, QueueTypeOK, ShutInOrder
  <1>9. CASE QueueStartWorkers
    BY <1>9, <1>f, QueueAssumption DEF QueueStartWorkers, laneVars,
       consumerVars, QInv, QueueTypeOK, ShutInOrder
  <1>10. CASE QueueExit
    BY <1>10, <1>f, QueueAssumption DEF QueueExit, laneVars, consumerVars,
       QInv, QueueTypeOK, ShutInOrder
  <1>11. CASE UNCHANGED queueVars
    BY <1>11 DEF queueVars, laneVars, consumerVars, QInv, QueueTypeOK,
       ShutInOrder
  <1>12. QED
    BY <1>1, <1>2, <1>3, <1>4, <1>5, <1>6, <1>7, <1>8, <1>9, <1>10, <1>11
       DEF QueueStep

-----------------------------------------------------------------------------
(***************************************************************************)
(* What is pending.                                                        *)
(***************************************************************************)
\* A name that is added to a lane that is not shut is pending, and nothing
\* but a worker's Get takes a name out.
LEMMA AddIsPending ==
    ASSUME QInv, NEW l \in Lanes, NEW k \in Names, QueueAdd(l, k)
    PROVE  /\ Pending' = Pending \/ Pending' = Pending \cup {k}
           /\ l \notin shut => k \in Pending'
           /\ Pending' # Pending => l \notin shut
  <1>t. lane \in [Lanes -> Seq(Names)] /\ hand' = hand /\ dirty' = dirty
    BY DEF QInv, QueueTypeOK, QueueAdd
  <1>1. CASE lane' = lane
    BY <1>t, <1>1 DEF QueueAdd, Pending, Waiting, Lanes
  <1>2. CASE lane' # lane
    <2>1. l \notin shut /\ lane' = [lane EXCEPT ![l] = Append(@, k)]
      BY <1>2 DEF QueueAdd
    <2>2. /\ InSeq(lane'[l]) = InSeq(lane[l]) \cup {k}
          /\ \A m \in Lanes \ {l} : lane'[m] = lane[m]
      BY <1>t, <2>1, InSeqAppend
    <2>3. QED
      BY <1>t, <2>1, <2>2 DEF Pending, Waiting, Lanes
  <1>3. QED
    BY <1>1, <1>2

LEMMA HandoverKeepsPending ==
    ASSUME QInv, NEW l \in Lanes, QueueProcess(l) \/ QueueConsume(l)
    PROVE  Pending' = Pending
  <1>t. /\ lane \in [Lanes -> Seq(Names)]
        /\ \A m \in Lanes : NoDuplicates(lane[m])
        /\ hand \in [Lanes -> Names \cup {None}]
    BY DEF QInv, QueueTypeOK
  <1>1. CASE QueueProcess(l)
    <2>1. /\ Head(lane[l]) \in InSeq(lane[l]) /\ Head(lane[l]) \in Names
          /\ InSeq(Tail(lane[l])) = InSeq(lane[l]) \ {Head(lane[l])}
      BY <1>t, <1>1, TailOfUnique DEF QueueProcess
    <2>2. /\ lane'[l] = Tail(lane[l]) /\ hand'[l] = Head(lane[l])
          /\ hand[l] = None
          /\ \A m \in Lanes \ {l} : lane'[m] = lane[m] /\ hand'[m] = hand[m]
          /\ dirty' = dirty
      BY <1>t, <1>1 DEF QueueProcess
    <2>3. Waiting(l)' = Waiting(l)
      BY <2>1, <2>2, QueueAssumption DEF Waiting
    <2>4. \A m \in Lanes \ {l} : Waiting(m)' = Waiting(m)
      BY <2>2 DEF Waiting
    <2>5. QED
      BY <2>2, <2>3, <2>4 DEF Pending, Lanes
  <1>2. CASE QueueConsume(l)
    <2>1. /\ hand[l] \in Names /\ hand'[l] = None /\ lane' = lane
          /\ \A m \in Lanes \ {l} : hand'[m] = hand[m]
          /\ dirty' = dirty \cup {hand[l]}
      BY <1>t, <1>2 DEF QueueConsume
    <2>2. Waiting(l)' \cup {hand[l]} = Waiting(l)
      BY <2>1, QueueAssumption DEF Waiting
    <2>3. \A m \in Lanes \ {l} : Waiting(m)' = Waiting(m)
      BY <2>1 DEF Waiting
    <2>4. QED
      BY <2>1, <2>2, <2>3 DEF Pending, Lanes
  <1>3. QED
    BY <1>1, <1>2

\* The queue's goroutines only hand names over.
LEMMA ThreadsKeepPending ==
    ASSUME QInv,
           QueueConsumer \/ \E l \in Lanes : QueueProcess(l) \/ QueueClose(l)
    PROVE  Pending' = Pending /\ processing' = processing /\ (shut' = {} => shut = {})
  <1>1. ASSUME NEW l \in Lanes, QueueProcess(l) \/ QueueConsume(l)
        PROVE  Pending' = Pending /\ processing' = processing /\ shut' = shut
    BY <1>1, HandoverKeepsPending DEF QueueProcess, QueueConsume
  <1>2. ASSUME NEW l \in Lanes,
               QueueClose(l) \/ QueueForget(l) \/ QueueDefault \/ QueueShutConsumer
        PROVE  /\ Pending' = Pending /\ processing' = processing
               /\ shut' = {} => shut = {}
    BY <1>2 DEF QueueClose, QueueForget, QueueDefault, QueueShutConsumer,
       laneVars, Pending, Waiting
  <1>3. "fast" \in Lanes
    BY DEF Lanes
  <1>4. QED
    BY <1>1, <1>2, <1>3 DEF QueueConsumer, QueuePoll, QueueSelect, QueueReceive

-----------------------------------------------------------------------------
(***************************************************************************)
(* Refinement.                                                             *)
(***************************************************************************)
\* A step of the queue is a step of the abstract queue or changes nothing
\* there; a name on its way through the goroutines stays pending.
LEMMA QueueStepRefines ==
    ASSUME QInv, QueueStep
    PROVE  [Queue!Next]_(Queue!queueVars)
  <1>t. /\ line \in Seq(Names) /\ NoDuplicates(line)
        /\ dirty \in SUBSET Names
        /\ processing \in SUBSET Names
        /\ InSeq(line) = dirty \ processing
        /\ workers \in Nat
        /\ Cardinality(processing) <= workers
        /\ ShutInOrder
    BY DEF QInv, QueueTypeOK
  <1>f. IsFiniteSet(processing) /\ Cardinality(processing) \in Nat
    BY <1>t, QueueAssumption, FS_Subset, FS_CardinalityType
  <1>1. ASSUME NEW l \in Lanes, NEW k \in Names, QueueAdd(l, k)
        PROVE  Queue!Add(k) \/ UNCHANGED Queue!queueVars
    <2>1. UNCHANGED <<shut, processing, workers>>
      BY <1>1 DEF QueueAdd
    <2>2. CASE Pending' = Pending
      BY <2>1, <2>2 DEF Queue!queueVars
    <2>3. CASE Pending' # Pending
      <3>1. l \notin shut /\ Pending' = Pending \cup {k}
        BY <1>1, <2>3, AddIsPending
      <3>2. CASE "slow" \notin shut
        BY <2>1, <3>1, <3>2 DEF Queue!Add
      <3>3. CASE "slow" \in shut
        BY <1>t, <3>1, <3>3 DEF ShutInOrder, Lanes
      <3>4. QED
        BY <3>2, <3>3
    <2>4. QED
      BY <2>2, <2>3
  <1>2. ASSUME NEW k \in Names, QueueDone(k) PROVE Queue!Done(k)
    <2>1. Cardinality(processing \ {k}) = Cardinality(processing) - 1
      BY ZenonT(60), <1>2, <1>f, FS_RemoveElement DEF QueueDone
    <2>2. QED
      BY <1>2, <1>t, <1>f, <2>1 DEF QueueDone, laneVars, Queue!Done, Pending,
         Waiting
  <1>3. ASSUME NEW l \in Lanes, QueueProcess(l) \/ QueueConsume(l)
        PROVE  UNCHANGED Queue!queueVars
    BY <1>3, HandoverKeepsPending DEF QueueProcess, QueueConsume,
       Queue!queueVars
  <1>4. ASSUME NEW l \in Lanes,
               QueueClose(l) \/ QueueForget(l) \/ QueueDefault
        PROVE  UNCHANGED Queue!queueVars
    BY <1>4 DEF QueueClose, QueueForget, QueueDefault, laneVars,
       Queue!queueVars, Pending, Waiting
  <1>5. ASSUME NEW l \in Lanes, QueueShutDown(l)
        PROVE  Queue!ShutDown \/ UNCHANGED Queue!queueVars
    <2>1. /\ UNCHANGED <<lane, hand, dirty, processing, workers>>
          /\ shut' = shut \cup {l}
      BY <1>5 DEF QueueShutDown, laneVars
    <2>2. Pending' = Pending
      BY <2>1 DEF Pending, Waiting
    <2>3. CASE l = "slow"
      BY <2>1, <2>2, <2>3 DEF Queue!ShutDown
    <2>4. CASE l = "fast"
      BY <2>1, <2>2, <2>4 DEF Queue!queueVars
    <2>5. QED
      BY <2>3, <2>4 DEF Lanes
  <1>6. CASE QueueShutConsumer
    BY <1>6 DEF QueueShutConsumer, laneVars, Queue!queueVars, Pending, Waiting
  <1>7. CASE QueueGet
    <2>1. Head(line) \in Names /\ Head(line) \in dirty \ processing
      BY <1>7, <1>t, TailOfUnique DEF QueueGet
    <2>2. Pending' \in {Pending, Pending \ {Head(line)}}
      BY <1>7 DEF QueueGet, laneVars, Pending, Waiting
    <2>3. Head(line) \in Pending \ processing
      BY <2>1 DEF Pending
    <2>c. Cardinality(processing \cup {Head(line)}) = Cardinality(processing) + 1
      BY <1>f, <2>1, FS_AddElement
    <2>4. Queue!Get(Head(line))
      BY <1>7, <1>t, <1>f, <2>2, <2>3, <2>c DEF QueueGet, Queue!Get
    <2>5. QED
      BY <2>1, <2>4 DEF Queue!Next
  <1>8. CASE QueueStartWorkers
    BY <1>8, <1>t, <1>f, FS_EmptySet, QueueAssumption DEF QueueStartWorkers,
       laneVars, Queue!StartWorkers, Pending, Waiting, Queue!Next
  <1>9. CASE QueueExit
    <2>1. "consumer" \in shut /\ line = <<>>
      BY <1>9 DEF QueueExit
    <2>2. /\ "slow" \in shut
          /\ \A l \in Lanes : lane[l] = <<>> /\ hand[l] = None
      BY <1>t, <2>1 DEF ShutInOrder, Lanes
    <2>3. Waiting("fast") = {} /\ Waiting("slow") = {}
      BY <2>2, InEmpty DEF Waiting, Lanes
    <2>4. Pending \subseteq processing
      BY <1>t, <2>1, <2>3, InEmpty DEF Pending
    <2>5. QED
      BY <1>9, <1>t, <1>f, <2>2, <2>4 DEF QueueExit, laneVars, Queue!Exit,
         Queue!Next, Pending, Waiting
  <1>10. CASE UNCHANGED queueVars
    BY <1>10 DEF queueVars, laneVars, Queue!queueVars, Pending, Waiting
  <1>11. QED
    BY <1>1, <1>2, <1>3, <1>4, <1>5, <1>6, <1>7, <1>8, <1>9, <1>10
       DEF QueueStep, Queue!Next, Lanes

\* Whatever main, the informer, the elector or a worker does, it moves the
\* queue only by the queue's own steps.
LEMMA NextMovesQueue ==
    ASSUME [Next]_vars
    PROVE  QueueStep
  <1>1. CASE Startup
    BY <1>1 DEF Startup, Main, Inject, NewController, NewCoreController,
       Configure, InformerLists, StartAll, QueueStep
  <1>l. "fast" \in Lanes /\ "slow" \in Lanes
    BY DEF Lanes
  <1>2. CASE Running
    BY <1>l, <1>2 DEF Running, Deliver, Notify, OnStartedLeading, Promote,
       PromoteLists, PromoteFunc, Reconcile, Done, LaneRuns, Elect, Resign,
       Get, QueueStep
  <1>3. CASE Shutdown
    BY <1>l, <1>3 DEF Shutdown, ShutDown, ShutDownSlow, WorkerExits, Exit,
       QueueStep
  <1>4. CASE ConsumerRuns
    BY <1>l, <1>4 DEF ConsumerRuns, QueueConsumer, QueuePoll, QueueSelect,
       QueueReceive, QueueStep
  <1>5. CASE Environment \/ UNCHANGED vars
    BY <1>5 DEF Environment, Signal, Demote, Change, vars, QueueStep
  <1>6. QED
    BY <1>1, <1>2, <1>3, <1>4, <1>5 DEF Next

\* The queue of a controller process implements the abstract work queue:
\* what is enqueued is handed out, to one worker at a time, and nothing is
\* lost when the process is told to stop.
THEOREM ProcessImplementsWorkQueue == Spec => ImplementsWorkQueue
  <1>1. Init => QInv
    BY InitQueue DEF Init
  <1>2. QInv /\ [Next]_vars => QInv'
    BY NextMovesQueue, QueueStepKeeps
  <1>3. Init => Queue!Init
    BY InEmpty, FS_EmptySet DEF Init, QueueInit, Queue!Init, Pending, Waiting,
       Lanes
  <1>4. QInv /\ [Next]_vars => [Queue!Next]_(Queue!queueVars)
    BY NextMovesQueue, QueueStepRefines
  <1>5. QED
    BY <1>1, <1>2, <1>3, <1>4, PTL DEF Spec, ImplementsWorkQueue, Queue!Spec

-----------------------------------------------------------------------------
(***************************************************************************)
(* Startup.  Each stage of main establishes what the later ones rely on.   *)
(***************************************************************************)
Constructed == {"configure", "inform", "sync", "run", "stop", "exited"}

Configured == {"inform", "sync", "run", "stop", "exited"}

MainInv ==
    /\ resolver \in Resolvers \cup {TheCore}
    /\ stage \in Stages
    /\ informers \in [made : Nat, shared : Nat, run : Nat, handled : Nat]
    /\ stage = "construct" =>
         informers.shared # NoInformer /\ informers.run = informers.shared
    /\ resolver.kind = "resolver" =>
         /\ stage \notin {"main", "dead"} => validateResolver
         /\ stage \in Constructed => ~InitializePanics
         /\ stage \in Constructed => ~watchConfigChangesPanics
         /\ stage \in Configured => loaded = (resolver.config = "named")
    /\ stage \in Constructed => HandlerRuns
    /\ workers > 0 => stage \in {"run", "stop"}

LEMMA InitMain == Init => MainInv
  BY DEF Init, QueueInit, MainInv, Stages, NoInformer, Constructed,
     Configured, NewSharedInformerFactory

\* Only main changes what MainInv speaks of, apart from the workers' number.
LEMMA NextMain ==
    ASSUME QInv, MainInv, [Next]_vars
    PROVE  MainInv'
  <1>t. /\ resolver \in Resolvers \cup {TheCore}
        /\ stage \in Stages
        /\ informers \in [made : Nat, shared : Nat, run : Nat, handled : Nat]
        /\ workers \in Nat
    BY DEF MainInv, QInv, QueueTypeOK
  <1>1. CASE Main
    BY <1>1 DEF Main, Goto, MainInv, Stages, Constructed, Configured,
       queueVars, validateResolver, InitializePanics,
       watchConfigChangesPanics, HandlerRuns
  <1>2. CASE Inject
    <2> DEFINE new == NewSharedInformerFactory
               infs == InformerFor(new)
    <2>1. /\ infs \in [made : Nat, shared : Nat, run : Nat, handled : Nat]
          /\ infs.shared # NoInformer
      <3>1. /\ new \in [made : Nat, shared : Nat, run : Nat, handled : Nat]
            /\ new.shared = NoInformer /\ new.made = 0
        BY DEF NewSharedInformerFactory, NoInformer
      <3>2. infs = [new EXCEPT !.made = new.made + 1, !.shared = new.made + 1]
        BY <3>1 DEF InformerFor
      <3>3. new.made + 1 \in Nat /\ new.made + 1 # 0
        BY <3>1
      <3> HIDE DEF new
      <3>4. QED
        BY ZenonT(60), <3>1, <3>2, <3>3 DEF NoInformer
    <2>2. /\ informers' \in [made : Nat, shared : Nat, run : Nat, handled : Nat]
          /\ informers'.shared # NoInformer
          /\ informers'.run = informers'.shared
      <3>1. informers' = [infs EXCEPT !.run = infs.shared]
        BY <1>2 DEF Inject, withInformer
      <3> HIDE DEF infs
      <3>2. QED
        BY <2>1, <3>1
    <2>3. QED
      BY <1>2, <2>2 DEF Inject, Goto, MainInv, Stages, Constructed,
         Configured, queueVars, validateResolver, InitializePanics,
         watchConfigChangesPanics, HandlerRuns
  <1>3. ASSUME stage = "construct",
               informers' = AddEventHandler(InformerFor(informers))
        PROVE  /\ informers' \in [made : Nat, shared : Nat, run : Nat, handled : Nat]
               /\ HandlerRuns'
    BY <1>3 DEF MainInv, AddEventHandler, InformerFor, HandlerRuns
  <1>4. CASE NewController
    BY <1>3, <1>4 DEF NewController, Goto, MainInv, Stages, Constructed,
       Configured, queueVars, validateResolver, InitializePanics,
       watchConfigChangesPanics, HandlerRuns
  <1>5. CASE NewCoreController
    BY <1>3, <1>5 DEF NewCoreController, Goto, MainInv, Stages, Constructed,
       Configured, queueVars
  <1>6. CASE Configure
    BY <1>6 DEF Configure, Goto, MainInv, Stages, Constructed, Configured,
       queueVars, validateResolver, InitializePanics,
       watchConfigChangesPanics, HandlerRuns
  <1>7. CASE InformerLists
    BY <1>7 DEF InformerLists, Goto, MainInv, Stages, Constructed,
       Configured, queueVars, validateResolver, InitializePanics,
       watchConfigChangesPanics, HandlerRuns
  <1>8. CASE StartAll
    BY <1>8 DEF StartAll, QueueStartWorkers, Goto, MainInv, Stages,
       Constructed, Configured, queueVars, validateResolver,
       InitializePanics, watchConfigChangesPanics, HandlerRuns
  <1>9. CASE ShutDown \/ Exit
    BY <1>9 DEF ShutDown, QueueShutDown, Exit, Goto, MainInv, Stages,
       Constructed, Configured, queueVars, validateResolver,
       InitializePanics, watchConfigChangesPanics, HandlerRuns
  <1>10. CASE WorkerExits
    BY <1>10 DEF WorkerExits, QueueExit, mainVars, MainInv, validateResolver,
       InitializePanics, watchConfigChangesPanics, HandlerRuns
  <1>11. CASE Running \/ ConsumerRuns \/ ShutDownSlow
    <2>1. UNCHANGED mainVars
      BY <1>11 DEF Running, Deliver, Notify, OnStartedLeading, Promote,
         PromoteLists, PromoteFunc, Reconcile, Done, LaneRuns, Elect, Resign,
         Get, ConsumerRuns, ShutDownSlow
    <2>2. workers' = workers
      BY ZenonT(60), <1>11 DEF Running, Deliver, Notify, OnStartedLeading,
         Promote, PromoteLists, PromoteFunc, Reconcile, Done, LaneRuns,
         Elect, Resign, Get, ConsumerRuns, ShutDownSlow, QueueAdd, QueueDone,
         QueueGet, QueueProcess, QueueClose, QueueShutDown, QueueConsumer,
         QueuePoll, QueueSelect, QueueReceive, QueueConsume, QueueForget,
         QueueDefault, QueueShutConsumer, queueVars
    <2>3. QED
      BY <2>1, <2>2 DEF mainVars, MainInv, validateResolver,
         InitializePanics, watchConfigChangesPanics, HandlerRuns
  <1>12. CASE Environment \/ UNCHANGED vars
    BY <1>12 DEF Environment, Signal, Demote, Change, vars, mainVars,
       queueVars, MainInv, validateResolver, InitializePanics,
       watchConfigChangesPanics, HandlerRuns
  <1>13. QED
    BY <1>1, <1>2, <1>4, <1>5, <1>6, <1>7, <1>8, <1>9, <1>10, <1>11, <1>12
       DEF Next, Startup, Shutdown

\* No worker runs before the resolver is valid and initialized, its
\* configuration is loaded and its handler listens to the running informer.
THEOREM ProcessReady == Spec => []ReadyBeforeWork
  <1>1. Init => QInv /\ MainInv
    BY InitQueue, InitMain DEF Init
  <1>2. QInv /\ MainInv /\ [Next]_vars => QInv' /\ MainInv'
    BY NextMovesQueue, QueueStepKeeps, NextMain
  <1>3. MainInv => ReadyBeforeWork
    <2> SUFFICES ASSUME MainInv, workers > 0 PROVE ReadyBeforeWork
      BY DEF ReadyBeforeWork
    <2>1. stage \in {"run", "stop"} /\ HandlerRuns
      BY DEF MainInv, Constructed
    <2>2. ASSUME resolver.kind = "resolver"
          PROVE  /\ validateResolver
                 /\ resolver.initialize = "ok"
                 /\ resolver.config # "none" => loaded
      <3>1. resolver \in Resolvers
        BY <2>2 DEF MainInv, TheCore
      <3>2. resolver.initialize \in {"ok", "error"} /\ resolver.config \in Configs
        BY <3>1 DEF Resolvers
      <3>3. /\ validateResolver /\ ~InitializePanics
            /\ ~watchConfigChangesPanics
            /\ loaded = (resolver.config = "named")
        BY <2>2 DEF MainInv, Constructed, Configured
      <3>4. resolver.config # "none" => resolver.config = "named"
        BY ZenonT(60), <3>2, <3>3, ProcessAssumption
           DEF watchConfigChangesPanics
      <3>5. resolver.initialize = "ok"
        BY <3>2, <3>3 DEF InitializePanics
      <3>6. QED
        BY ZenonT(60), <3>3, <3>4, <3>5
    <2>3. QED
      BY <2>1, <2>2 DEF ReadyBeforeWork
  <1>4. QED
    BY <1>1, <1>2, <1>3, PTL DEF Spec

\* The core, the git and bundle resolvers and the template's demo resolver
\* pass every check that main and NewController make.
THEOREM ProcessStarts == Spec => []OwnProcessesStart
  <1>1. Init => OwnProcessesStart
    BY DEF Init, OwnProcessesStart
  <1>2. OwnProcessesStart /\ [Next]_vars => OwnProcessesStart'
    <2> SUFFICES ASSUME OwnProcessesStart, [Next]_vars,
                        stage' = "dead", ~signal',
                        resolver' \in {TheCore, Git, Bundles, Demo}
                 PROVE  FALSE
      BY DEF OwnProcessesStart
    <2>1. resolver' = resolver
      BY ZenonT(60) DEF Next, Startup, Main, Inject, NewController,
         NewCoreController, Configure, InformerLists, StartAll, Running,
         Deliver, Notify, OnStartedLeading, Promote, PromoteLists,
         PromoteFunc, Reconcile, Done, LaneRuns, Elect, Resign, Get,
         ConsumerRuns, Shutdown, ShutDown, ShutDownSlow, WorkerExits, Exit,
         Environment, Signal, Demote, Change, mainVars, vars
    <2>t. /\ resolver.kind = "resolver" =>
               /\ resolver.selector = "typed"
               /\ resolver.initialize = "ok"
               /\ resolver.config # "empty"
          /\ resolver.config = "named" => resolver.configMap
      BY <2>1 DEF TheCore, Git, Bundles, Demo
    <2>2. CASE Startup
      BY <2>t, <2>2 DEF Startup, Main, Inject, NewController,
         NewCoreController, Configure, InformerLists, StartAll, Goto,
         validateResolver, InitializePanics, watchConfigChangesPanics,
         OwnProcessesStart
    <2>3. CASE Running \/ ConsumerRuns \/ UNCHANGED vars
      <3>1. UNCHANGED mainVars
        BY <2>3 DEF Running, Deliver, Notify, OnStartedLeading, Promote,
           PromoteLists, PromoteFunc, Reconcile, Done, LaneRuns, Elect,
           Resign, Get, ConsumerRuns, vars
      <3>2. QED
        BY <3>1 DEF mainVars, OwnProcessesStart
    <2>4. CASE Shutdown \/ Environment
      BY <2>4 DEF Shutdown, ShutDown, ShutDownSlow, WorkerExits, Exit,
         Environment, Signal, Demote, Change, Goto, mainVars,
         OwnProcessesStart
    <2>5. QED
      BY <2>2, <2>3, <2>4 DEF Next
  <1>3. QED
    BY <1>1, <1>2, PTL DEF Spec

-----------------------------------------------------------------------------
(***************************************************************************)
(* The cache follows the API server, the inbox and what a promotion lists  *)
(* follow the cache, and a worker reads only for a name it was handed.     *)
(***************************************************************************)
ElectionInv ==
    /\ elector \in {"waiting", "leading", "ended"}
    /\ changes \in 0 .. MaxChanges
    /\ term \in 0 .. changes + (IF elector = "waiting" THEN 0 ELSE 1)
    /\ leads \in BOOLEAN
    /\ promotion \in [Terms -> Promotions]
    /\ \A t \in Terms : t > term => promotion[t].at = "none"

FollowInv ==
    /\ loaded \in BOOLEAN
    /\ signal \in BOOLEAN
    /\ \A t \in Terms : promotion[t].names \subseteq cache
    /\ watch \cup cache \cup owed \subseteq store
    /\ inbox \subseteq cache
    /\ store \subseteq Names
    /\ read \subseteq processing

LEMMA InitFollow == Init => ElectionInv /\ FollowInv
  <1> SUFFICES ASSUME Init PROVE ElectionInv /\ FollowInv
    OBVIOUS
  <1>1. promotion = [t \in Terms |-> [at |-> "none", names |-> {}]]
    BY DEF Init
  <1>2. /\ promotion \in [Terms -> Promotions]
        /\ \A t \in Terms : promotion[t].at = "none" /\ promotion[t].names = {}
    BY <1>1 DEF Promotions
  <1>3. ElectionInv
    <2>1. /\ elector \in {"waiting", "leading", "ended"}
          /\ changes \in 0 .. MaxChanges
          /\ term \in 0 .. changes + (IF elector = "waiting" THEN 0 ELSE 1)
      BY ProcessAssumption DEF Init
    <2>2. leads \in BOOLEAN
      BY ZenonT(60) DEF Init
    <2>3. QED
      BY ZenonT(60), <1>2, <2>1, <2>2 DEF ElectionInv
  <1>4. FollowInv
    BY ZenonT(60), <1>2, ProcessAssumption DEF Init, QueueInit, FollowInv
  <1>5. QED
    BY <1>3, <1>4

LEMMA NextElection ==
    ASSUME ElectionInv, FollowInv, [Next]_vars
    PROVE  ElectionInv'
  <1>1. CASE UNCHANGED <<electionVars, changes>>
    BY <1>1 DEF electionVars, ElectionInv
  <1>2. CASE Elect
    <2>1. term \in Nat /\ changes \in Nat /\ term <= changes /\ changes <= MaxChanges
      BY <1>2, ProcessAssumption DEF Elect, ElectionInv
    <2>2. term + 1 \in Terms /\ term' \in 0 .. changes + 1
      BY <1>2, <2>1, ProcessAssumption DEF Elect, Terms
    <2>3. promotion' \in [Terms -> Promotions]
      BY <1>2, <2>2 DEF Elect, ElectionInv, Promotions
    <2>4. \A t \in Terms : t > term' => promotion'[t].at = "none"
      BY <1>2, <2>1 DEF Elect, ElectionInv, Terms
    <2>5. QED
      BY <1>2, <2>2, <2>3, <2>4 DEF Elect, requestVars, ElectionInv
  <1>3. ASSUME NEW t \in Terms, Promote(t) PROVE ElectionInv'
    <2>1. promotion' \in [Terms -> Promotions]
      BY <1>3 DEF Promote, ElectionInv, Promotions
    <2>2. \A u \in Terms : u > term => promotion'[u].at = "none"
      BY <1>3 DEF Promote, ElectionInv
    <2>3. QED
      BY <1>3, <2>1, <2>2 DEF Promote, requestVars, ElectionInv
  <1>4. ASSUME NEW t \in Terms, PromoteLists(t) PROVE ElectionInv'
    <2>1. promotion' \in [Terms -> Promotions]
      BY <1>4 DEF PromoteLists, ElectionInv, FollowInv, Promotions
    <2>2. \A u \in Terms : u > term => promotion'[u].at = "none"
      BY <1>4 DEF PromoteLists, ElectionInv
    <2>3. QED
      BY <1>4, <2>1, <2>2 DEF PromoteLists, requestVars, ElectionInv
  <1>5. ASSUME NEW t \in Terms, NEW k \in Names, PromoteFunc(t, k)
        PROVE  ElectionInv'
    <2>1. promotion' \in [Terms -> Promotions]
      BY <1>5 DEF PromoteFunc, ElectionInv, Promotions
    <2>2. \A u \in Terms : u > term => promotion'[u].at = "none"
      BY <1>5 DEF PromoteFunc, ElectionInv
    <2>3. QED
      BY <1>5, <2>1, <2>2 DEF PromoteFunc, requestVars, ElectionInv
  <1>6. CASE Demote
    <2>1. elector = "leading" /\ elector' = "waiting" /\ changes' = changes + 1
          /\ changes < MaxChanges /\ leads' = FALSE
          /\ UNCHANGED <<term, promotion>>
      BY <1>6 DEF Demote
    <2>2. term \in 0 .. changes + 1 /\ changes \in 0 .. MaxChanges
      BY <2>1 DEF ElectionInv
    <2>3. term' \in 0 .. changes' /\ changes' \in 0 .. MaxChanges
      BY <2>1, <2>2, ProcessAssumption
    <2>4. term' \in 0 .. changes' + (IF elector' = "waiting" THEN 0 ELSE 1)
      BY <2>1, <2>3
    <2>5. QED
      BY ZenonT(60), <2>1, <2>3, <2>4 DEF ElectionInv
  <1>7. CASE Resign
    <2>1. elector' = "ended" /\ leads' = FALSE
          /\ UNCHANGED <<term, promotion, changes>>
      BY <1>7 DEF Resign, requestVars
    <2>2. term \in 0 .. changes + 1
      BY ProcessAssumption DEF ElectionInv
    <2>3. QED
      BY ZenonT(60), <2>1, <2>2 DEF ElectionInv
  <1>8. ASSUME NEW k \in Names, Change(k) PROVE ElectionInv'
    BY <1>8, ProcessAssumption DEF Change, electionVars, ElectionInv
  <1>9. CASE Startup \/ Shutdown \/ ConsumerRuns \/ Signal \/ Get
             \/ (\E l \in Lanes : LaneRuns(l))
             \/ (\E k \in Names : Deliver(k) \/ Notify(k) \/ Reconcile(k) \/ Done(k))
             \/ UNCHANGED vars
    <2>1. UNCHANGED <<electionVars, changes>>
      BY ZenonT(60), <1>9 DEF Startup, Main, Inject, NewController,
         NewCoreController, Configure, InformerLists, StartAll, Shutdown,
         ShutDown, ShutDownSlow, WorkerExits, Exit, ConsumerRuns, Signal,
         Get, LaneRuns, Deliver, Notify, Reconcile, Done, requestVars, vars
    <2>2. QED
      BY <1>1, <2>1
  <1>10. QED
    BY <1>2, <1>3, <1>4, <1>5, <1>6, <1>7, <1>8, <1>9
       DEF Next, Running, OnStartedLeading, Environment

LEMMA NextFollow ==
    ASSUME QInv, ElectionInv, FollowInv, [Next]_vars
    PROVE  FollowInv'
  <1>1. CASE Main \/ Inject \/ NewController \/ NewCoreController
    BY <1>1 DEF Main, Inject, NewController, NewCoreController, queueVars,
       electionVars, requestVars, FollowInv
  <1>2. CASE Configure
    BY ZenonT(60), <1>2 DEF Configure, queueVars, electionVars, requestVars,
       FollowInv
  <1>3. CASE InformerLists
    BY ZenonT(60), <1>3 DEF InformerLists, queueVars, electionVars, FollowInv
  <1>4. CASE StartAll
    BY <1>4 DEF StartAll, QueueStartWorkers, queueVars, electionVars,
       requestVars, FollowInv
  <1>5. ASSUME NEW k \in Names,
               Change(k) \/ Deliver(k) \/ Notify(k) \/ Reconcile(k) \/ Done(k)
        PROVE  FollowInv'
    BY ZenonT(60), <1>5 DEF Change, Deliver, Notify, QueueAdd, Reconcile, Done,
       QueueDone, mainVars, electionVars, queueVars, FollowInv
  <1>6. CASE Elect \/ \E t \in Terms : OnStartedLeading(t)
    <2>1. /\ UNCHANGED <<mainVars, requestVars>>
          /\ processing' = processing
      BY <1>6 DEF Elect, OnStartedLeading, Promote, PromoteLists,
         PromoteFunc, QueueAdd, queueVars
    <2>2. \A t \in Terms : promotion'[t].names \subseteq cache
      BY <1>6 DEF Elect, OnStartedLeading, Promote, PromoteLists,
         PromoteFunc, ElectionInv, Promotions, FollowInv
    <2>3. QED
      BY <2>1, <2>2 DEF mainVars, requestVars, FollowInv
  <1>7. CASE Demote \/ Resign \/ Signal \/ Exit \/ UNCHANGED vars
    BY ZenonT(60), <1>7 DEF Demote, Resign, Signal, Exit, vars, mainVars,
       electionVars, requestVars, queueVars, FollowInv
  <1>8. CASE Get
    BY ZenonT(60), <1>8 DEF Get, QueueGet, mainVars, electionVars,
       requestVars, FollowInv
  <1>9. CASE ConsumerRuns \/ \E l \in Lanes : LaneRuns(l)
    BY <1>9, ThreadsKeepPending DEF ConsumerRuns, LaneRuns, mainVars,
       electionVars, requestVars, FollowInv
  <1>10. CASE ShutDown \/ ShutDownSlow \/ WorkerExits
    BY <1>10 DEF ShutDown, ShutDownSlow, QueueShutDown, WorkerExits,
       QueueExit, mainVars, electionVars, requestVars, FollowInv
  <1>11. QED
    BY <1>1, <1>2, <1>3, <1>4, <1>5, <1>6, <1>7, <1>8, <1>9, <1>10
       DEF Next, Startup, Running, Shutdown, Environment

\* A process keeps its types: in particular each of its three queues keeps
\* its line in order, the consumer queue through both lanes, through
\* promotions that are overtaken by a lost lease and through shutdown.
THEOREM ProcessTyped == Spec => []TypeOK
  <1>1. Init => QInv /\ MainInv /\ ElectionInv /\ FollowInv
    BY ZenonT(60), InitQueue, InitMain, InitFollow DEF Init
  <1>2. QInv /\ MainInv /\ ElectionInv /\ FollowInv /\ [Next]_vars
        => QInv' /\ MainInv' /\ ElectionInv' /\ FollowInv'
    BY NextMovesQueue, QueueStepKeeps, NextMain, NextElection, NextFollow
  <1>3. QInv /\ MainInv /\ ElectionInv /\ FollowInv => TypeOK
    BY DEF QInv, MainInv, ElectionInv, FollowInv, TypeOK
  <1>4. QED
    BY <1>1, <1>2, <1>3, PTL DEF Spec

-----------------------------------------------------------------------------
(***************************************************************************)
(* No change is missed.  A core that does not lead forgets the names it    *)
(* takes; what saves it is that every request is in its cache or about to  *)
(* be, so that a promotion, which records the bucket before it lists the   *)
(* cache, lists it.                                                        *)
(***************************************************************************)
ChangeInv ==
    /\ store \subseteq watch \cup cache
    /\ NoMissedChange

OnItsWay ==
    watch \cup inbox \cup Pending \cup (processing \ read) \cup Promoting

LEMMA InitChange == Init => ChangeInv
  BY DEF Init, QueueInit, ChangeInv, NoMissedChange

\* What a promotion has still to enqueue depends on nothing but the cache.
LEMMA PromotingGrows ==
    ASSUME promotion' = promotion, cache \subseteq cache'
    PROVE  Promoting \subseteq Promoting'
  BY DEF Promoting

LEMMA NextChange ==
    ASSUME QInv, MainInv, ElectionInv, FollowInv, ChangeInv, [Next]_vars
    PROVE  ChangeInv'
  <1> USE DEF ChangeInv
  <1>s. /\ store \subseteq watch \cup cache
        /\ owed \subseteq store
        /\ read \subseteq processing
    BY DEF FollowInv
  <1>0. ASSUME UNCHANGED <<electionVars, resolver>>,
               store' \subseteq watch' \cup cache',
               cache \subseteq cache',
               shut' = {} => shut = {} /\ owed' \cap OnItsWay \subseteq OnItsWay'
                                      /\ owed' \subseteq owed \cup watch'
        PROVE  ChangeInv'
    BY <1>0 DEF electionVars, NoMissedChange, OnItsWay
  <1>1. CASE Main \/ Inject \/ NewController \/ NewCoreController \/ Configure
             \/ Exit \/ Signal \/ UNCHANGED vars
    <2>1. UNCHANGED <<electionVars, resolver, requestVars, queueVars>>
      BY <1>1 DEF Main, Inject, NewController, NewCoreController, Configure,
         Exit, Signal, vars, mainVars
    <2>2. QED
      BY <2>1 DEF electionVars, requestVars, queueVars, laneVars, Pending,
         Waiting, Promoting, NoMissedChange
  <1>2. CASE InformerLists
    <2>1. UNCHANGED <<electionVars, resolver, queueVars, store, read, owed>>
          /\ cache' = store /\ inbox' = store /\ watch' = {}
      BY <1>2 DEF InformerLists, MainInv, Constructed
    <2>2. QED
      BY <1>s, <2>1 DEF NoMissedChange
  <1>3. CASE StartAll \/ ShutDownSlow \/ WorkerExits
    <2>1. /\ UNCHANGED <<electionVars, resolver, requestVars>>
          /\ UNCHANGED <<lane, hand, dirty, processing>>
          /\ shut' = {} => shut = {}
      BY <1>3 DEF StartAll, QueueStartWorkers, ShutDownSlow, QueueShutDown,
         WorkerExits, QueueExit, laneVars, queueVars, mainVars
    <2>2. QED
      BY <2>1 DEF electionVars, requestVars, Pending, Waiting, Promoting,
         NoMissedChange
  <1>4. ASSUME NEW k \in Names, Change(k) \/ Deliver(k) PROVE ChangeInv'
    <2>1. /\ UNCHANGED <<electionVars, resolver, queueVars, read>>
          /\ cache \subseteq cache'
          /\ store' \subseteq watch' \cup cache'
          /\ owed' \subseteq owed \cup watch'
          /\ watch \cup inbox \subseteq watch' \cup inbox'
      BY <1>4 DEF Change, Deliver, mainVars, MainInv, Constructed
    <2>2. Promoting \subseteq Promoting'
      BY <2>1, PromotingGrows DEF electionVars
    <2>3. QED
      BY <1>0, <2>1, <2>2 DEF queueVars, laneVars, Pending, Waiting, OnItsWay
  <1>5. ASSUME NEW k \in Names, Notify(k) PROVE ChangeInv'
    <2>1. /\ UNCHANGED <<electionVars, resolver, store, watch, cache, read, owed,
                         processing, shut>>
          /\ inbox' = inbox \ {k}
          /\ QueueAdd("fast", k)
      BY <1>5 DEF Notify, QueueAdd, mainVars
    <2>2. Promoting \subseteq Promoting'
      BY <2>1, PromotingGrows DEF electionVars
    <2>3. shut = {} => Pending' = Pending \cup {k}
      BY <2>1, AddIsPending DEF Lanes
    <2>4. QED
      BY <1>0, <1>s, <2>1, <2>2, <2>3 DEF OnItsWay
  <1>6. ASSUME NEW k \in Names, Reconcile(k) PROVE ChangeInv'
    <2>1. /\ UNCHANGED <<electionVars, resolver, queueVars, store, watch,
                         cache, inbox>>
          /\ read' = read \cup {k}
          /\ owed' = IF Reconciles /\ k \notin watch THEN owed \ {k} ELSE owed
      BY <1>6 DEF Reconcile, mainVars
    <2>2. Pending' = Pending /\ Promoting' = Promoting
      BY <2>1 DEF electionVars, queueVars, laneVars, Pending, Waiting,
         Promoting
    <2>3. QED
      BY <1>s, <2>1, <2>2 DEF electionVars, queueVars, Reconciles,
         NoMissedChange
  <1>7. ASSUME NEW k \in Names, Done(k) PROVE ChangeInv'
    <2>1. /\ UNCHANGED <<electionVars, resolver, store, watch, cache, inbox,
                         owed, shut>>
          /\ UNCHANGED <<lane, hand, dirty>>
          /\ processing' = processing \ {k} /\ read' = read \ {k}
          /\ k \in read
      BY <1>7 DEF Done, QueueDone, laneVars, mainVars
    <2>2. QED
      BY <2>1 DEF electionVars, Pending, Waiting, Promoting, NoMissedChange
  <1>8. CASE Elect \/ Demote \/ Resign
    <2>1. /\ UNCHANGED <<resolver, queueVars, store, watch, cache, inbox, read,
                         owed>>
          /\ leads' => leads
      BY <1>8 DEF Elect, Demote, Resign, requestVars, mainVars
    <2>2. \A t \in Terms :
             /\ promotion'[t].names = promotion[t].names
             /\ promotion[t].at = "list" => promotion'[t].at = "list"
      <3>1. CASE Elect
        <4>1. term \in Nat /\ promotion' = [promotion EXCEPT ![term + 1].at = "record"]
          BY <3>1, ProcessAssumption DEF Elect, ElectionInv
        <4>2. term + 1 > term
          BY <4>1
        <4>3. term + 1 \in Terms => promotion[term + 1].at # "list"
          BY <4>2 DEF ElectionInv
        <4>4. QED
          BY <4>1, <4>3 DEF ElectionInv, Promotions
      <3>2. CASE Demote \/ Resign
        BY <3>2 DEF Demote, Resign
      <3>3. QED
        BY <1>8, <3>1, <3>2
    <2>3. Promoting \subseteq Promoting'
      BY <2>1, <2>2 DEF Promoting
    <2>4. QED
      BY <2>1, <2>3 DEF queueVars, laneVars, Pending, Waiting, NoMissedChange
  <1>9. ASSUME NEW t \in Terms, Promote(t) PROVE ChangeInv'
    <2>1. /\ UNCHANGED <<requestVars, resolver, queueVars>>
          /\ promotion'[t].at = "list"
      BY <1>9 DEF Promote, ElectionInv, mainVars
    <2>2. cache \subseteq Promoting'
      BY <2>1 DEF requestVars, Promoting
    <2>3. QED
      BY <1>s, <2>1, <2>2 DEF requestVars, NoMissedChange
  <1>10. ASSUME NEW t \in Terms, PromoteLists(t) PROVE ChangeInv'
    <2>1. /\ UNCHANGED <<requestVars, resolver, queueVars, leads>>
          /\ promotion'[t].names = cache
          /\ \A u \in Terms \ {t} : promotion'[u].names = promotion[u].names
      BY <1>10 DEF PromoteLists, ElectionInv, mainVars
    <2>2. Promoting \subseteq Promoting'
      BY <2>1 DEF requestVars, Promoting
    <2>3. QED
      BY <2>1, <2>2 DEF requestVars, queueVars, laneVars, Pending, Waiting,
         NoMissedChange
  <1>11. ASSUME NEW t \in Terms, NEW k \in Names, PromoteFunc(t, k)
         PROVE  ChangeInv'
    <2>1. /\ UNCHANGED <<requestVars, resolver, leads, processing, shut>>
          /\ QueueAdd("slow", k)
          /\ \A u \in Terms :
               /\ promotion[u].names \subseteq promotion'[u].names \cup {k}
               /\ promotion'[u].at = promotion[u].at
      BY <1>11 DEF PromoteFunc, QueueAdd, mainVars, ElectionInv, Promotions
    <2>2. Promoting \subseteq Promoting' \cup {k}
      BY ZenonT(60), <2>1 DEF requestVars, Promoting
    <2>3. shut = {} => Pending' = Pending \cup {k}
      BY <2>1, AddIsPending DEF Lanes
    <2>4. QED
      BY <2>1, <2>2, <2>3 DEF requestVars, NoMissedChange
  <1>12. CASE Get
    <2>1. /\ UNCHANGED <<electionVars, resolver, requestVars, lane, hand, shut>>
          /\ dirty' = dirty \ {Head(line)}
          /\ processing' = processing \cup {Head(line)}
          /\ line # <<>>
      BY <1>12 DEF Get, QueueGet, laneVars, mainVars
    <2>2. Head(line) \notin read
      BY <1>s, <2>1, TailOfUnique DEF QInv, QueueTypeOK
    <2>3. Pending \subseteq Pending' \cup (processing' \ read')
      BY <2>1, <2>2 DEF Pending, Waiting, requestVars
    <2>4. Promoting' = Promoting
      BY <2>1 DEF electionVars, requestVars, Promoting
    <2>5. QED
      BY <2>1, <2>3, <2>4 DEF electionVars, requestVars, NoMissedChange
  <1>13. CASE ConsumerRuns \/ \E l \in Lanes : LaneRuns(l)
    <2>1. /\ UNCHANGED <<electionVars, resolver, requestVars>>
          /\ Pending' = Pending /\ processing' = processing
          /\ shut' = {} => shut = {}
      BY <1>13, ThreadsKeepPending DEF ConsumerRuns, LaneRuns, mainVars
    <2>2. QED
      BY <2>1 DEF electionVars, requestVars, Promoting, NoMissedChange
  <1>14. CASE ShutDown
    BY <1>14 DEF ShutDown, QueueShutDown, NoMissedChange
  <1>15. QED
    BY <1>1, <1>2, <1>3, <1>4, <1>5, <1>6, <1>7, <1>8, <1>9, <1>10, <1>11,
       <1>12, <1>13, <1>14
       DEF Next, Startup, Running, OnStartedLeading, Shutdown, Environment

\* No change of a request is missed while the process starts and runs, nor
\* at any moment of a promotion: between the record of the bucket and the
\* list, between the list and the last name, or when the lease is lost
\* meanwhile.
THEOREM ProcessMissesNothing == Spec => []NoMissedChange
  <1> DEFINE Inv == QInv /\ MainInv /\ ElectionInv /\ FollowInv /\ ChangeInv
  <1>1. Init => Inv
    BY InitQueue, InitMain, InitFollow, InitChange DEF Init
  <1>2. Inv /\ [Next]_vars => Inv'
    BY NextMovesQueue, QueueStepKeeps, NextMain, NextElection, NextFollow,
       NextChange
  <1>3. Inv => NoMissedChange
    BY DEF ChangeInv
  <1>4. QED
    BY <1>1, <1>2, <1>3, PTL DEF Spec
=============================================================================
