-------------------------- MODULE IngestionProofs --------------------------
(***************************************************************************)
(* Proofs about Ingestion, for any number of cameras and workers and any   *)
(* sizes of the queues.                                                    *)
(***************************************************************************)
EXTENDS Ingestion, DataFacts, FiniteSetTheorems, TLAPS

(* The first jobs: camera_order names every camera once.                   *)
LEMMA CameraOrderFacts ==
    /\ CameraOrder \in Seq(Camera)
    /\ Len(CameraOrder) = CameraCount
    /\ \A i \in 1 .. CameraCount : CameraOrder[i] = i - 1
  BY SizesAssumption DEF CameraOrder, Camera

-----------------------------------------------------------------------------
(* Type correctness                                                        *)

(* What a thread holds while it is in the middle of a job.                 *)
HandsOK ==
    /\ \A w \in Workers : HoldsJob(w) \/ wpc[w] \in {"publish", "halt", "cleanup"}
          => wcam[w] \in Camera
    /\ spc \in {"offer", "put"} => spacket \in Packet
    /\ cpc \in {"collect", "process"} => batch # <<>>

TypeInv == TypeOK /\ HandsOK

(* The initial state is well typed, and no thread holds anything.          *)
LEMMA TypeInit == Init => TypeInv
<1> SUFFICES ASSUME Init PROVE TypeInv
  OBVIOUS
<1>1. 0 \in Camera
  BY SizesAssumption DEF SizesAssumption, Camera
<1>2. taskQueue \in Seq(Camera) /\ frameQueue \in Seq(Packet) /\ batch \in Seq(Packet)
  BY DEF Init
<1>3. /\ buffer \in [Camera -> Seq(Nat)]
      /\ Len(frameQueue) <= FrameQueueSize /\ Len(batch) <= BatchSize
  BY SizesAssumption DEF SizesAssumption, Init
<1>4. TypeOK
  BY <1>1, <1>2, <1>3 DEF Init, TypeOK, WorkerPc, SchedulerPc, ConsumerPc
<1>5. HandsOK
  BY DEF Init, HandsOK, HoldsJob
<1>6. QED
  BY <1>4, <1>5 DEF TypeInv

(* Every step of a worker keeps the types and its hands consistent.        *)
LEMMA TypeWorker ==
    ASSUME TypeInv, NEW w \in Workers, WorkerStep(w)
    PROVE  TypeInv'
<1> USE SizesAssumption, BehaviourAssumption
    DEF TypeInv, TypeOK, HandsOK, HoldsJob, NoCamera, WorkerGoto, WorkerPc,
        readerVars, flagVars, workerVars, schedulerVars, consumerVars
<1>1. CASE WorkerCheckStop(w)
  BY <1>1 DEF WorkerCheckStop
<1>2. CASE WorkerGet(w)
  <2>1. Head(taskQueue) \in Camera /\ Tail(taskQueue) \in Seq(Camera)
    BY <1>2, TailFacts DEF WorkerGet
  <2> DEFINE c == Head(taskQueue)
             q == Tail(taskQueue)
  <2>2. /\ wcam' = [wcam EXCEPT ![w] = c]
        /\ taskQueue' = q
        /\ c \in Camera /\ q \in Seq(Camera)
    BY <1>2, <2>1 DEF WorkerGet
  <2> HIDE DEF c, q
  <2>3. QED
    BY <1>2, <2>2 DEF WorkerGet
<1>3. CASE WorkerGetTimeout(w)
  BY <1>3 DEF WorkerGetTimeout
<1>4. CASE WorkerCheckFinished(w)
  BY <1>4 DEF WorkerCheckFinished
<1>5. CASE WorkerClaim(w)
  BY <1>5 DEF WorkerClaim
<1>6. CASE WorkerOpen(w)
  <2>1. wcam[w] \in Camera
    BY <1>6 DEF WorkerOpen
  <2>2. endedReaders' \subseteq Camera /\ openReaders' \subseteq Camera
    <3>1. /\ openReaders' = openReaders \cup {wcam[w]}
          /\ endedReaders' = endedReaders \/ endedReaders' = endedReaders \ {wcam[w]}
      BY <1>6 DEF WorkerOpen
    <3>2. openReaders \subseteq Camera /\ endedReaders \subseteq Camera
      OBVIOUS
    <3>3. QED
      BY <2>1, <3>1, <3>2
  <2>3. frameNumber' \in [Camera -> Nat]
    <3>1. \/ frameNumber' = frameNumber
          \/ frameNumber' = [frameNumber EXCEPT ![wcam[w]] = 0]
      BY <1>6 DEF WorkerOpen
    <3>2. frameNumber \in [Camera -> Nat]
      OBVIOUS
    <3> HIDE DEF TypeInv
    <3>3. QED
      BY <3>1, <3>2
  <2>4. TypeOK'
    BY <1>6, <2>2, <2>3 DEF WorkerOpen
  <2>5. HandsOK'
    BY <1>6, <2>1 DEF WorkerOpen
  <2>6. QED
    BY <2>4, <2>5
<1>7. CASE WorkerReadRaises(w)
  BY <1>7 DEF WorkerReadRaises
<1>8. CASE WorkerReadNone(w)
  BY <1>8 DEF WorkerReadNone
<1>9. CASE WorkerReadFrame(w)
  BY <1>9 DEF WorkerReadFrame
<1>10. CASE WorkerHandleError(w)
  BY <1>10 DEF WorkerHandleError
<1>11. CASE WorkerStopAll(w)
  BY <1>11 DEF WorkerStopAll
<1>12. CASE WorkerMarkCompleted(w)
  BY <1>12 DEF WorkerMarkCompleted
<1>13. CASE WorkerPut(w)
  BY <1>13 DEF WorkerPut
<1>14. CASE WorkerPublish(w)
  BY <1>14 DEF WorkerPublish
<1>15. CASE WorkerCleanup(w)
  BY <1>15 DEF WorkerCleanup
<1>16. CASE WorkerExit(w)
  BY <1>16 DEF WorkerExit
<1>17. QED
  BY <1>1, <1>2, <1>3, <1>4, <1>5, <1>6, <1>7, <1>8, <1>9, <1>10, <1>11, <1>12, <1>13,
     <1>14, <1>15, <1>16 DEF WorkerStep

(* Every step of the scheduler keeps the types.                            *)
LEMMA TypeScheduler ==
    ASSUME TypeInv, SchedulerStep
    PROVE  TypeInv'
<1> USE DEF TypeInv, TypeOK, HandsOK, HoldsJob, NoCamera, SchedulerGoto, SchedulerPc,
        readerVars, flagVars, workerVars, schedulerVars, consumerVars
<1>1. CASE SchedulerCheckStop
  BY <1>1 DEF SchedulerCheckStop
<1>2. ASSUME NEW c \in Camera, SchedulerTake(c)
      PROVE  TypeInv'
  <2>1. buffer[c] \in Seq(Nat) /\ buffer[c] # <<>>
    BY <1>2 DEF SchedulerTake, FirstReady
  <2>2. Head(buffer[c]) \in Nat /\ Tail(buffer[c]) \in Seq(Nat)
    BY <2>1, TailFacts
  <2>3. spacket' \in Packet
    BY <1>2, <2>2 DEF SchedulerTake, Packet
  <2>4. buffer' \in [Camera -> Seq(Nat)]
    BY <1>2, <2>2 DEF SchedulerTake
  <2>5. schedulerIndex' \in Camera
    BY <1>2, SizesAssumption DEF SizesAssumption, SchedulerTake, IndexAfter, Camera
  <2>6. taskQueue' \in Seq(Camera) /\ taskEnqueued' \subseteq Camera
    <3>1. Append(taskQueue, c) \in Seq(Camera)
      OBVIOUS
    <3>2. QED
      BY <1>2, <3>1 DEF SchedulerTake
  <2>7. QED
    BY <1>2, <2>3, <2>4, <2>5, <2>6 DEF SchedulerTake
<1>3. CASE SchedulerFindsNone
  BY <1>3 DEF SchedulerFindsNone
<1>4. CASE SchedulerCheckFinished
  BY <1>4 DEF SchedulerCheckFinished
<1>5. CASE SchedulerOffer
  BY <1>5 DEF SchedulerOffer
<1>6. CASE SchedulerPut
  <2>1. /\ frameQueue' \in Seq(Packet)
        /\ Len(frameQueue') <= FrameQueueSize
    BY <1>6, AppendFacts, SizesAssumption DEF SizesAssumption, SchedulerPut
  <2>2. QED
    BY <1>6, <2>1 DEF SchedulerPut
<1>7. CASE SchedulerPutTimeout
  BY <1>7 DEF SchedulerPutTimeout
<1>8. CASE SchedulerExit
  BY <1>8 DEF SchedulerExit
<1>9. QED
  BY <1>1, <1>2, <1>3, <1>4, <1>5, <1>6, <1>7, <1>8 DEF SchedulerStep

(* Every step of the consumer, from start to stop(), keeps the types.      *)
LEMMA TypeConsumer ==
    ASSUME TypeInv, ConsumerStep
    PROVE  TypeInv'
<1> USE DEF TypeInv, TypeOK, HandsOK, HoldsJob, NoCamera, ConsumerGoto, ConsumerPc,
        readerVars, flagVars, workerVars, schedulerVars, consumerVars
<1>1. CASE Start
  <2>1. taskQueue' \in Seq(Camera)
    BY <1>1, CameraOrderFacts DEF Start
  <2>2. QED
    BY <1>1, <2>1 DEF Start
<1>2. CASE ConsumerGet
  <2>1. /\ frameQueue' \in Seq(Packet) /\ Len(frameQueue') <= FrameQueueSize
        /\ Head(frameQueue) \in Packet
    BY <1>2, TailFacts, SizesAssumption DEF SizesAssumption, ConsumerGet
  <2>2. batch' \in Seq(Packet) /\ Len(batch') = 1 /\ batch' # <<>>
    BY <1>2, <2>1 DEF ConsumerGet
  <2>3. Len(batch') <= BatchSize
    BY <2>2, SizesAssumption DEF SizesAssumption
  <2>4. QED
    BY <1>2, <2>1, <2>2, <2>3 DEF ConsumerGet
<1>3. CASE ConsumerGetTimeout
  BY <1>3 DEF ConsumerGetTimeout
<1>4. CASE ConsumerCheckFinished
  BY <1>4 DEF ConsumerCheckFinished
<1>5. CASE ConsumerCheckDrained
  BY <1>5 DEF ConsumerCheckDrained
<1>6. CASE ConsumerCollect
  <2>1. /\ frameQueue' \in Seq(Packet) /\ Len(frameQueue') <= FrameQueueSize
        /\ Head(frameQueue) \in Packet
    BY <1>6, TailFacts, SizesAssumption DEF SizesAssumption, ConsumerCollect
  <2>2. batch' \in Seq(Packet) /\ Len(batch') = Len(batch) + 1
    BY <1>6, <2>1, AppendFacts DEF ConsumerCollect
  <2>3. Len(batch') <= BatchSize /\ batch' # <<>>
    <3>1. Len(batch) \in Nat /\ Len(batch) < BatchSize /\ BatchSize \in Nat
      BY <1>6, SizesAssumption DEF SizesAssumption, ConsumerCollect
    <3>2. Len(batch') <= BatchSize /\ Len(batch') # 0
      BY <2>2, <3>1
    <3>3. QED
      BY <3>2
  <2>4. QED
    BY <1>6, <2>1, <2>2, <2>3 DEF ConsumerCollect
<1>7. CASE ConsumerBatchReady
  BY <1>7 DEF ConsumerBatchReady
<1>8. CASE ConsumerProcess
  <2>1. /\ Head(batch) \in Packet
        /\ batch' \in Seq(Packet) /\ Len(batch') = Len(batch) - 1
        /\ Len(batch') <= BatchSize
        /\ Len(batch) # 1 => batch' # <<>>
    <3>1. batch \in Seq(Packet) /\ batch # <<>> /\ Len(batch) <= BatchSize
      BY <1>8 DEF ConsumerProcess
    <3>2. /\ Head(batch) \in Packet
          /\ Tail(batch) \in Seq(Packet) /\ Len(Tail(batch)) = Len(batch) - 1
          /\ Len(batch) \in Nat
      BY <3>1, TailFacts
    <3>4. batch' = Tail(batch)
      BY <1>8 DEF ConsumerProcess
    <3> HIDE DEF TypeInv
    <3>3. /\ Len(Tail(batch)) <= BatchSize
          /\ Len(batch) # 1 => Tail(batch) # <<>>
      <4>1. Tail(batch) = <<>> => Len(Tail(batch)) = 0
        OBVIOUS
      <4>2. QED
        BY <3>1, <3>2, <4>1, SizesAssumption DEF SizesAssumption
    <3>5. QED
      BY <3>2, <3>3, <3>4
  <2>2. /\ lastProcessed' \in [Camera -> Nat \cup {-1}]
        /\ orderViolations' \in Nat
    <3>1. Head(batch).camera \in Camera /\ Head(batch).frame \in Nat
      BY <2>1 DEF Packet
    <3>2. orderViolations' \in Nat
      BY <1>8 DEF ConsumerProcess
    <3>3. lastProcessed' = [lastProcessed EXCEPT ![Head(batch).camera] = Head(batch).frame]
      BY <1>8 DEF ConsumerProcess
    <3>4. QED
      BY <3>1, <3>2, <3>3
  <2>3. QED
    BY <1>8, <2>1, <2>2 DEF ConsumerProcess
<1>9. CASE ConsumerRaises
  BY <1>9, SizesAssumption DEF SizesAssumption, ConsumerRaises
<1>10. CASE StopSetEvent
  BY <1>10 DEF StopSetEvent
<1>11. CASE StopJoinScheduler
  BY <1>11 DEF StopJoinScheduler
<1>12. CASE StopJoinWorkers
  BY <1>12 DEF StopJoinWorkers
<1>13. CASE StopCloseReaders
  BY <1>13 DEF StopCloseReaders
<1>14. QED
  BY <1>1, <1>2, <1>3, <1>4, <1>5, <1>6, <1>7, <1>8, <1>9, <1>10, <1>11, <1>12, <1>13
  DEF ConsumerStep

(* A step that changes nothing.                                            *)
LEMMA TypeStutter ==
    ASSUME TypeInv, UNCHANGED vars
    PROVE  TypeInv'
  BY DEF TypeInv, TypeOK, HandsOK, HoldsJob, vars, readerVars, flagVars, workerVars,
         schedulerVars, consumerVars

(* Every step of the specification keeps the type invariant.               *)
LEMMA TypeStep == TypeInv /\ [Next]_vars => TypeInv'
  BY TypeWorker, TypeScheduler, TypeConsumer, TypeStutter DEF Next, Terminated

(* The variables keep their types: the queues never hold more than their
   capacity, and a thread in the middle of a job always holds a camera, a
   frame or a batch to work on. *)
THEOREM TypeCorrect == Spec => [](TypeOK /\ HandsOK)
<1>1. Spec => []TypeInv
  BY TypeInit, TypeStep, PTL DEF Spec
<1>2. QED
  BY <1>1, PTL DEF TypeInv

-----------------------------------------------------------------------------
(* One job per camera                                                      *)

(* A camera whose job waits in the queue, or was just taken from it, is free
   to be read. *)
Free(c) ==
    /\ c \in taskEnqueued /\ c \notin readInFlight
    /\ c \notin completedCameras \cup failedCameras

QueuedJobsFree ==
    /\ \A i \in DOMAIN taskQueue : Free(taskQueue[i])
    /\ \A w \in Workers : wpc[w] = "claim" => Free(wcam[w])

NothingBeforeStart ==
    cpc = "start" =>
       /\ taskQueue = <<>> /\ BuffersEmpty
       /\ \A w \in Workers : ~HoldsJob(w)
       /\ readInFlight = {} /\ completedCameras = {} /\ failedCameras = {}

JobInv == OneJobPerCamera /\ CamerasRetireOnce /\ QueuedJobsFree /\ NothingBeforeStart

(* The part of the types that the job invariant depends on.                *)
JobTypes ==
    /\ taskQueue \in Seq(Camera)
    /\ buffer \in [Camera -> Seq(Nat)]
    /\ wpc \in [Workers -> WorkerPc]
    /\ wcam \in [Workers -> Camera \cup {NoCamera}]
    /\ \A w \in Workers : HoldsJob(w) => wcam[w] \in Camera

(* The part of the type invariant the job lemmas need.                     *)
LEMMA TypeInvGivesJobTypes == TypeInv => JobTypes
  BY DEF TypeInv, TypeOK, HandsOK, JobTypes

(* No job exists before start().                                           *)
LEMMA JobInit == Init => JobInv
  BY DEF Init, JobInv, OneJobPerCamera, CamerasRetireOnce, QueuedJobsFree,
         NothingBeforeStart, HoldsJob, BuffersEmpty

(* A worker takes a job out of the queue, and gives it up before the frame
   becomes visible to the scheduler: no step of a worker doubles a job. *)
LEMMA JobWorker ==
    ASSUME JobTypes, JobInv, NEW w \in Workers, WorkerStep(w)
    PROVE  JobInv'
<1> USE DEF JobTypes, JobInv, OneJobPerCamera, CamerasRetireOnce, QueuedJobsFree, Free,
        NothingBeforeStart, HoldsJob, BuffersEmpty, WorkerGoto,
        readerVars, flagVars, workerVars, schedulerVars, consumerVars
<1>1. CASE WorkerCheckStop(w)
  BY <1>1 DEF WorkerCheckStop
<1>3. CASE WorkerGetTimeout(w)
  BY <1>3 DEF WorkerGetTimeout
<1>4. CASE WorkerCheckFinished(w)
  BY <1>4 DEF WorkerCheckFinished
<1>5. CASE WorkerClaim(w)
  BY <1>5 DEF WorkerClaim, Readable
<1>6. CASE WorkerOpen(w)
  BY <1>6 DEF WorkerOpen
<1>7. CASE WorkerReadRaises(w)
  BY <1>7 DEF WorkerReadRaises
<1>8. CASE WorkerReadNone(w)
  BY <1>8 DEF WorkerReadNone
<1>9. CASE WorkerReadFrame(w)
  BY <1>9 DEF WorkerReadFrame
<1>10. CASE WorkerHandleError(w)
  BY <1>10 DEF WorkerHandleError
<1>11. CASE WorkerStopAll(w)
  BY <1>11 DEF WorkerStopAll
<1>12. CASE WorkerMarkCompleted(w)
  BY <1>12 DEF WorkerMarkCompleted
<1>13. CASE WorkerPut(w)
  BY <1>13 DEF WorkerPut
<1>14. CASE WorkerPublish(w)
  BY <1>14 DEF WorkerPublish
<1>15. CASE WorkerCleanup(w)
  BY <1>15 DEF WorkerCleanup
<1>16. CASE WorkerExit(w)
  BY <1>16 DEF WorkerExit
<1>2. CASE WorkerGet(w)
  <2> DEFINE c == Head(taskQueue)
             q == Tail(taskQueue)
             n == Len(taskQueue)
  <2>1. taskQueue \in Seq(Camera) /\ taskQueue # <<>>
    BY <1>2 DEF WorkerGet
  <2>2. /\ c \in Camera /\ c = taskQueue[1] /\ n \in Nat /\ n >= 1
        /\ DOMAIN taskQueue = 1 .. n /\ DOMAIN q = 1 .. n - 1
        /\ \A i \in 1 .. n - 1 : q[i] = taskQueue[i + 1]
    BY <2>1, TailFacts
  <2>3. /\ taskQueue' = q
        /\ wcam' = [wcam EXCEPT ![w] = c]
        /\ wpc[w] = "get" /\ wpc' = [wpc EXCEPT ![w] = "claim"]
        /\ UNCHANGED <<buffer, completedCameras, failedCameras, taskEnqueued,
                       readInFlight, cpc>>
    BY <1>2 DEF WorkerGet
  <2> HIDE DEF c, q, n
  <2>4. 1 \in DOMAIN taskQueue /\ \A i \in 1 .. n - 1 : i + 1 \in DOMAIN taskQueue
    BY <2>2
  <2>5. /\ \A i, j \in 1 .. n - 1 : q[i] = q[j] => i = j
        /\ \A i \in 1 .. n - 1 : q[i] # c /\ Free(q[i])
        /\ \A i \in 1 .. n - 1 : \A v \in Workers : HoldsJob(v) => q[i] # wcam[v]
    <3>1. \A i, j \in 1 .. n - 1 : q[i] = q[j] => i = j
      <4>1. SUFFICES ASSUME NEW i \in 1 .. n - 1, NEW j \in 1 .. n - 1, q[i] = q[j]
                     PROVE  i = j
        OBVIOUS
      <4>2. taskQueue[i + 1] = taskQueue[j + 1] /\ i + 1 \in 1 .. n /\ j + 1 \in 1 .. n
        BY <2>2, <4>1
      <4>3. i + 1 = j + 1
        BY <2>2, <4>2
      <4> HIDE DEF JobInv
      <4>4. QED
        BY <2>2, <4>3
    <3>2. ASSUME NEW i \in 1 .. n - 1
          PROVE  /\ q[i] # c /\ Free(q[i])
                 /\ \A v \in Workers : HoldsJob(v) => q[i] # wcam[v]
      <4>1. q[i] = taskQueue[i + 1] /\ i + 1 \in DOMAIN taskQueue /\ i + 1 # 1
        BY <2>2, <2>4
      <4>2. QED
        BY <2>2, <2>4, <4>1
    <3>3. QED
      BY <3>1, <3>2
  <2>6. /\ Free(c) /\ buffer[c] = <<>>
        /\ \A v \in Workers : HoldsJob(v) => wcam[v] # c
    BY <2>2, <2>4
  <2>7. cpc # "start"
    BY <2>1
  <2>8. DOMAIN taskQueue' = 1 .. n - 1
    BY <2>2, <2>3
  <2>9. \A d \in Camera : buffer[d] # <<>> => \A i \in 1 .. n - 1 : q[i] # d
    BY <2>2, <2>4
  <2>10. OneJobPerCamera'
    BY <2>2, <2>3, <2>5, <2>6, <2>8, <2>9
  <2>11. CamerasRetireOnce' /\ QueuedJobsFree' /\ NothingBeforeStart'
    BY <2>2, <2>3, <2>5, <2>6, <2>7, <2>8
  <2>12. QED
    BY <2>10, <2>11
<1>17. QED
  BY <1>1, <1>2, <1>3, <1>4, <1>5, <1>6, <1>7, <1>8, <1>9, <1>10, <1>11, <1>12, <1>13,
     <1>14, <1>15, <1>16 DEF WorkerStep

(* The scheduler creates a job only of a camera that has none.             *)
LEMMA JobScheduler ==
    ASSUME JobTypes, JobInv, SchedulerStep
    PROVE  JobInv'
<1> USE DEF JobTypes, JobInv, OneJobPerCamera, CamerasRetireOnce, QueuedJobsFree, Free,
        NothingBeforeStart, HoldsJob, BuffersEmpty, SchedulerGoto,
        readerVars, flagVars, workerVars, schedulerVars, consumerVars
<1>1. CASE SchedulerCheckStop
  BY <1>1 DEF SchedulerCheckStop
<1>2. ASSUME NEW c \in Camera, SchedulerTake(c)
      PROVE  JobInv'
  <2> DEFINE n == Len(taskQueue)
  <2>1. buffer[c] \in Seq(Nat) /\ buffer[c] # <<>> /\ Len(buffer[c]) = 1
    BY <1>2 DEF SchedulerTake, FirstReady
  <2>2. Tail(buffer[c]) = <<>>
    <3>1. Tail(buffer[c]) \in Seq(Nat) /\ Len(Tail(buffer[c])) = 0
      BY <2>1, TailFacts
    <3>2. QED
      BY <3>1, EmptySeq
  <2>3. buffer' = [buffer EXCEPT ![c] = <<>>]
    BY <1>2, <2>2 DEF SchedulerTake
  <2>4. /\ UNCHANGED <<wpc, wcam, readInFlight, completedCameras, failedCameras, cpc>>
        /\ cpc # "start"
    BY <1>2, <2>1 DEF SchedulerTake
  <2>5. CASE UNCHANGED <<taskQueue, taskEnqueued>>
    BY <2>3, <2>4, <2>5
  <2>6. CASE /\ MayScheduleRead(c, Tail(buffer[c]))
             /\ taskQueue' = Append(taskQueue, c)
             /\ taskEnqueued' = taskEnqueued \cup {c}
    <3>1. /\ n \in Nat
          /\ DOMAIN taskQueue = 1 .. n /\ DOMAIN taskQueue' = 1 .. n + 1
          /\ \A i \in 1 .. n : taskQueue'[i] = taskQueue[i]
          /\ taskQueue'[n + 1] = c
      BY <2>6, AppendFacts
    <3>2. /\ \A i \in 1 .. n : taskQueue[i] # c
          /\ \A v \in Workers : HoldsJob(v) => wcam[v] # c
      BY <2>1, <3>1
    <3>3. \A i \in 1 .. n + 1 : i \in 1 .. n \/ i = n + 1
      BY <3>1
    <3> HIDE DEF n
    <3>8. /\ \A i, j \in 1 .. n : taskQueue[i] = taskQueue[j] => i = j
          /\ \A v \in Workers : \A i \in 1 .. n : HoldsJob(v) => taskQueue[i] # wcam[v]
      BY <3>1
    <3>4. OneJobPerCamera'
      <4> HIDE DEF JobInv, HoldsJob
      <4>1. \A i, j \in 1 .. n + 1 : taskQueue'[i] = taskQueue'[j] => i = j
        BY <3>1, <3>2, <3>3, <3>8
      <4> USE DEF JobInv, HoldsJob
      <4>2. \A i \in 1 .. n + 1 : \A v \in Workers : HoldsJob(v) => taskQueue'[i] # wcam[v]
        <5>1. SUFFICES ASSUME NEW i \in 1 .. n + 1, NEW v \in Workers, HoldsJob(v)
                       PROVE  taskQueue'[i] # wcam[v]
          OBVIOUS
        <5> HIDE DEF JobInv, HoldsJob
        <5>2. CASE i = n + 1
          BY <3>1, <3>2, <5>1, <5>2
        <5>3. CASE i \in 1 .. n
          BY <3>1, <3>8, <5>1, <5>3
        <5>4. QED
          BY <3>3, <5>2, <5>3
      <4>3. \A d \in Camera : buffer'[d] # <<>> => d # c /\ buffer'[d] = buffer[d]
        BY <2>3
      <4>4. ASSUME NEW d \in Camera, buffer'[d] # <<>>
            PROVE  /\ Len(buffer'[d]) = 1
                   /\ \A i \in 1 .. n + 1 : taskQueue'[i] # d
                   /\ \A v \in Workers : HoldsJob(v) => wcam[v] # d
        <5>1. d # c /\ buffer'[d] = buffer[d] /\ buffer[d] # <<>>
          BY <4>3, <4>4
        <5>2. \A i \in 1 .. n : taskQueue[i] # d
          BY <3>1, <5>1
        <5>3. \A i \in 1 .. n + 1 : taskQueue'[i] # d
          BY <3>1, <3>3, <5>1, <5>2
        <5>4. QED
          BY <5>1, <5>3
      <4>5. wpc' = wpc /\ wcam' = wcam
        BY <2>4
      <4>6. QED
        BY <3>1, <4>1, <4>2, <4>4, <4>5
    <3>5. c \in taskEnqueued' /\ c \notin readInFlight /\ c \notin completedCameras \cup failedCameras
      BY <2>6 DEF MayScheduleRead
    <3>6. CamerasRetireOnce' /\ QueuedJobsFree' /\ NothingBeforeStart'
      BY <2>3, <2>4, <2>6, <3>1, <3>3, <3>5
    <3>7. QED
      BY <3>4, <3>6
  <2>7. QED
    BY <1>2, <2>5, <2>6 DEF SchedulerTake
<1>3. CASE SchedulerFindsNone
  BY <1>3 DEF SchedulerFindsNone
<1>4. CASE SchedulerCheckFinished
  BY <1>4 DEF SchedulerCheckFinished
<1>5. CASE SchedulerOffer
  BY <1>5 DEF SchedulerOffer
<1>6. CASE SchedulerPut
  BY <1>6 DEF SchedulerPut
<1>7. CASE SchedulerPutTimeout
  BY <1>7 DEF SchedulerPutTimeout
<1>8. CASE SchedulerExit
  BY <1>8 DEF SchedulerExit
<1>9. QED
  BY <1>1, <1>2, <1>3, <1>4, <1>5, <1>6, <1>7, <1>8 DEF SchedulerStep

(* The consumer's steps leave the job state alone, the first one excepted. *)
LEMMA JobConsumer ==
    ASSUME JobTypes, JobInv, ConsumerStep
    PROVE  JobInv'
<1>1. CASE Start
  <2>1. /\ cpc = "start" /\ cpc' = "get"
        /\ taskQueue' = taskQueue \o CameraOrder /\ taskEnqueued' = Camera
        /\ UNCHANGED <<wpc, wcam, buffer, readInFlight, completedCameras, failedCameras>>
    BY <1>1 DEF Start, workerVars
  <2>2. /\ taskQueue = <<>> /\ BuffersEmpty
        /\ \A w \in Workers : ~HoldsJob(w)
        /\ readInFlight = {} /\ completedCameras = {} /\ failedCameras = {}
    BY <2>1 DEF JobInv, NothingBeforeStart
  <2>3. taskQueue' = CameraOrder
    BY <2>1, <2>2, CameraOrderFacts
  <2>4. /\ DOMAIN taskQueue' = 1 .. CameraCount
        /\ \A i \in 1 .. CameraCount : taskQueue'[i] = i - 1 /\ i - 1 \in Camera
    BY <2>3, CameraOrderFacts, SizesAssumption DEF SizesAssumption, Camera
  <2>5. \A w \in Workers : ~HoldsJob(w)' /\ wpc'[w] # "claim"
    BY <2>1, <2>2 DEF HoldsJob
  <2>6. OneJobPerCamera'
    BY <2>1, <2>2, <2>4, <2>5, SizesAssumption
    DEF OneJobPerCamera, SizesAssumption, BuffersEmpty
  <2>7. CamerasRetireOnce' /\ QueuedJobsFree' /\ NothingBeforeStart'
    BY <2>1, <2>2, <2>4, <2>5
    DEF CamerasRetireOnce, QueuedJobsFree, Free, NothingBeforeStart
  <2>8. QED
    BY <2>6, <2>7 DEF JobInv
<1>2. CASE cpc # "start" /\ cpc' # "start"
           /\ UNCHANGED <<taskQueue, buffer, wpc, wcam, flagVars>>
  BY <1>2 DEF JobInv, OneJobPerCamera, CamerasRetireOnce, QueuedJobsFree, Free,
              NothingBeforeStart, HoldsJob, BuffersEmpty, flagVars
<1>3. QED
  BY <1>1, <1>2
  DEF ConsumerStep, ConsumerGoto, ConsumerGet, ConsumerGetTimeout, ConsumerCheckFinished,
      ConsumerCheckDrained, ConsumerCollect, ConsumerBatchReady, ConsumerProcess,
      ConsumerRaises, StopSetEvent, StopJoinScheduler, StopJoinWorkers, StopCloseReaders,
      workerVars

(* Every step keeps the job invariant.                                     *)
LEMMA JobStep == TypeInv /\ JobInv /\ [Next]_vars => JobInv'
<1> SUFFICES ASSUME TypeInv, JobInv, [Next]_vars PROVE JobInv'
  OBVIOUS
<1>1. JobTypes
  BY TypeInvGivesJobTypes
<1>2. CASE UNCHANGED vars
  BY <1>2 DEF JobInv, OneJobPerCamera, CamerasRetireOnce, QueuedJobsFree, Free,
              NothingBeforeStart, HoldsJob, BuffersEmpty, vars, flagVars, workerVars,
              consumerVars
<1>3. QED
  BY <1>1, <1>2, JobWorker, JobScheduler, JobConsumer DEF Next, Terminated

(* The job invariant holds in every reachable state.                       *)
LEMMA JobInvHolds == Spec => []JobInv
<1>1. Spec => []TypeInv
  BY TypeInit, TypeStep, PTL DEF Spec
<1>2. QED
  BY <1>1, JobInit, JobStep, PTL DEF Spec

(* However threads interleave, a camera has at most one job: it is never read
   by two workers at once and its buffer never holds a second frame, so that
   the unlocked buffer.put of _worker_loop cannot block. *)
THEOREM ReadsAreExclusive == Spec => []OneJobPerCamera
<1>1. JobInv => OneJobPerCamera
  BY DEF JobInv
<1>2. QED
  BY <1>1, JobInvHolds, PTL

(* No job is ever thrown away by the test that follows the dequeue.        *)
THEOREM JobsAreKept == Spec => []NoJobDropped
<1>1. JobInv => NoJobDropped
  BY DEF JobInv, QueuedJobsFree, Free, NoJobDropped, Readable
<1>2. QED
  BY <1>1, JobInvHolds, PTL

(* No camera is counted both as completed and as failed, and a retired camera
   has no job left: the finish tests count every camera once. *)
THEOREM RetirementIsFinal == Spec => []CamerasRetireOnce
<1>1. JobInv => CamerasRetireOnce
  BY DEF JobInv
<1>2. QED
  BY <1>1, JobInvHolds, PTL

-----------------------------------------------------------------------------
(* The ends of the threads                                                 *)

(* Every camera is completed or failed.                                    *)
AllRetired == completedCameras \cup failedCameras = Camera

(* The finish tests add two cardinalities: as no camera is in both sets,   *)
(* the sum is CameraCount exactly when every camera is retired.            *)
LEMMA SumsCountCameras ==
    ASSUME TypeOK, CamerasRetireOnce
    PROVE  AllCamerasDone <=> AllRetired
<1> DEFINE R == completedCameras \cup failedCameras
<1>1. IsFiniteSet(Camera) /\ Cardinality(Camera) = CameraCount
  BY FS_Interval, SizesAssumption DEF Camera
<1>2. /\ completedCameras \subseteq Camera /\ failedCameras \subseteq Camera
      /\ completedCameras \cap failedCameras = {}
  BY DEF TypeOK, CamerasRetireOnce
<1>3. IsFiniteSet(completedCameras) /\ IsFiniteSet(failedCameras)
  BY <1>1, <1>2, FS_Subset
<1>4. Cardinality(R) = Cardinality(completedCameras) + Cardinality(failedCameras)
  <2>1. Cardinality(R) = Cardinality(completedCameras) + Cardinality(failedCameras)
                           - Cardinality(completedCameras \cap failedCameras)
    BY <1>3, FS_Union
  <2>2. Cardinality(completedCameras \cap failedCameras) = 0
    BY <1>2, FS_EmptySet
  <2>3. QED
    BY <1>3, <2>1, <2>2, FS_CardinalityType
<1>5. R \subseteq Camera
  BY <1>2
<1>6. Cardinality(R) = Cardinality(Camera) <=> R = Camera
  BY <1>1, <1>5, FS_Subset
<1>7. QED
  BY <1>1, <1>4, <1>6 DEF AllCamerasDone, AllRetired

(* When every camera is retired there is nothing left to be worked on.     *)
LEMMA RetiredMeansIdle ==
    ASSUME TypeInv, JobInv, AllRetired
    PROVE  /\ taskQueue = <<>> /\ BuffersEmpty
           /\ \A w \in Workers : ~HoldsJob(w) /\ wpc[w] # "claim"
<1>1. \A w \in Workers : ~HoldsJob(w)
  BY DEF TypeInv, HandsOK, JobInv, CamerasRetireOnce, AllRetired
<1>2. BuffersEmpty
  BY DEF JobInv, CamerasRetireOnce, AllRetired, BuffersEmpty
<1>3. taskQueue = <<>>
  <2>1. \A i \in DOMAIN taskQueue : FALSE
    BY DEF TypeInv, TypeOK, JobInv, QueuedJobsFree, Free, AllRetired
  <2>2. taskQueue \in Seq(Camera)
    BY DEF TypeInv, TypeOK
  <2>3. Len(taskQueue) = 0
    <3>1. Len(taskQueue) \in Nat /\ DOMAIN taskQueue = 1 .. Len(taskQueue)
      BY <2>2, LenProperties
    <3>2. 1 \notin 1 .. Len(taskQueue)
      BY <2>1, <3>1
    <3>3. QED
      BY <3>1, <3>2
  <2>4. QED
    BY <2>2, <2>3, EmptySeq
<1>4. QED
  BY <1>1, <1>2, <1>3 DEF HoldsJob

(* Unless the run was stopped, a thread has left its loop only when every  *)
(* camera is retired; what ThreadsEndOnlyWhenDone says follows from it,    *)
(* and it needs no test of the queue to be preserved.                      *)
EndInv ==
    stopEvent \/
    (((\E w \in Workers : wpc[w] \in {"exit", "done"}) \/ spc \in {"exit", "done"})
        => AllRetired)

(* No thread has left its loop at the start.                               *)
LEMMA EndInit == Init => EndInv
  BY DEF Init, EndInv

(* Every step keeps it: an exit tests the cameras, no camera returns.      *)
LEMMA EndStep == TypeInv /\ JobInv /\ EndInv /\ [Next]_vars => EndInv'
<1> SUFFICES ASSUME TypeInv, JobInv, EndInv, [Next]_vars, ~ stopEvent' PROVE EndInv'
  BY DEF EndInv
<1>1. AllCamerasDone <=> AllRetired
  BY SumsCountCameras DEF TypeInv, JobInv
<1>2. AllRetired => \A w \in Workers : ~HoldsJob(w)
  BY RetiredMeansIdle
<1>3. ASSUME NEW w \in Workers, WorkerStep(w) PROVE EndInv'
  <2> USE <1>3 DEF WorkerGoto, EndInv, AllRetired, TypeInv, TypeOK, WorkerPc,
          readerVars, flagVars, workerVars, schedulerVars, consumerVars
  <2>1. /\ stopEvent' \in {stopEvent, TRUE} /\ spc' = spc
        /\ \A v \in Workers \ {w} : wpc'[v] = wpc[v]
    BY DEF WorkerStep, WorkerCheckStop, WorkerGet, WorkerGetTimeout, WorkerCheckFinished,
           WorkerClaim, WorkerOpen, WorkerReadRaises, WorkerReadNone, WorkerReadFrame,
           WorkerHandleError, WorkerStopAll, WorkerMarkCompleted, WorkerPut, WorkerPublish,
           WorkerCleanup, WorkerExit
  <2>2. ~ stopEvent
    BY <2>1
  <2>3. AllRetired => AllRetired'
    <3>1. AllRetired => ~HoldsJob(w)
      BY <1>2
    <3>2. UNCHANGED <<completedCameras, failedCameras>> \/ HoldsJob(w)
      BY DEF WorkerStep, WorkerCheckStop, WorkerGet, WorkerGetTimeout, WorkerCheckFinished,
           WorkerClaim, WorkerOpen, WorkerReadRaises, WorkerReadNone, WorkerReadFrame,
           WorkerHandleError, WorkerStopAll, WorkerMarkCompleted, WorkerPut, WorkerPublish,
           WorkerCleanup, WorkerExit, HoldsJob
    <3>3. QED
      BY <3>1, <3>2
  <2>4. wpc'[w] \in {"exit", "done"} => AllRetired
    BY <1>1, <2>2
       DEF WorkerStep, WorkerCheckStop, WorkerGet, WorkerGetTimeout, WorkerCheckFinished,
           WorkerClaim, WorkerOpen, WorkerReadRaises, WorkerReadNone, WorkerReadFrame,
           WorkerHandleError, WorkerStopAll, WorkerMarkCompleted, WorkerPut, WorkerPublish,
           WorkerCleanup, WorkerExit, AllCameraReadsFinished
  <2>5. QED
    BY <2>1, <2>2, <2>3, <2>4
<1>4. CASE SchedulerStep
  BY <1>1, <1>4
     DEF SchedulerStep, SchedulerCheckStop, SchedulerTake, SchedulerFindsNone,
         SchedulerCheckFinished, SchedulerOffer, SchedulerPut, SchedulerPutTimeout,
         SchedulerExit, SchedulerGoto, EndInv, AllRetired, AllCamerasDoneAndBuffersEmpty,
         workerVars, flagVars
<1>5. CASE ConsumerStep
  BY <1>5
     DEF ConsumerStep, ConsumerGoto, ConsumerGet, ConsumerGetTimeout, ConsumerCheckFinished,
         ConsumerCheckDrained, ConsumerCollect, ConsumerBatchReady, ConsumerProcess,
         ConsumerRaises, StopSetEvent, StopJoinScheduler, StopJoinWorkers, StopCloseReaders,
         Start, EndInv, AllRetired, workerVars, flagVars, schedulerVars
<1>6. CASE UNCHANGED vars
  BY <1>6 DEF EndInv, AllRetired, vars, workerVars, flagVars, schedulerVars
<1>7. QED
  BY <1>3, <1>4, <1>5, <1>6 DEF Next, Terminated

(* Types, jobs and ends together.                                          *)
LEMMA EndInvHolds == Spec => [](TypeInv /\ JobInv /\ EndInv)
<1>1. Init => TypeInv /\ JobInv /\ EndInv
  BY TypeInit, JobInit, EndInit
<1>2. TypeInv /\ JobInv /\ EndInv /\ [Next]_vars => (TypeInv /\ JobInv /\ EndInv)'
  BY TypeStep, JobStep, EndStep
<1>3. QED
  BY <1>1, <1>2, PTL DEF Spec

(* Unless the run was stopped, no thread ends while a job or a frame is    *)
(* left: the finish tests of _worker_loop and _scheduler_loop are exact.   *)
THEOREM ThreadsEndInTime == Spec => []ThreadsEndOnlyWhenDone
<1>1. TypeInv /\ JobInv /\ EndInv => ThreadsEndOnlyWhenDone
  <2> SUFFICES ASSUME TypeInv, JobInv, EndInv PROVE ThreadsEndOnlyWhenDone
    OBVIOUS
  <2>1. AllCamerasDone <=> AllRetired
    BY SumsCountCameras DEF TypeInv, JobInv
  <2>2. QED
    BY <2>1, RetiredMeansIdle DEF EndInv, ThreadsEndOnlyWhenDone
<1>2. QED
  BY <1>1, EndInvHolds, PTL

-----------------------------------------------------------------------------
(* What stop() promises                                                    *)

(* When its joins do not time out, stop() waits for each thread in turn.   *)
StopInv ==
    /\ cpc = "joinWorkers" => spc = "done"
    /\ cpc \in {"close", "stopped"} => ThreadsExited

(* When its joins succeed, stop() leaves no thread that could act again.   *)
LEMMA StopStep == JoinTimeouts = FALSE /\ TypeInv /\ StopInv /\ [Next]_vars => StopInv'
<1> SUFFICES ASSUME JoinTimeouts = FALSE, TypeInv, StopInv, [Next]_vars PROVE StopInv'
  OBVIOUS
<1> USE DEF StopInv, ThreadsExited, TypeInv, TypeOK, WorkerPc,
          readerVars, workerVars, schedulerVars, consumerVars
<1>1. ASSUME NEW w \in Workers, WorkerStep(w) PROVE StopInv'
  <2>1. wpc[w] # "done" /\ spc' = spc /\ cpc' = cpc
    BY <1>1
       DEF WorkerStep, WorkerCheckStop, WorkerGet, WorkerGetTimeout, WorkerCheckFinished,
           WorkerClaim, WorkerOpen, WorkerReadRaises, WorkerReadNone, WorkerReadFrame,
           WorkerHandleError, WorkerStopAll, WorkerMarkCompleted, WorkerPut, WorkerPublish,
           WorkerCleanup, WorkerExit, WorkerGoto
  <2>2. QED
    BY <2>1
<1>2. CASE SchedulerStep
  <2>1. spc # "done" /\ cpc' = cpc
    BY <1>2
       DEF SchedulerStep, SchedulerCheckStop, SchedulerTake, SchedulerFindsNone,
           SchedulerCheckFinished, SchedulerOffer, SchedulerPut, SchedulerPutTimeout,
           SchedulerExit, SchedulerGoto
  <2>2. QED
    BY <2>1
<1>3. CASE ConsumerStep
  BY <1>3
     DEF ConsumerStep, ConsumerGoto, ConsumerGet, ConsumerGetTimeout, ConsumerCheckFinished,
         ConsumerCheckDrained, ConsumerCollect, ConsumerBatchReady, ConsumerProcess,
         ConsumerRaises, StopSetEvent, StopJoinScheduler, StopJoinWorkers, StopCloseReaders,
         Start
<1>4. CASE UNCHANGED vars
  BY <1>4 DEF vars
<1>5. QED
  BY <1>1, <1>2, <1>3, <1>4 DEF Next, Terminated

(* The workers that can still open a capture after the stop event: one     *)
(* that has finished its job sees the event before it takes another.       *)
Openers == {w \in Workers : wpc[w] \in {"get", "claim", "open"}}

(* What holds of stop() when its joins may time out: the workers left      *)
(* behind are known, and a capture that is open after stop() was opened by *)
(* one of them that cannot open another.                                   *)
LateInv ==
    /\ cpc \in {"joinScheduler", "joinWorkers", "close", "stopped"} => stopEvent
    /\ cpc \in {"close", "stopped"} => \A w \in Workers \ abandoned : wpc[w] = "done"
    /\ cpc = "stopped" =>
          Cardinality(openReaders) + Cardinality(Openers) <= Cardinality(abandoned)

(* A step of a worker opens no capture and makes no worker an opener, or   *)
(* it opens one capture and the worker is an opener no more.               *)
LEMMA WorkerOpensOnce ==
    ASSUME TypeInv, stopEvent, NEW w \in Workers, WorkerStep(w)
    PROVE  \/ openReaders' = openReaders /\ Openers' \subseteq Openers
           \/ /\ openReaders' = openReaders \cup {wcam[w]}
              /\ w \in Openers /\ Openers' = Openers \ {w}
<1> USE DEF Openers, WorkerGoto, TypeInv, TypeOK, WorkerPc
<1>1. CASE WorkerOpen(w)
  BY <1>1 DEF WorkerOpen
<1>2. CASE ~ WorkerOpen(w)
  <2>1. openReaders' = openReaders
    BY <1>2
       DEF WorkerStep, WorkerCheckStop, WorkerGet, WorkerGetTimeout, WorkerCheckFinished,
           WorkerClaim, WorkerReadRaises, WorkerReadNone, WorkerReadFrame,
           WorkerHandleError, WorkerStopAll, WorkerMarkCompleted, WorkerPut, WorkerPublish,
           WorkerCleanup, WorkerExit, readerVars
  <2>2. /\ \A v \in Workers \ {w} : wpc'[v] = wpc[v]
        /\ wpc'[w] \in {"get", "claim", "open"} => wpc[w] \in {"get", "claim", "open"}
    BY <1>2
       DEF WorkerStep, WorkerCheckStop, WorkerGet, WorkerGetTimeout, WorkerCheckFinished,
           WorkerClaim, WorkerReadRaises, WorkerReadNone, WorkerReadFrame,
           WorkerHandleError, WorkerStopAll, WorkerMarkCompleted, WorkerPut, WorkerPublish,
           WorkerCleanup, WorkerExit
  <2>3. Openers' \subseteq Openers
    BY <2>2
  <2>4. QED
    BY <2>1, <2>3
<1>3. QED
  BY <1>1, <1>2

(* Sets of cameras and of workers are finite.                              *)
LEMMA FiniteHere ==
    /\ \A S \in SUBSET Camera : IsFiniteSet(S)
    /\ \A S \in SUBSET Workers : IsFiniteSet(S)
<1>1. IsFiniteSet(Camera)
  BY FS_Interval, SizesAssumption DEF Camera
<1>2. QED
  BY <1>1, FS_Subset, SizesAssumption

(* A step of a worker keeps the account of the captures it may leave open. *)
LEMMA LateWorker ==
    ASSUME TypeInv, LateInv, NEW w \in Workers, WorkerStep(w)
    PROVE  LateInv'
<1>1. cpc' = cpc /\ abandoned' = abandoned /\ (stopEvent => stopEvent')
  BY DEF WorkerStep, WorkerCheckStop, WorkerGet, WorkerGetTimeout, WorkerCheckFinished,
         WorkerClaim, WorkerOpen, WorkerReadRaises, WorkerReadNone, WorkerReadFrame,
         WorkerHandleError, WorkerStopAll, WorkerMarkCompleted, WorkerPut, WorkerPublish,
         WorkerCleanup, WorkerExit, consumerVars
<1>2. wpc[w] # "done" /\ \A v \in Workers \ {w} : wpc'[v] = wpc[v]
  BY DEF WorkerStep, WorkerCheckStop, WorkerGet, WorkerGetTimeout, WorkerCheckFinished,
         WorkerClaim, WorkerOpen, WorkerReadRaises, WorkerReadNone, WorkerReadFrame,
         WorkerHandleError, WorkerStopAll, WorkerMarkCompleted, WorkerPut, WorkerPublish,
         WorkerCleanup, WorkerExit, WorkerGoto, TypeInv, TypeOK
<1>3. cpc \in {"close", "stopped"} => \A v \in Workers \ abandoned : wpc'[v] = "done"
  BY <1>2 DEF LateInv
<1>4. ASSUME cpc = "stopped"
      PROVE  Cardinality(openReaders') + Cardinality(Openers') <= Cardinality(abandoned)
  <2> DEFINE before == Openers
             after  == Openers'
             open   == openReaders
             opened == openReaders'
  <2>1. /\ IsFiniteSet(before) /\ IsFiniteSet(open) /\ IsFiniteSet(abandoned)
        /\ Cardinality(before) \in Nat /\ Cardinality(open) \in Nat
        /\ Cardinality(abandoned) \in Nat
    BY FiniteHere, FS_CardinalityType DEF TypeInv, TypeOK, Openers
  <2>2. Cardinality(open) + Cardinality(before) <= Cardinality(abandoned)
    BY <1>4 DEF LateInv
  <2>3. \/ opened = open /\ after \subseteq before
        \/ opened = open \cup {wcam[w]} /\ w \in before /\ after = before \ {w}
    BY <1>4, WorkerOpensOnce DEF LateInv
  <2> HIDE DEF before, after, open, opened
  <2>4. CASE opened = open /\ after \subseteq before
    <3>1. Cardinality(after) <= Cardinality(before) /\ Cardinality(after) \in Nat
      BY <2>1, <2>4, FS_Subset, FS_CardinalityType
    <3>2. QED
      BY <2>1, <2>2, <2>4, <3>1 DEF after, opened
  <2>5. CASE opened = open \cup {wcam[w]} /\ w \in before /\ after = before \ {w}
    <3>1. Cardinality(after) = Cardinality(before) - 1
      BY <2>1, <2>5, FS_RemoveElement
    <3>2. PICK c : opened = open \cup {c}
      BY <2>5
    <3>3. /\ IsFiniteSet(opened)
          /\ Cardinality(opened) = Cardinality(open) \/ Cardinality(opened) = Cardinality(open) + 1
      BY <2>1, <3>2, FS_AddElement
    <3>4. QED
      BY <2>1, <2>2, <3>1, <3>3 DEF after, opened
  <2>6. QED
    BY <2>3, <2>4, <2>5
<1>5. QED
  BY <1>1, <1>3, <1>4 DEF LateInv

(* Every step of stop() and of the other threads keeps the account.        *)
LEMMA LateStep == TypeInv /\ LateInv /\ [Next]_vars => LateInv'
<1> SUFFICES ASSUME TypeInv, LateInv, [Next]_vars PROVE LateInv'
  OBVIOUS
<1>1. ASSUME NEW w \in Workers, WorkerStep(w) PROVE LateInv'
  BY <1>1, LateWorker
<1>2. CASE SchedulerStep
  <2>1. UNCHANGED <<openReaders, wpc, cpc, abandoned, stopEvent>>
    BY <1>2
       DEF SchedulerStep, SchedulerCheckStop, SchedulerTake, SchedulerFindsNone,
           SchedulerCheckFinished, SchedulerOffer, SchedulerPut, SchedulerPutTimeout,
           SchedulerExit, readerVars, workerVars, consumerVars
  <2>2. QED
    BY <2>1 DEF LateInv, Openers
<1>3. CASE StopJoinWorkers
  <2>1. /\ cpc = "joinWorkers" /\ cpc' = "close" /\ stopEvent' = stopEvent /\ wpc' = wpc
        /\ abandoned' = {w \in Workers : wpc[w] # "done"}
    BY <1>3 DEF StopJoinWorkers, ConsumerGoto, workerVars
  <2>2. QED
    BY <2>1 DEF LateInv
<1>4. CASE StopCloseReaders
  <2>1. /\ cpc = "close" /\ cpc' = "stopped" /\ openReaders' = {}
        /\ UNCHANGED <<wpc, abandoned, stopEvent>>
    BY <1>4 DEF StopCloseReaders, ConsumerGoto, workerVars
  <2>2. Openers \subseteq abandoned
    BY <2>1 DEF LateInv, Openers
  <2>3. /\ Cardinality(Openers) <= Cardinality(abandoned)
        /\ Cardinality(Openers) \in Nat /\ Cardinality(abandoned) \in Nat
    BY <2>2, FiniteHere, FS_Subset, FS_CardinalityType DEF TypeInv, TypeOK
  <2>4. Openers' = Openers
    BY <2>1 DEF Openers
  <2>5. Cardinality(openReaders') + Cardinality(Openers') <= Cardinality(abandoned')
    BY <2>1, <2>3, <2>4, FS_EmptySet
  <2>6. QED
    BY <2>1, <2>5 DEF LateInv
<1>5. CASE ConsumerStep /\ ~ StopJoinWorkers /\ ~ StopCloseReaders
  <2>1. /\ UNCHANGED <<openReaders, wpc, abandoned>>
        /\ cpc' \in {"joinScheduler", "joinWorkers", "close", "stopped"} => stopEvent'
        /\ cpc' \notin {"close", "stopped"}
    BY <1>5
       DEF ConsumerStep, ConsumerGoto, ConsumerGet, ConsumerGetTimeout, ConsumerCheckFinished,
         ConsumerCheckDrained, ConsumerCollect, ConsumerBatchReady, ConsumerProcess,
         ConsumerRaises, StopSetEvent, StopJoinScheduler, Start, LateInv, readerVars,
         workerVars
  <2>2. QED
    BY <2>1 DEF LateInv
<1>6. CASE UNCHANGED vars
  BY <1>6 DEF vars, readerVars, workerVars, consumerVars, LateInv, Openers
<1>7. QED
  BY <1>1, <1>2, <1>3, <1>4, <1>5, <1>6 DEF Next, Terminated

(* However its joins turn out, stop() leaves no more captures open than    *)
(* workers behind.                                                         *)
THEOREM StopReleasesAll == Spec => []StopReleasesReaders
<1>1. Init => TypeInv /\ LateInv
  BY TypeInit DEF Init, LateInv
<1>2. TypeInv /\ LateInv /\ [Next]_vars => (TypeInv /\ LateInv)'
  BY TypeStep, LateStep
<1>3. TypeInv /\ LateInv => StopReleasesReaders
  <2> SUFFICES ASSUME TypeInv, LateInv, cpc = "stopped"
               PROVE  Cardinality(openReaders) <= Cardinality(abandoned)
    BY DEF StopReleasesReaders
  <2>1. /\ Cardinality(openReaders) \in Nat /\ Cardinality(Openers) \in Nat
        /\ Cardinality(abandoned) \in Nat
    BY FiniteHere, FS_CardinalityType DEF TypeInv, TypeOK, Openers
  <2>2. Cardinality(openReaders) + Cardinality(Openers) <= Cardinality(abandoned)
    BY DEF LateInv
  <2>3. QED
    BY <2>1, <2>2
<1>4. QED
  BY <1>1, <1>2, <1>3, PTL DEF Spec

-----------------------------------------------------------------------------
(* Round robin                                                             *)

(* A camera that is passed over is closer to its turn.                     *)
LEMMA PassedOver ==
    ASSUME NEW i \in Camera, NEW d \in Camera, NEW c \in Camera, c # d,
           Distance(i, d) <= Distance(i, c)
    PROVE  Distance(IndexAfter(d), c) < Distance(i, c)
<1>1. CameraCount \in Nat /\ i \in Int /\ c \in Int /\ d \in Int
      /\ 0 <= i /\ i < CameraCount /\ 0 <= c /\ c < CameraCount /\ 0 <= d /\ d < CameraCount
  BY SizesAssumption DEF Camera
<1>2. QED
  BY <1>1 DEF Distance, IndexAfter

(* The frame that is taken is the first ready one, so that any other       *)
(* camera with a frame was passed over.                                    *)
LEMMA TakeAdvances ==
    ASSUME TypeInv, [Next]_vars, NEW c \in Camera,
           buffer[c] # <<>>, buffer'[c] = buffer[c], spc = "next", spc' = "offer"
    PROVE  Distance(schedulerIndex', c) < Distance(schedulerIndex, c)
<1>1. PICK d \in Camera : SchedulerTake(d)
  <2>1. SchedulerStep
    BY DEF Next, Terminated, vars, schedulerVars, ConsumerStep, ConsumerGoto, ConsumerGet,
           ConsumerGetTimeout, ConsumerCheckFinished,
           ConsumerCheckDrained, ConsumerCollect, ConsumerBatchReady, ConsumerProcess,
           ConsumerRaises, StopSetEvent, StopJoinScheduler, StopJoinWorkers, StopCloseReaders,
           Start, WorkerStep, WorkerCheckStop, WorkerGet, WorkerGetTimeout,
           WorkerCheckFinished, WorkerClaim, WorkerOpen, WorkerReadRaises, WorkerReadNone,
           WorkerReadFrame, WorkerHandleError, WorkerStopAll, WorkerMarkCompleted, WorkerPut,
           WorkerPublish, WorkerCleanup, WorkerExit
  <2>2. QED
    BY <2>1
       DEF SchedulerStep, SchedulerCheckStop, SchedulerFindsNone,
           SchedulerCheckFinished, SchedulerOffer, SchedulerPut, SchedulerPutTimeout,
           SchedulerExit, SchedulerGoto
<1>2. buffer[d] \in Seq(Nat) /\ buffer[d] # <<>> /\ buffer'[d] = Tail(buffer[d])
  BY <1>1 DEF SchedulerTake, FirstReady, TypeInv, TypeOK
<1>3. c # d
  <2>1. Len(Tail(buffer[d])) = Len(buffer[d]) - 1 /\ Len(buffer[d]) \in Nat
    BY <1>2, TailFacts
  <2>2. ASSUME c = d PROVE FALSE
    <3>1. Len(buffer[d]) = Len(buffer[d]) - 1
      BY <1>2, <2>1, <2>2
    <3>2. QED
      BY <2>1, <3>1
  <2>3. QED
    BY <2>2
<1>4. Distance(schedulerIndex, d) <= Distance(schedulerIndex, c)
  BY <1>1 DEF SchedulerTake, FirstReady
<1>5. schedulerIndex' = IndexAfter(d) /\ schedulerIndex \in Camera
  BY <1>1 DEF SchedulerTake, TypeInv, TypeOK
<1>6. QED
  BY <1>3, <1>4, <1>5, PassedOver

(* Whenever another camera's frame is taken, a camera that has one comes   *)
(* closer to its turn, for any number of cameras.                          *)
THEOREM RoundRobinAdvances == Spec => WaitingCamerasAdvance
<1>1. TypeInv /\ [Next]_vars =>
        [\A c \in Camera :
          buffer[c] # <<>> /\ buffer'[c] = buffer[c] /\ spc = "next" /\ spc' = "offer"
            => Distance(schedulerIndex', c) < Distance(schedulerIndex, c)]_vars
  BY TakeAdvances
<1>2. QED
  BY <1>1, TypeInit, TypeStep, PTL DEF Spec, WaitingCamerasAdvance

-----------------------------------------------------------------------------
(* Frames in flight                                                        *)

(* Sequence s holds of camera c exactly the frames between b and m.        *)
Exactly(s, c, b, m) ==
    /\ b < m
    /\ \A i \in DOMAIN s : s[i].camera = c => b < s[i].frame /\ s[i].frame < m
    /\ \A n \in Nat : b < n /\ n < m => \E i \in DOMAIN s : s[i].camera = c /\ s[i].frame = n

(* The frames of a camera appear in s in their order.                      *)
Increasing(s) ==
    \A i, j \in DOMAIN s : i < j /\ s[i].camera = s[j].camera => s[i].frame < s[j].frame

(* The numbers of last_processed_frame_by_camera: -1 before any frame.     *)
Numbers == Nat \cup {-1}

(* Every element of a sequence of packets names a camera and a frame.      *)
LEMMA PacketFields ==
    ASSUME NEW s \in Seq(Packet)
    PROVE  /\ Len(s) \in Nat /\ DOMAIN s = 1 .. Len(s)
           /\ \A i \in DOMAIN s : s[i].camera \in Camera /\ s[i].frame \in Nat
<1>1. Len(s) \in Nat /\ DOMAIN s = 1 .. Len(s)
  BY LenProperties
<1>2. \A i \in DOMAIN s : s[i] \in Packet
  BY <1>1, ElementOfSeq
<1>3. QED
  BY <1>1, <1>2 DEF Packet

(* The next frame of a camera arrives behind the others.                   *)
LEMMA NextArrives ==
    ASSUME NEW s \in Seq(Packet), NEW p \in Packet, NEW b \in Numbers, Increasing(s),
           Exactly(s, p.camera, b, p.frame)
    PROVE  /\ Increasing(Append(s, p))
           /\ Exactly(Append(s, p), p.camera, b, p.frame + 1)
<1> DEFINE t == Append(s, p)
           k == Len(s)
           c == p.camera
           f == p.frame
<1>1. /\ k \in Nat /\ DOMAIN s = 1 .. k /\ DOMAIN t = 1 .. k + 1
      /\ \A i \in 1 .. k : t[i] = s[i]
      /\ t[k + 1] = p
  BY AppendFacts
<1>2. /\ f \in Nat /\ b \in Int
      /\ \A i \in 1 .. k : s[i].frame \in Nat
  <2>1. f \in Nat
    BY DEF Packet
  <2>2. b \in Int
    BY DEF Numbers
  <2>3. \A i \in 1 .. k : s[i].frame \in Nat
    BY PacketFields
  <2>4. QED
    BY <2>1, <2>2, <2>3
<1>3. \A i \in 1 .. k + 1 : i \in 1 .. k \/ i = k + 1
  BY <1>1
<1>8. k + 1 \in 1 .. k + 1 /\ \A i \in 1 .. k : i \in 1 .. k + 1
  BY <1>1
<1>4. /\ b < f
      /\ \A i \in 1 .. k : s[i].camera = c => b < s[i].frame /\ s[i].frame < f
      /\ \A n \in Nat : b < n /\ n < f =>
             \E i \in 1 .. k : s[i].camera = c /\ s[i].frame = n
  BY <1>1 DEF Exactly
<1>9. \A i, j \in 1 .. k : i < j /\ s[i].camera = s[j].camera => s[i].frame < s[j].frame
  BY <1>1 DEF Increasing
<1> HIDE DEF t, k, c, f
<1>5. Increasing(t)
  <2>1. SUFFICES ASSUME NEW i \in 1 .. k + 1, NEW j \in 1 .. k + 1, i < j,
                        t[i].camera = t[j].camera
                 PROVE  t[i].frame < t[j].frame
    BY <1>1 DEF Increasing
  <2>2. i \in 1 .. k
    BY <1>1, <2>1
  <2>3. CASE j \in 1 .. k
    BY <1>1, <1>9, <2>1, <2>2, <2>3
  <2>4. CASE j = k + 1
    BY <1>1, <1>4, <2>1, <2>2, <2>4 DEF c, f
  <2>5. QED
    BY <1>3, <2>3, <2>4
<1>6. Exactly(t, c, b, f + 1)
  <2>1. b < f + 1
    BY <1>2, <1>4
  <2>2. ASSUME NEW i \in 1 .. k + 1, t[i].camera = c
        PROVE  b < t[i].frame /\ t[i].frame < f + 1
    <3>1. CASE i \in 1 .. k
      BY <1>1, <1>2, <1>4, <2>2, <3>1
    <3>2. CASE i = k + 1
      BY <1>1, <1>2, <1>4, <2>2, <3>2 DEF f
    <3>3. QED
      BY <1>3, <3>1, <3>2
  <2>3. ASSUME NEW n \in Nat, b < n, n < f + 1
        PROVE  \E i \in 1 .. k + 1 : t[i].camera = c /\ t[i].frame = n
    <3>1. CASE n = f
      BY <1>1, <1>8, <3>1 DEF c, f
    <3>2. CASE n # f
      <4>1. n < f
        BY <1>2, <2>3, <3>2
      <4>2. PICK i \in 1 .. k : s[i].camera = c /\ s[i].frame = n
        BY <1>4, <2>3, <4>1
      <4>3. QED
        BY <1>1, <1>8, <4>2
    <3>3. QED
      BY <3>1, <3>2
  <2>4. QED
    BY <1>1, <2>1, <2>2, <2>3 DEF Exactly
<1>7. QED
  BY <1>5, <1>6 DEF t, c, f

(* It changes nothing for another camera.                                  *)
LEMMA OthersKeepTheirs ==
    ASSUME NEW s \in Seq(Packet), NEW p \in Packet, NEW c \in Camera, c # p.camera,
           NEW b, NEW m
    PROVE  Exactly(Append(s, p), c, b, m) <=> Exactly(s, c, b, m)
<1> DEFINE t == Append(s, p)
           k == Len(s)
<1>1. /\ k \in Nat /\ DOMAIN s = 1 .. k /\ DOMAIN t = 1 .. k + 1
      /\ \A i \in 1 .. k : t[i] = s[i]
      /\ t[k + 1] = p
  BY AppendFacts
<1>2. \A i \in 1 .. k + 1 : i \in 1 .. k \/ i = k + 1
  BY <1>1
<1>3. \A i \in 1 .. k : i \in 1 .. k + 1
  BY <1>1
<1> HIDE DEF t, k
<1>4. (\A i \in 1 .. k + 1 : t[i].camera = c => b < t[i].frame /\ t[i].frame < m)
      <=> (\A i \in 1 .. k : s[i].camera = c => b < s[i].frame /\ s[i].frame < m)
  BY <1>1, <1>2, <1>3
<1>5. ASSUME NEW n \in Nat
      PROVE  (\E i \in 1 .. k + 1 : t[i].camera = c /\ t[i].frame = n)
             <=> (\E i \in 1 .. k : s[i].camera = c /\ s[i].frame = n)
  BY <1>1, <1>2, <1>3
<1>6. QED
  BY <1>1, <1>4, <1>5 DEF Exactly, t

(* The last packet of a sequence is dropped.                               *)
LEMMA LastIsDropped ==
    ASSUME NEW s \in Seq(Packet), NEW p \in Packet, NEW b \in Numbers, NEW m \in Nat,
           Increasing(Append(s, p)), Exactly(Append(s, p), p.camera, b, m)
    PROVE  /\ Increasing(s)
           /\ Exactly(s, p.camera, b, m - 1)
<1> DEFINE t == Append(s, p)
           k == Len(s)
           c == p.camera
           f == p.frame
<1>1. /\ k \in Nat /\ DOMAIN s = 1 .. k /\ DOMAIN t = 1 .. k + 1
      /\ \A i \in 1 .. k : t[i] = s[i]
      /\ t[k + 1] = p
  BY AppendFacts
<1>2. /\ f \in Nat /\ b \in Int
      /\ \A i \in 1 .. k : s[i].frame \in Nat
  <2>1. f \in Nat
    BY DEF Packet
  <2>2. b \in Int
    BY DEF Numbers
  <2>3. \A i \in 1 .. k : s[i].frame \in Nat
    BY PacketFields
  <2>4. QED
    BY <2>1, <2>2, <2>3
<1>3. \A i \in 1 .. k + 1 : i \in 1 .. k \/ i = k + 1
  BY <1>1
<1>8. k + 1 \in 1 .. k + 1 /\ \A i \in 1 .. k : i \in 1 .. k + 1 /\ i < k + 1
  BY <1>1
<1>4. /\ b < m
      /\ \A i \in 1 .. k + 1 : t[i].camera = c => b < t[i].frame /\ t[i].frame < m
      /\ \A n \in Nat : b < n /\ n < m =>
             \E i \in 1 .. k + 1 : t[i].camera = c /\ t[i].frame = n
  BY <1>1 DEF Exactly
<1>9. \A i, j \in 1 .. k + 1 : i < j /\ t[i].camera = t[j].camera => t[i].frame < t[j].frame
  BY <1>1 DEF Increasing
<1>10. t[k + 1].camera = c /\ t[k + 1].frame = f
  BY <1>1
<1> HIDE DEF t, k, c, f
<1>5. Increasing(s)
  BY <1>1, <1>8, <1>9 DEF Increasing
<1>6. f = m - 1
  <2>1. b < f /\ f < m
    BY <1>4, <1>8, <1>10
  <2>2. m - 1 \in Nat /\ b < m - 1 /\ m - 1 < m
    BY <1>2, <2>1
  <2>3. PICK i \in 1 .. k + 1 : t[i].camera = c /\ t[i].frame = m - 1
    BY <1>4, <2>2
  <2>4. CASE i = k + 1
    BY <1>10, <2>3, <2>4
  <2>5. CASE i \in 1 .. k
    <3>1. m - 1 < f
      BY <1>8, <1>9, <1>10, <2>3, <2>5
    <3>2. QED
      BY <1>2, <2>1, <3>1
  <2>6. QED
    BY <1>3, <2>4, <2>5
<1>7. Exactly(s, c, b, m - 1)
  <2>1. b < m - 1
    BY <1>4, <1>6, <1>8, <1>10
  <2>2. ASSUME NEW i \in 1 .. k, s[i].camera = c
        PROVE  b < s[i].frame /\ s[i].frame < m - 1
    BY <1>1, <1>4, <1>6, <1>8, <1>9, <1>10, <2>2
  <2>3. ASSUME NEW n \in Nat, b < n, n < m - 1
        PROVE  \E i \in 1 .. k : s[i].camera = c /\ s[i].frame = n
    <3>1. n < m /\ n # f
      BY <1>6, <2>3
    <3>2. PICK i \in 1 .. k + 1 : t[i].camera = c /\ t[i].frame = n
      BY <1>4, <2>3, <3>1
    <3>3. QED
      BY <1>1, <1>3, <1>10, <3>1, <3>2
  <2>4. QED
    BY <1>1, <2>1, <2>2, <2>3 DEF Exactly
<1>11. QED
  BY <1>5, <1>7 DEF c

(* The first packet of a sequence is the next frame of its camera.         *)
LEMMA FirstIsNext ==
    ASSUME NEW s \in Seq(Packet), s # <<>>, Increasing(s)
    PROVE  /\ Increasing(Tail(s))
           /\ \A b \in Numbers, m \in Int :
                 Exactly(s, s[1].camera, b, m) =>
                     s[1].frame = b + 1 /\ Exactly(Tail(s), s[1].camera, b + 1, m)
           /\ \A c \in Camera, b \in Numbers, m \in Int :
                 Exactly(s, c, b, m) /\ c # s[1].camera => Exactly(Tail(s), c, b, m)
<1> DEFINE t == Tail(s)
           k == Len(s) - 1
           d == s[1].camera
           f == s[1].frame
<1>1. /\ k \in Nat /\ DOMAIN s = 1 .. k + 1 /\ DOMAIN t = 1 .. k
      /\ \A i \in 1 .. k : t[i] = s[i + 1]
  BY TailFacts
<1>8. 1 \in 1 .. k + 1 /\ \A i \in 1 .. k : i + 1 \in 1 .. k + 1 /\ 1 < i + 1
  BY <1>1
<1>2. /\ d \in Camera /\ f \in Nat
      /\ \A i \in 1 .. k + 1 : s[i].frame \in Nat
  BY <1>1, <1>8, PacketFields
<1>3. \A i \in 1 .. k + 1 : i = 1 \/ (i - 1 \in 1 .. k /\ i = (i - 1) + 1)
  BY <1>1
<1>9. \A i, j \in 1 .. k + 1 : i < j /\ s[i].camera = s[j].camera => s[i].frame < s[j].frame
  BY <1>1 DEF Increasing
<1>10. s[1].camera = d /\ s[1].frame = f
  OBVIOUS
<1> HIDE DEF t, k, d, f
<1>4. Increasing(t)
  <2>1. SUFFICES ASSUME NEW i \in 1 .. k, NEW j \in 1 .. k, i < j, t[i].camera = t[j].camera
                 PROVE  t[i].frame < t[j].frame
    BY <1>1 DEF Increasing
  <2>2. i + 1 < j + 1
    BY <1>1, <2>1
  <2>3. QED
    BY <1>1, <1>8, <1>9, <2>1, <2>2
<1>5. ASSUME NEW b \in Numbers, NEW m \in Int, Exactly(s, d, b, m)
      PROVE  f = b + 1 /\ Exactly(t, d, b + 1, m)
  <2>1. /\ b < m
        /\ \A i \in 1 .. k + 1 : s[i].camera = d => b < s[i].frame /\ s[i].frame < m
        /\ \A n \in Nat : b < n /\ n < m =>
               \E i \in 1 .. k + 1 : s[i].camera = d /\ s[i].frame = n
    BY <1>1, <1>5 DEF Exactly
  <2>2. b \in Int /\ b + 1 \in Nat /\ b < f /\ f < m
    BY <1>8, <1>10, <2>1 DEF Numbers
  <2>3. f = b + 1
    <3>1. PICK i \in 1 .. k + 1 : s[i].camera = d /\ s[i].frame = b + 1
      <4>1. (b < b + 1 /\ b + 1 < m) \/ f = b + 1
        BY <1>2, <2>2
      <4>2. CASE f = b + 1
        BY <1>8, <1>10, <4>2
      <4>3. QED
        BY <2>1, <2>2, <4>1, <4>2
    <3>2. CASE i = 1
      BY <1>10, <3>1, <3>2
    <3>3. CASE i # 1
      <4>1. 1 < i
        BY <1>1, <3>3
      <4>2. f < b + 1
        BY <1>8, <1>9, <1>10, <3>1, <4>1
      <4>3. QED
        BY <1>2, <2>2, <4>2
    <3>4. QED
      BY <3>2, <3>3
  <2>4. b + 1 < m
    BY <2>2, <2>3
  <2>5. ASSUME NEW i \in 1 .. k, t[i].camera = d
        PROVE  b + 1 < t[i].frame /\ t[i].frame < m
    BY <1>1, <1>8, <1>9, <1>10, <2>1, <2>3, <2>5
  <2>6. ASSUME NEW n \in Nat, b + 1 < n, n < m
        PROVE  \E i \in 1 .. k : t[i].camera = d /\ t[i].frame = n
    <3>1. PICK i \in 1 .. k + 1 : s[i].camera = d /\ s[i].frame = n
      BY <2>1, <2>2, <2>6
    <3>2. i # 1
      BY <1>10, <2>2, <2>3, <2>6, <3>1
    <3>3. QED
      BY <1>1, <1>3, <3>1, <3>2
  <2>7. QED
    BY <1>1, <2>3, <2>4, <2>5, <2>6 DEF Exactly
<1>6. ASSUME NEW c \in Camera, NEW b \in Numbers, NEW m \in Int, Exactly(s, c, b, m), c # d
      PROVE  Exactly(t, c, b, m)
  <2>1. /\ b < m
        /\ \A i \in 1 .. k + 1 : s[i].camera = c => b < s[i].frame /\ s[i].frame < m
        /\ \A n \in Nat : b < n /\ n < m =>
               \E i \in 1 .. k + 1 : s[i].camera = c /\ s[i].frame = n
    BY <1>1, <1>6 DEF Exactly
  <2>2. ASSUME NEW i \in 1 .. k, t[i].camera = c
        PROVE  b < t[i].frame /\ t[i].frame < m
    BY <1>1, <1>8, <2>1, <2>2
  <2>3. ASSUME NEW n \in Nat, b < n, n < m
        PROVE  \E i \in 1 .. k : t[i].camera = c /\ t[i].frame = n
    <3>1. PICK i \in 1 .. k + 1 : s[i].camera = c /\ s[i].frame = n
      BY <2>1, <2>3
    <3>2. i # 1
      BY <1>6, <1>10, <3>1
    <3>3. QED
      BY <1>1, <1>3, <3>1, <3>2
  <2>4. QED
    BY <1>1, <2>1, <2>2, <2>3 DEF Exactly
<1>7. QED
  BY <1>4, <1>5, <1>6 DEF t, d, f

(* Frames in flight are no more than packets.                              *)
LEMMA FramesFit ==
    ASSUME NEW s \in Seq(Packet), NEW c \in Camera, NEW b \in Numbers, NEW m \in Int,
           Exactly(s, c, b, m)
    PROVE  m - b - 1 <= Len(s)
<1> DEFINE D == {i \in DOMAIN s : s[i].camera = c}
           T == (b + 1) .. (m - 1)
           f == [i \in D |-> s[i].frame]
<1>1. /\ Len(s) \in Nat /\ DOMAIN s = 1 .. Len(s) /\ b \in Int /\ b >= -1 /\ b < m
      /\ \A i \in DOMAIN s : s[i].frame \in Nat
  BY PacketFields DEF Numbers, Exactly
<1>2. IsFiniteSet(D) /\ Cardinality(D) <= Len(s) /\ Cardinality(D) \in Nat
  <2>1. IsFiniteSet(1 .. Len(s)) /\ Cardinality(1 .. Len(s)) = Len(s)
    <3>1. 1 \in Int /\ Len(s) \in Int
      BY <1>1
    <3>2. /\ IsFiniteSet(1 .. Len(s))
          /\ Cardinality(1 .. Len(s)) = IF 1 > Len(s) THEN 0 ELSE Len(s) - 1 + 1
      BY <3>1, FS_Interval
    <3>3. QED
      BY <1>1, <3>2
  <2>2. D \subseteq 1 .. Len(s)
    BY <1>1
  <2>3. QED
    BY <2>1, <2>2, FS_Subset, FS_CardinalityType
<1>3. f \in Surjection(D, T)
  <2>1. \A i \in D : s[i].frame \in T
    BY <1>1 DEF Exactly
  <2>2. \A n \in T : \E i \in D : s[i].frame = n
    BY <1>1 DEF Exactly
  <2>3. QED
    BY <2>1, <2>2 DEF Surjection
<1>4. Cardinality(T) <= Cardinality(D)
  BY <1>2, <1>3, FS_Surjection
<1>5. Cardinality(T) = m - b - 1
  <2>1. b + 1 \in Int /\ m - 1 \in Int
    BY <1>1
  <2>2. Cardinality(T) = IF b + 1 > m - 1 THEN 0 ELSE (m - 1) - (b + 1) + 1
    BY <2>1, FS_Interval
  <2>3. QED
    BY <1>1, <2>2
<1>6. QED
  BY <1>1, <1>2, <1>4, <1>5

-----------------------------------------------------------------------------
(* The phases of a run                                                     *)

(* The consumer has given its batch up, or handles no frame any more.      *)
Aborted == {"abort", "joinScheduler", "joinWorkers", "close", "stopped"}

(* What the position of the consumer and of the scheduler implies.         *)
PhaseInv ==
    /\ cpc \notin {"collect", "process"} => batch = <<>>
    /\ schedulerFinished => spc = "done"
    /\ cpc \in {"drained", "finish"} => AllRetired /\ spc = "done"
    /\ cpc \in Aborted \ {"abort"} => stopEvent
    /\ cpc # "stopped" => \A c \in Camera \ openReaders : frameNumber[c] = 0

(* A run starts with nothing in hand and no frame read.                    *)
LEMMA PhaseInit == Init => PhaseInv
  BY DEF Init, PhaseInv, Aborted

(* Every step keeps the phases.                                            *)
LEMMA PhaseStep == TypeInv /\ JobInv /\ PhaseInv /\ [Next]_vars => PhaseInv'
<1> SUFFICES ASSUME TypeInv, JobInv, PhaseInv, [Next]_vars PROVE PhaseInv'
  OBVIOUS
<1> USE DEF PhaseInv, Aborted
<1>1. AllCamerasDone <=> AllRetired
  BY SumsCountCameras DEF TypeInv, JobInv
<1>2. TypeOK'
  BY TypeStep DEF TypeInv
<1>3. ASSUME NEW w \in Workers, WorkerStep(w) PROVE PhaseInv'
  <2> USE <1>3 DEF WorkerGoto, readerVars, flagVars, workerVars, schedulerVars, consumerVars
  <2>1. UNCHANGED <<cpc, batch, schedulerFinished, spc>> /\ (stopEvent => stopEvent')
    BY DEF WorkerStep, WorkerCheckStop, WorkerGet, WorkerGetTimeout, WorkerCheckFinished,
           WorkerClaim, WorkerOpen, WorkerReadRaises, WorkerReadNone, WorkerReadFrame,
           WorkerHandleError, WorkerStopAll, WorkerMarkCompleted, WorkerPut, WorkerPublish,
           WorkerCleanup, WorkerExit
  <2>2. /\ completedCameras \subseteq completedCameras'
        /\ failedCameras \subseteq failedCameras'
    BY DEF WorkerStep, WorkerCheckStop, WorkerGet, WorkerGetTimeout, WorkerCheckFinished,
           WorkerClaim, WorkerOpen, WorkerReadRaises, WorkerReadNone, WorkerReadFrame,
           WorkerHandleError, WorkerStopAll, WorkerMarkCompleted, WorkerPut, WorkerPublish,
           WorkerCleanup, WorkerExit
  <2>3. AllRetired => AllRetired'
    BY <1>2, <2>2 DEF AllRetired, TypeOK
  <2>4. cpc # "stopped" => \A c \in Camera \ openReaders' : frameNumber'[c] = 0
    <3> SUFFICES ASSUME cpc # "stopped", NEW c \in Camera \ openReaders'
                 PROVE  frameNumber'[c] = 0
      OBVIOUS
    <3> USE DEF TypeInv, TypeOK
    <3>1. CASE WorkerOpen(w)
      BY <3>1 DEF WorkerOpen
    <3>2. CASE WorkerReadFrame(w)
      BY <3>2 DEF WorkerReadFrame
    <3>3. CASE UNCHANGED <<openReaders, frameNumber>>
      BY <3>3
    <3>4. QED
      BY <3>1, <3>2, <3>3
         DEF WorkerStep, WorkerCheckStop, WorkerGet, WorkerGetTimeout, WorkerCheckFinished,
           WorkerClaim, WorkerReadRaises, WorkerReadNone,
           WorkerHandleError, WorkerStopAll, WorkerMarkCompleted, WorkerPut, WorkerPublish,
           WorkerCleanup, WorkerExit
  <2>5. QED
    BY <2>1, <2>3, <2>4
<1>4. CASE SchedulerStep
  <2>1. /\ UNCHANGED <<cpc, batch, stopEvent, openReaders, frameNumber, completedCameras,
                       failedCameras>>
        /\ spc # "done" /\ (schedulerFinished' => spc' = "done")
    BY <1>4
       DEF SchedulerStep, SchedulerCheckStop, SchedulerTake, SchedulerFindsNone,
           SchedulerCheckFinished, SchedulerOffer, SchedulerPut, SchedulerPutTimeout,
           SchedulerExit, SchedulerGoto, readerVars, flagVars, consumerVars
  <2>2. QED
    BY <2>1 DEF AllRetired
<1>5. CASE ConsumerStep
  <2> USE <1>5 DEF ConsumerGoto, readerVars, flagVars, workerVars, schedulerVars
  <2>1. CASE Start
    BY <2>1 DEF Start, AllRetired
  <2>2. CASE ConsumerGet
    BY <2>2 DEF ConsumerGet, AllRetired
  <2>3. CASE ConsumerGetTimeout
    BY <2>3 DEF ConsumerGetTimeout, AllRetired
  <2>4. CASE ConsumerCheckFinished
    BY <1>1, <2>4 DEF ConsumerCheckFinished, IsFinished, AllRetired
  <2>5. CASE ConsumerCheckDrained
    BY <2>5 DEF ConsumerCheckDrained, AllRetired
  <2>6. CASE ConsumerCollect
    BY <2>6 DEF ConsumerCollect, AllRetired
  <2>7. CASE ConsumerBatchReady
    BY <2>7 DEF ConsumerBatchReady, AllRetired
  <2>8. CASE ConsumerProcess
    <3>1. batch \in Seq(Packet) /\ batch # <<>>
      BY <2>8 DEF ConsumerProcess, TypeInv, TypeOK, HandsOK
    <3>2. Tail(batch) \in Seq(Packet) /\ Len(Tail(batch)) = Len(batch) - 1
      BY <3>1, TailFacts
    <3>3. Len(batch) = 1 => Tail(batch) = <<>>
      <4>1. Len(batch) = 1 => Len(Tail(batch)) = 0
        BY <3>2
      <4>2. Tail(batch) \in Seq(Packet)
        BY <3>2
      <4>3. QED
        BY <4>1, <4>2, EmptySeq
    <3>4. QED
      BY <2>8, <3>3 DEF ConsumerProcess, AllRetired
  <2>9. CASE ConsumerRaises
    BY <2>9 DEF ConsumerRaises, AllRetired
  <2>10. CASE StopSetEvent
    BY <2>10 DEF StopSetEvent, AllRetired
  <2>11. CASE StopJoinScheduler
    BY <2>11 DEF StopJoinScheduler, AllRetired
  <2>12. CASE StopJoinWorkers
    BY <2>12 DEF StopJoinWorkers, AllRetired
  <2>13. CASE StopCloseReaders
    BY <2>13 DEF StopCloseReaders, AllRetired
  <2>14. QED
    BY <2>1, <2>2, <2>3, <2>4, <2>5, <2>6, <2>7, <2>8, <2>9, <2>10, <2>11, <2>12, <2>13
       DEF ConsumerStep
<1>6. CASE UNCHANGED vars
  BY <1>6 DEF AllRetired, vars, readerVars, flagVars, schedulerVars, consumerVars
<1>7. QED
  BY <1>3, <1>4, <1>5, <1>6 DEF Next, Terminated

-----------------------------------------------------------------------------
(* The frames that wait for the scheduler                                  *)

(* A worker holds a frame of camera c that it has not handed over yet.     *)
InHand(c) == \E w \in Workers : wpc[w] = "put" /\ wcam[w] = c

(* The frames of camera c that the scheduler has taken.                    *)
Passed(c) ==
    IF buffer[c] # <<>> \/ InHand(c) THEN AcceptedFrames(c) - 1 ELSE AcceptedFrames(c)

(* The frame that waits is the last one that was read.                     *)
HeldFrames ==
    /\ \A c \in Camera : buffer[c] # <<>> => buffer[c][1] = AcceptedFrames(c) - 1
    /\ \A w \in Workers : wpc[w] = "put" => wframe[w] = AcceptedFrames(wcam[w]) - 1

(* A step of a worker that neither accepts nor hands over a frame.         *)
QuietStep ==
    /\ \A c \in Camera : AcceptedFrames(c)' = AcceptedFrames(c)
    /\ UNCHANGED buffer
    /\ \A w \in Workers : (wpc'[w] = "put") <=> (wpc[w] = "put")
    /\ \A w \in Workers : wpc[w] = "put" => wcam'[w] = wcam[w] /\ wframe'[w] = wframe[w]

(* Such a step changes nothing for the frames that wait.                   *)
LEMMA QuietKeepsFrames ==
    ASSUME TypeInv, HeldFrames, QuietStep
    PROVE  HeldFrames' /\ \A c \in Camera : Passed(c)' = Passed(c)
<1>1. \A w \in Workers : wpc[w] = "put" => wcam[w] \in Camera
  BY DEF TypeInv, HandsOK, HoldsJob
<1>2. \A c \in Camera : InHand(c)' <=> InHand(c)
  BY DEF InHand, QuietStep
<1>3. HeldFrames'
  <2>1. \A c \in Camera : buffer'[c] # <<>> => buffer'[c][1] = AcceptedFrames(c)' - 1
    BY DEF HeldFrames, QuietStep
  <2>2. ASSUME NEW w \in Workers, wpc'[w] = "put"
        PROVE  (wframe[w] = AcceptedFrames(wcam[w]) - 1)'
    <3>1. wpc[w] = "put" /\ wcam'[w] = wcam[w] /\ wframe'[w] = wframe[w] /\ wcam[w] \in Camera
      BY <1>1, <2>2 DEF QuietStep
    <3>2. PICK c \in Camera : c = wcam[w]
      BY <3>1
    <3>3. AcceptedFrames(c)' = AcceptedFrames(c)
      BY DEF QuietStep
    <3>4. wframe[w] = AcceptedFrames(c) - 1
      BY <3>1, <3>2 DEF HeldFrames
    <3>5. AcceptedFrames(wcam[w])' = AcceptedFrames(c)'
      BY <3>1, <3>2 DEF AcceptedFrames
    <3>6. QED
      BY <3>1, <3>3, <3>4, <3>5
  <2>3. QED
    BY <2>1, <2>2 DEF HeldFrames
<1>4. \A c \in Camera : Passed(c)' = Passed(c)
  BY <1>2 DEF QuietStep, Passed
<1>5. QED
  BY <1>3, <1>4

(* The frame a worker accepts takes the place of none.                     *)
LEMMA AcceptedWaits ==
    ASSUME TypeInv, JobInv, HeldFrames, NEW w \in Workers, WorkerReadFrame(w),
           ~ BeyondLimit(frameNumber[wcam[w]])
    PROVE  /\ HeldFrames' /\ \A c \in Camera : Passed(c)' = Passed(c)
           /\ Passed(wcam[w]) = frameNumber[wcam[w]]
           /\ AcceptedFrames(wcam[w]) = frameNumber[wcam[w]]
           /\ AcceptedFrames(wcam[w])' = frameNumber[wcam[w]] + 1
           /\ \A c \in Camera : c # wcam[w] => AcceptedFrames(c)' = AcceptedFrames(c)
<1>1. wcam[w] \in Camera /\ wpc[w] = "read"
  BY DEF WorkerReadFrame, WorkerGoto, TypeInv, HandsOK, HoldsJob
<1>2. PICK c \in Camera : c = wcam[w]
  BY <1>1
<1> DEFINE n == frameNumber[c]
<1>3. n \in Nat /\ (FrameLimit = Unlimited \/ (FrameLimit \in Nat /\ n < FrameLimit))
  BY <1>2, BehaviourAssumption DEF BeyondLimit, TypeInv, TypeOK
<1>4. /\ frameNumber' = [frameNumber EXCEPT ![c] = n + 1]
      /\ wframe' = [wframe EXCEPT ![w] = n]
      /\ wpc' = [wpc EXCEPT ![w] = "put"]
      /\ wcam' = wcam /\ buffer' = buffer
  BY <1>2 DEF WorkerReadFrame, WorkerGoto
<1>5. /\ frameNumber \in [Camera -> Nat] /\ wpc \in [Workers -> WorkerPc]
      /\ wframe \in [Workers -> Nat]
  BY DEF TypeInv, TypeOK
<1>6. /\ buffer[c] = <<>>
      /\ \A v \in Workers : wpc[v] = "put" => wcam[v] # c
  BY <1>1, <1>2 DEF JobInv, OneJobPerCamera, HoldsJob
<1>7. AcceptedFrames(c) = n /\ AcceptedFrames(c)' = n + 1
  <2>1. frameNumber'[c] = n + 1
    BY <1>4, <1>5
  <2> HIDE DEF n
  <2>2. AcceptedFrames(c)' = n + 1
    BY <1>3, <2>1 DEF AcceptedFrames
  <2>3. AcceptedFrames(c) = n
    BY <1>3 DEF AcceptedFrames, n
  <2>4. QED
    BY <2>2, <2>3
<1>8. \A d \in Camera : d # c => AcceptedFrames(d)' = AcceptedFrames(d)
  BY <1>4, <1>5 DEF AcceptedFrames
<1>9. wframe'[w] = n /\ wpc'[w] = "put"
      /\ \A v \in Workers : v # w => wframe'[v] = wframe[v] /\ wpc'[v] = wpc[v]
  BY <1>4, <1>5
<1> HIDE DEF n
<1>10. \A d \in Camera : d # c => (InHand(d)' <=> InHand(d))
  <2> SUFFICES ASSUME NEW d \in Camera, d # c PROVE InHand(d)' <=> InHand(d)
    OBVIOUS
  <2>1. \A v \in Workers : (wpc'[v] = "put" /\ wcam[v] = d) <=> (wpc[v] = "put" /\ wcam[v] = d)
    BY <1>1, <1>2, <1>9
  <2>2. QED
    BY <1>4, <2>1 DEF InHand
<1>11. InHand(c)' /\ ~ InHand(c)
  BY <1>2, <1>4, <1>6, <1>9 DEF InHand
<1>12. Passed(c) = n /\ Passed(c)' = n
  <2>1. AcceptedFrames(c)' - 1 = n
    BY <1>3, <1>7
  <2>2. QED
    BY <1>6, <1>7, <1>11, <2>1 DEF Passed
<1>13. \A d \in Camera : d # c => Passed(d)' = Passed(d)
  BY <1>4, <1>8, <1>10 DEF Passed
<1>14. HeldFrames'
  <2>1. ASSUME NEW d \in Camera, buffer'[d] # <<>>
        PROVE  buffer'[d][1] = AcceptedFrames(d)' - 1
    <3>1. d # c /\ buffer[d] # <<>> /\ buffer'[d] = buffer[d]
      BY <1>4, <1>6, <2>1
    <3>2. QED
      BY <1>8, <3>1 DEF HeldFrames
  <2>2. ASSUME NEW v \in Workers, wpc'[v] = "put"
        PROVE  (wframe[v] = AcceptedFrames(wcam[v]) - 1)'
    <3>1. CASE v = w
      <4>1. AcceptedFrames(wcam[v])' = AcceptedFrames(c)'
        BY <1>2, <1>4, <3>1 DEF AcceptedFrames
      <4>2. QED
        BY <1>3, <1>7, <1>9, <3>1, <4>1
    <3>2. CASE v # w
      <4>1. wpc[v] = "put" /\ wframe'[v] = wframe[v]
        BY <1>9, <2>2, <3>2
      <4>2. wcam[v] \in Camera /\ wcam[v] # c
        BY <1>6, <4>1 DEF TypeInv, HandsOK, HoldsJob
      <4>3. PICK d \in Camera : d = wcam[v]
        BY <4>2
      <4>4. AcceptedFrames(d)' = AcceptedFrames(d) /\ wframe[v] = AcceptedFrames(d) - 1
        BY <1>8, <4>1, <4>2, <4>3 DEF HeldFrames
      <4>5. AcceptedFrames(wcam[v])' = AcceptedFrames(d)'
        BY <1>4, <4>3 DEF AcceptedFrames
      <4>6. QED
        BY <4>1, <4>4, <4>5
    <3>3. QED
      BY <3>1, <3>2
  <2>3. QED
    BY <2>1, <2>2 DEF HeldFrames
<1>15. /\ \A d \in Camera : Passed(d)' = Passed(d)
  BY <1>12, <1>13
<1>16. AcceptedFrames(wcam[w])' = AcceptedFrames(c)'
  BY <1>2, <1>4 DEF AcceptedFrames
<1>17. QED
  BY <1>2, <1>7, <1>8, <1>12, <1>14, <1>15, <1>16 DEF n

(* The frame a worker hands over goes on waiting in the buffer.            *)
LEMMA PutWaits ==
    ASSUME TypeInv, JobInv, HeldFrames, NEW w \in Workers, WorkerPut(w)
    PROVE  HeldFrames' /\ \A c \in Camera : Passed(c)' = Passed(c)
<1>1. wcam[w] \in Camera /\ wpc[w] = "put"
  BY DEF WorkerPut, WorkerGoto, TypeInv, HandsOK, HoldsJob
<1>2. PICK c \in Camera : c = wcam[w]
  BY <1>1
<1>3. buffer[c] = <<>> /\ \A v \in Workers : v # w /\ wpc[v] = "put" => wcam[v] # c
  BY <1>1, <1>2 DEF JobInv, OneJobPerCamera, HoldsJob
<1>4. wpc' = [wpc EXCEPT ![w] = "publish"] /\ wframe' = [wframe EXCEPT ![w] = 0]
      /\ wcam' = wcam /\ frameNumber' = frameNumber
      /\ buffer' = [buffer EXCEPT ![c] = Append(buffer[c], wframe[w])]
  BY <1>2 DEF WorkerPut, WorkerGoto, readerVars
<1>5. wpc \in [Workers -> WorkerPc] /\ wframe \in [Workers -> Nat]
      /\ buffer \in [Camera -> Seq(Nat)]
  BY DEF TypeInv, TypeOK
<1>6. \A d \in Camera : AcceptedFrames(d)' = AcceptedFrames(d)
  BY <1>4 DEF AcceptedFrames
<1>7. wframe[w] = AcceptedFrames(c) - 1
  BY <1>1, <1>2 DEF HeldFrames
<1>8. wpc'[w] = "publish"
      /\ \A v \in Workers : v # w => wframe'[v] = wframe[v] /\ wpc'[v] = wpc[v]
  BY <1>4, <1>5
<1>9. buffer'[c] # <<>> /\ buffer'[c][1] = wframe[w]
      /\ \A d \in Camera : d # c => buffer'[d] = buffer[d]
  <2>1. buffer'[c] = Append(<<>>, wframe[w])
    BY <1>3, <1>4, <1>5
  <2>2. Append(<<>>, wframe[w]) # <<>> /\ Append(<<>>, wframe[w])[1] = wframe[w]
    OBVIOUS
  <2>3. \A d \in Camera : d # c => buffer'[d] = buffer[d]
    BY <1>4, <1>5
  <2>4. QED
    BY <2>1, <2>2, <2>3
<1>10. \A d \in Camera : d # c => (InHand(d)' <=> InHand(d))
  <2> SUFFICES ASSUME NEW d \in Camera, d # c PROVE InHand(d)' <=> InHand(d)
    OBVIOUS
  <2>1. \A v \in Workers : (wpc'[v] = "put" /\ wcam[v] = d) <=> (wpc[v] = "put" /\ wcam[v] = d)
    BY <1>1, <1>2, <1>8
  <2>2. QED
    BY <1>4, <2>1 DEF InHand
<1>11. InHand(c)
  BY <1>1, <1>2 DEF InHand
<1>12. HeldFrames'
  <2>1. ASSUME NEW d \in Camera, buffer'[d] # <<>>
        PROVE  buffer'[d][1] = AcceptedFrames(d)' - 1
    <3>1. CASE d = c
      BY <1>6, <1>7, <1>9, <3>1
    <3>2. CASE d # c
      BY <1>6, <1>9, <2>1, <3>2 DEF HeldFrames
    <3>3. QED
      BY <3>1, <3>2
  <2>2. ASSUME NEW v \in Workers, wpc'[v] = "put"
        PROVE  (wframe[v] = AcceptedFrames(wcam[v]) - 1)'
    <3>1. v # w /\ wpc[v] = "put" /\ wframe'[v] = wframe[v]
      BY <1>8, <2>2
    <3>2. wcam[v] \in Camera
      BY <3>1 DEF TypeInv, HandsOK, HoldsJob
    <3>3. PICK d \in Camera : d = wcam[v]
      BY <3>2
    <3>4. AcceptedFrames(d)' = AcceptedFrames(d) /\ wframe[v] = AcceptedFrames(d) - 1
      BY <1>6, <3>1, <3>3 DEF HeldFrames
    <3>5. AcceptedFrames(wcam[v])' = AcceptedFrames(d)'
      BY <1>4, <3>3 DEF AcceptedFrames
    <3>6. QED
      BY <3>1, <3>4, <3>5
  <2>3. QED
    BY <2>1, <2>2 DEF HeldFrames
<1>13. \A d \in Camera : Passed(d)' = Passed(d)
  <2>1. Passed(c)' = Passed(c)
    BY <1>6, <1>9, <1>11 DEF Passed
  <2>2. \A d \in Camera : d # c => Passed(d)' = Passed(d)
    BY <1>6, <1>9, <1>10 DEF Passed
  <2>3. QED
    BY <2>1, <2>2
<1>14. QED
  BY <1>12, <1>13

(* Every other step of a worker is quiet.                                  *)
LEMMA OthersAreQuiet ==
    ASSUME TypeInv, PhaseInv, cpc # "stopped", NEW w \in Workers, WorkerStep(w),
           ~ WorkerPut(w), ~ (WorkerReadFrame(w) /\ ~ BeyondLimit(frameNumber[wcam[w]]))
    PROVE  QuietStep
<1> USE DEF WorkerGoto, readerVars, workerVars, TypeInv, TypeOK
<1>1. CASE WorkerReadFrame(w)
  <2>1. wcam[w] \in Camera /\ wpc[w] = "read" /\ BeyondLimit(frameNumber[wcam[w]])
    BY <1>1 DEF WorkerReadFrame, HandsOK, HoldsJob
  <2>2. PICK c \in Camera : c = wcam[w]
    BY <2>1
  <2>3. frameNumber' = [frameNumber EXCEPT ![c] = frameNumber[c] + 1]
    BY <1>1, <2>2 DEF WorkerReadFrame
  <2>4. FrameLimit \in Nat /\ frameNumber[c] \in Nat /\ frameNumber[c] >= FrameLimit
    BY <2>1, <2>2, BehaviourAssumption DEF BeyondLimit
  <2>5. AcceptedFrames(c)' = AcceptedFrames(c)
    <3>1. frameNumber'[c] > FrameLimit
      BY <2>3, <2>4
    <3>2. AcceptedFrames(c)' = FrameLimit
      BY <2>4, <3>1, BehaviourAssumption DEF AcceptedFrames
    <3>3. AcceptedFrames(c) = FrameLimit
      BY <2>4, BehaviourAssumption DEF AcceptedFrames
    <3>4. QED
      BY <3>2, <3>3
  <2>6. \A d \in Camera : d # c => AcceptedFrames(d)' = AcceptedFrames(d)
    BY <2>3 DEF AcceptedFrames
  <2>7. \A d \in Camera : AcceptedFrames(d)' = AcceptedFrames(d)
    BY <2>5, <2>6
  <2>8. QED
    BY <1>1, <2>1, <2>7 DEF WorkerReadFrame, QuietStep
<1>2. CASE WorkerOpen(w)
  <2>1. wcam[w] \in Camera
    BY <1>2 DEF WorkerOpen, HandsOK, HoldsJob
  <2>2. CASE wcam[w] \in openReaders
    BY <1>2, <2>2 DEF WorkerOpen, QuietStep, AcceptedFrames
  <2>3. CASE wcam[w] \notin openReaders
    <3>1. frameNumber[wcam[w]] = 0 /\ frameNumber' = [frameNumber EXCEPT ![wcam[w]] = 0]
      BY <1>2, <2>1, <2>3 DEF WorkerOpen, PhaseInv
    <3>2. frameNumber' = frameNumber
      BY <2>1, <3>1
    <3>3. QED
      BY <1>2, <3>2 DEF WorkerOpen, QuietStep, AcceptedFrames
  <2>4. QED
    BY <2>2, <2>3
<1>3. CASE ~ (WorkerReadFrame(w) \/ WorkerOpen(w))
  <2>1. UNCHANGED <<frameNumber, buffer, wframe>>
    BY <1>3
       DEF WorkerStep, WorkerCheckStop, WorkerGet, WorkerGetTimeout, WorkerCheckFinished,
           WorkerClaim, WorkerReadRaises, WorkerReadNone, WorkerHandleError, WorkerStopAll,
           WorkerMarkCompleted, WorkerPublish, WorkerCleanup, WorkerExit
  <2>2. /\ wpc[w] # "put" /\ wpc'[w] # "put"
        /\ \A v \in Workers : v # w => wpc'[v] = wpc[v] /\ wcam'[v] = wcam[v]
    BY <1>3
       DEF WorkerStep, WorkerCheckStop, WorkerGet, WorkerGetTimeout, WorkerCheckFinished,
           WorkerClaim, WorkerReadRaises, WorkerReadNone, WorkerHandleError, WorkerStopAll,
           WorkerMarkCompleted, WorkerPublish, WorkerCleanup, WorkerExit
  <2>3. QED
    BY <2>1, <2>2 DEF QuietStep, AcceptedFrames
<1>4. QED
  BY <1>1, <1>2, <1>3

(* No step of a worker changes which frames the scheduler has taken.       *)
LEMMA WorkersKeepFrames ==
    ASSUME TypeInv, JobInv, PhaseInv, HeldFrames, cpc # "stopped",
           NEW w \in Workers, WorkerStep(w)
    PROVE  HeldFrames' /\ \A c \in Camera : Passed(c)' = Passed(c)
  BY AcceptedWaits, PutWaits, OthersAreQuiet, QuietKeepsFrames

(* And only a frame within the limit counts as accepted.                   *)
LEMMA WorkersKeepAccepted ==
    ASSUME TypeInv, PhaseInv, cpc # "stopped", NEW w \in Workers, WorkerStep(w),
           ~ (WorkerReadFrame(w) /\ ~ BeyondLimit(frameNumber[wcam[w]]))
    PROVE  \A c \in Camera : AcceptedFrames(c)' = AcceptedFrames(c)
<1>1. CASE WorkerPut(w)
  BY <1>1 DEF WorkerPut, readerVars, AcceptedFrames
<1>2. CASE ~ WorkerPut(w)
  BY <1>2, OthersAreQuiet DEF QuietStep
<1>3. QED
  BY <1>1, <1>2

-----------------------------------------------------------------------------
(* The frames in flight                                                    *)

(* The frame the scheduler holds between the buffer and the frame queue.   *)
Carried == IF spc \in {"offer", "put"} THEN <<spacket>> ELSE <<>>

(* Once stopped, the scheduler may have dropped the frame it carried.      *)
Dropped == stopEvent /\ spc \in {"exit", "done"}

(* Everything between the scheduler and the processing of a frame, in the  *)
(* order of arrival: u stands for the batch, which is emptied but not      *)
(* processed when the consumer fails.                                      *)
InFlight(u) == (u \o frameQueue) \o Carried

(* Sequence s holds all of camera c's frames between the last processed    *)
(* and the last taken one, which may have been dropped after a stop.       *)
Flows(s, c) ==
    \E d \in {0, 1} : (d = 1 => Dropped) /\ Exactly(s, c, lastProcessed[c], Passed(c) - d)

(* Every camera's frames between the last one processed and the last one   *)
(* taken are in flight, in their order.                                    *)
Sound(s) == Increasing(s) /\ \A c \in Camera : Flows(s, c)

FlightInv ==
    \E u \in Seq(Packet) :
        /\ Len(u) <= BatchSize
        /\ cpc \notin Aborted => u = batch
        /\ Sound(InFlight(u))

(* No frame was out of order, and until stop() is over every frame that    *)
(* waits or flies is accounted for.                                        *)
OrderInv == orderViolations = 0 /\ (cpc # "stopped" => HeldFrames /\ FlightInv)

(* The frames in flight are packets, and Passed counts frames.             *)
LEMMA FlightTypes ==
    ASSUME TypeInv
    PROVE  /\ \A u \in Seq(Packet) : InFlight(u) \in Seq(Packet)
           /\ \A c \in Camera : Passed(c) \in Int /\ AcceptedFrames(c) \in Nat
           /\ \A c \in Camera : lastProcessed[c] \in Numbers
<1>1. Carried \in Seq(Packet)
  BY DEF Carried, TypeInv, HandsOK
<1>2. \A u \in Seq(Packet) : InFlight(u) \in Seq(Packet)
  <2>1. SUFFICES ASSUME NEW u \in Seq(Packet) PROVE InFlight(u) \in Seq(Packet)
    OBVIOUS
  <2>2. u \o frameQueue \in Seq(Packet)
    BY ConcatProperties DEF TypeInv, TypeOK
  <2>3. QED
    BY <1>1, <2>2, ConcatProperties DEF InFlight
<1>3. \A c \in Camera : AcceptedFrames(c) \in Nat
  BY BehaviourAssumption DEF AcceptedFrames, TypeInv, TypeOK
<1>4. \A c \in Camera : Passed(c) \in Int
  BY <1>3 DEF Passed
<1>5. \A c \in Camera : lastProcessed[c] \in Numbers
  BY DEF TypeInv, TypeOK, Numbers
<1>6. QED
  BY <1>2, <1>3, <1>4, <1>5

(* A step after which the same frames are in flight.                       *)
LEMMA SameFlight ==
    ASSUME NEW s, Sound(s), lastProcessed' = lastProcessed, Dropped => Dropped',
           \A c \in Camera : Passed(c)' = Passed(c)
    PROVE  Sound(s)'
<1>1. ASSUME NEW c \in Camera PROVE Flows(s, c)'
  <2>1. PICK d \in {0, 1} :
            (d = 1 => Dropped) /\ Exactly(s, c, lastProcessed[c], Passed(c) - d)
    BY DEF Sound, Flows
  <2>2. Passed(c)' = Passed(c)
    OBVIOUS
  <2>3. (d = 1 => Dropped') /\ Exactly(s, c, lastProcessed'[c], Passed(c)' - d)
    BY <2>1, <2>2
  <2>4. QED
    BY <2>3 DEF Flows, Exactly
<1>2. QED
  BY <1>1 DEF Sound, Increasing

(* Nothing is in flight at the start.                                      *)
LEMMA OrderInit == Init => OrderInv
<1> SUFFICES ASSUME Init PROVE OrderInv
  OBVIOUS
<1>1. /\ batch = <<>> /\ frameQueue = <<>> /\ Carried = <<>> /\ orderViolations = 0
      /\ \A c \in Camera : buffer[c] = <<>> /\ frameNumber[c] = 0 /\ lastProcessed[c] = -1
      /\ \A w \in Workers : wpc[w] # "put"
  BY DEF Init, Carried
<1>2. \A c \in Camera : AcceptedFrames(c) = 0
  BY <1>1, BehaviourAssumption DEF AcceptedFrames
<1>3. \A c \in Camera : Passed(c) = 0
  BY <1>1, <1>2 DEF Passed, InHand
<1>4. HeldFrames
  BY <1>1 DEF HeldFrames
<1>5. InFlight(batch) = <<>>
  BY <1>1 DEF InFlight
<1>6. Increasing(<<>>)
  BY DEF Increasing
<1>7. ASSUME NEW c \in Camera PROVE Flows(<<>>, c)
  <2>1. Exactly(<<>>, c, -1, 0)
    BY DEF Exactly
  <2>2. Passed(c) - 0 = 0
    BY <1>3
  <2>3. QED
    BY <1>1, <2>1, <2>2 DEF Flows
<1>8. FlightInv
  <2>1. batch \in Seq(Packet) /\ Len(batch) <= BatchSize
    BY <1>1, SizesAssumption
  <2>2. Sound(InFlight(batch))
    BY <1>5, <1>6, <1>7 DEF Sound
  <2>3. QED
    BY <2>1, <2>2 DEF FlightInv
<1>9. QED
  BY <1>1, <1>4, <1>8 DEF OrderInv

(* The frame the scheduler takes joins the end of what is in flight.       *)
LEMMA OrderTake ==
    ASSUME TypeInv, JobInv, OrderInv, cpc # "stopped", NEW c \in Camera, SchedulerTake(c)
    PROVE  OrderInv'
<1>1. /\ spc = "next" /\ spc' = "offer"
      /\ spacket' = [camera |-> c, frame |-> Head(buffer[c])]
      /\ buffer[c] # <<>> /\ buffer' = [buffer EXCEPT ![c] = Tail(buffer[c])]
      /\ UNCHANGED <<frameNumber, wpc, wcam, wframe, cpc, batch, lastProcessed,
                     orderViolations, frameQueue>>
  BY DEF SchedulerTake, SchedulerGoto, FirstReady, readerVars, workerVars, consumerVars
<1>2. /\ buffer \in [Camera -> Seq(Nat)] /\ frameQueue \in Seq(Packet)
      /\ wcam \in [Workers -> Camera \cup {NoCamera}]
      /\ lastProcessed \in [Camera -> Nat \cup {-1}]
  BY DEF TypeInv, TypeOK
<1>3. Len(buffer[c]) = 1 /\ \A w \in Workers : wpc[w] = "put" => wcam[w] # c
  BY <1>1 DEF JobInv, OneJobPerCamera, HoldsJob
<1>4. /\ Head(buffer[c]) \in Nat /\ Head(buffer[c]) = buffer[c][1]
      /\ Tail(buffer[c]) = <<>>
  <2>1. /\ Head(buffer[c]) \in Nat /\ Head(buffer[c]) = buffer[c][1]
        /\ Tail(buffer[c]) \in Seq(Nat) /\ Len(Tail(buffer[c])) = Len(buffer[c]) - 1
    BY <1>1, <1>2, TailFacts
  <2>2. Len(Tail(buffer[c])) = 0
    BY <1>3, <2>1
  <2>3. QED
    BY <2>1, <2>2, EmptySeq
<1>5. buffer'[c] = <<>> /\ \A d \in Camera : d # c => buffer'[d] = buffer[d]
  BY <1>1, <1>2, <1>4
<1>6. \A d \in Camera : AcceptedFrames(d)' = AcceptedFrames(d)
  BY <1>1 DEF AcceptedFrames
<1>7. \A d \in Camera : InHand(d)' <=> InHand(d)
  BY <1>1 DEF InHand
<1>8. HeldFrames /\ FlightInv
  BY DEF OrderInv
<1> DEFINE f == Head(buffer[c])
           p == [camera |-> c, frame |-> f]
<1>9. f = AcceptedFrames(c) - 1 /\ Passed(c) = f /\ Passed(c)' = f + 1
  <2>1. f = AcceptedFrames(c) - 1
    BY <1>1, <1>4, <1>8 DEF HeldFrames
  <2>2. Passed(c) = AcceptedFrames(c) - 1
    BY <1>1 DEF Passed
  <2>3. ~ InHand(c)'
    BY <1>3, <1>7 DEF InHand
  <2>4. Passed(c)' = AcceptedFrames(c)
    BY <1>5, <1>6, <2>3 DEF Passed
  <2>5. AcceptedFrames(c) \in Nat
    BY FlightTypes
  <2>6. QED
    BY <2>1, <2>2, <2>4, <2>5
<1>10. \A d \in Camera : d # c => Passed(d)' = Passed(d)
  BY <1>5, <1>6, <1>7 DEF Passed
<1>11. HeldFrames'
  <2>1. \A d \in Camera : buffer'[d] # <<>> => buffer'[d][1] = AcceptedFrames(d)' - 1
    BY <1>5, <1>6, <1>8 DEF HeldFrames
  <2>2. ASSUME NEW w \in Workers, wpc'[w] = "put"
        PROVE  (wframe[w] = AcceptedFrames(wcam[w]) - 1)'
    <3>1. wframe[w] = AcceptedFrames(wcam[w]) - 1
      BY <1>1, <1>8, <2>2 DEF HeldFrames
    <3>2. QED
      BY <1>1, <3>1 DEF AcceptedFrames
  <2>3. QED
    BY <2>1, <2>2 DEF HeldFrames
<1>12. PICK u \in Seq(Packet) :
          /\ Len(u) <= BatchSize
          /\ cpc \notin Aborted => u = batch
          /\ Sound(InFlight(u))
  BY <1>8 DEF FlightInv
<1> DEFINE s == InFlight(u)
<1>13. p \in Packet /\ p.camera = c /\ p.frame = f /\ spacket' = p
  BY <1>1, <1>4 DEF Packet
<1>14. s = (u \o frameQueue) \o <<>> /\ s \in Seq(Packet)
  BY <1>1, FlightTypes DEF InFlight, Carried
<1>15. InFlight(u)' = Append(s, p)
  <2>1. InFlight(u)' = (u \o frameQueue) \o <<p>>
    BY <1>1, <1>13 DEF InFlight, Carried
  <2>2. QED
    BY <1>2, <1>13, <1>14, <2>1, CarriedMovesOver
<1>16. Increasing(s) /\ \A d \in Camera : Exactly(s, d, lastProcessed[d], Passed(d))
  <2>1. ~ Dropped
    BY <1>1 DEF Dropped
  <2>2. \A d \in Camera : Passed(d) \in Int
    BY FlightTypes
  <2>3. Increasing(s) /\ \A d \in Camera : Flows(s, d)
    BY <1>12 DEF Sound
  <2> HIDE DEF s
  <2>4. ASSUME NEW d \in Camera PROVE Exactly(s, d, lastProcessed[d], Passed(d))
    <3>1. Exactly(s, d, lastProcessed[d], Passed(d) - 0)
      BY <2>1, <2>3 DEF Flows
    <3>2. Passed(d) - 0 = Passed(d)
      BY <2>2
    <3>3. QED
      BY <3>1, <3>2
  <2>5. QED
    BY <2>3, <2>4
<1>17. \A d \in Camera : lastProcessed[d] \in Numbers /\ Passed(d)' \in Int
  BY <1>9, <1>10, <1>4, FlightTypes
<1> HIDE DEF f, p, s
<1>18. Increasing(Append(s, p)) /\ Exactly(Append(s, p), c, lastProcessed[c], f + 1)
  BY <1>9, <1>13, <1>14, <1>16, <1>17, NextArrives
<1>19. ASSUME NEW d \in Camera PROVE Exactly(Append(s, p), d, lastProcessed[d], Passed(d)')
  <2>1. CASE d = c
    BY <1>9, <1>18, <2>1
  <2>2. CASE d # c
    BY <1>10, <1>13, <1>14, <1>16, <2>2, OthersKeepTheirs
  <2>3. QED
    BY <2>1, <2>2
<1>20. Sound(InFlight(u))'
  <2>1. ASSUME NEW d \in Camera PROVE Flows(InFlight(u), d)'
    <3>1. Passed(d)' - 0 = Passed(d)' /\ lastProcessed'[d] = lastProcessed[d]
      BY <1>1, <1>17
    <3>2. Exactly(InFlight(u)', d, lastProcessed'[d], Passed(d)' - 0)
      BY <1>15, <1>19, <3>1
    <3>3. QED
      BY <3>2 DEF Flows, Exactly
  <2>2. Increasing(InFlight(u))'
    BY <1>15, <1>18 DEF Increasing
  <2>3. QED
    BY <2>1, <2>2 DEF Sound
<1>21. FlightInv'
  BY <1>1, <1>12, <1>20 DEF FlightInv
<1>22. QED
  BY <1>1, <1>11, <1>21 DEF OrderInv

(* A step that leaves the frames and the consumer alone.                   *)
LEMMA OrderSame ==
    ASSUME TypeInv, OrderInv, cpc # "stopped", UNCHANGED <<cpc, batch, lastProcessed>>,
           orderViolations' = orderViolations, HeldFrames',
           \A c \in Camera : Passed(c)' = Passed(c), Dropped => Dropped',
           \A u \in Seq(Packet) : InFlight(u)' = InFlight(u)
    PROVE  OrderInv'
<1>1. PICK u \in Seq(Packet) :
          /\ Len(u) <= BatchSize
          /\ cpc \notin Aborted => u = batch
          /\ Sound(InFlight(u))
  BY DEF OrderInv, FlightInv
<1> DEFINE s == InFlight(u)
<1>2. s' = s
  OBVIOUS
<1>3. PICK t \in Seq(Packet) : t = s
  BY <1>1, FlightTypes
<1>4. Sound(t)'
  BY <1>1, <1>3, SameFlight
<1>5. Sound(s)'
  BY <1>2, <1>3, <1>4 DEF Sound, Flows, Increasing, Exactly
<1>6. FlightInv'
  BY <1>1, <1>5 DEF FlightInv
<1>7. QED
  BY <1>6 DEF OrderInv

(* A frame the scheduler drops is the last one of its camera.              *)
LEMMA OrderDrop ==
    ASSUME TypeInv, OrderInv, cpc # "stopped", SchedulerOffer, stopEvent
    PROVE  OrderInv'
<1>1. /\ spc = "offer" /\ spc' = "exit" /\ stopEvent' = TRUE
      /\ UNCHANGED <<frameNumber, buffer, wpc, wcam, wframe, cpc, batch, lastProcessed,
                     orderViolations, frameQueue>>
  BY DEF SchedulerOffer, SchedulerGoto, readerVars, workerVars, consumerVars
<1>2. HeldFrames' /\ \A c \in Camera : Passed(c)' = Passed(c)
  BY <1>1 DEF OrderInv, HeldFrames, Passed, InHand, AcceptedFrames
<1>3. spacket \in Packet /\ frameQueue \in Seq(Packet)
  BY <1>1 DEF TypeInv, TypeOK, HandsOK
<1>4. PICK u \in Seq(Packet) :
          /\ Len(u) <= BatchSize
          /\ cpc \notin Aborted => u = batch
          /\ Sound(InFlight(u))
  BY DEF OrderInv, FlightInv
<1>5. PICK p \in Packet : p = spacket
  BY <1>3
<1>6. p.camera \in Camera
  BY DEF Packet
<1> DEFINE s == (u \o frameQueue) \o <<>>
<1>7. /\ s \in Seq(Packet)
      /\ InFlight(u) = Append(s, p)
      /\ InFlight(u)' = s
  BY <1>1, <1>3, <1>5, CarriedMovesOver DEF InFlight, Carried
<1> HIDE DEF s
<1>8. Increasing(Append(s, p)) /\ \A d \in Camera : Flows(Append(s, p), d)
  BY <1>4, <1>7 DEF Sound
<1>9. ASSUME NEW d \in Camera PROVE Exactly(Append(s, p), d, lastProcessed[d], Passed(d))
  <2>1. ~ Dropped /\ Passed(d) \in Int
    BY <1>1, FlightTypes DEF Dropped
  <2>2. Exactly(Append(s, p), d, lastProcessed[d], Passed(d) - 0)
    BY <1>8, <2>1 DEF Flows
  <2>3. Passed(d) - 0 = Passed(d)
    BY <2>1
  <2>4. QED
    BY <2>2, <2>3
<1>10. /\ Increasing(s)
       /\ Exactly(s, p.camera, lastProcessed[p.camera], Passed(p.camera) - 1)
  <2> DEFINE m == Passed(p.camera)
             b == lastProcessed[p.camera]
  <2>1. Exactly(Append(s, p), p.camera, b, m)
    BY <1>6, <1>9
  <2>2. m \in Nat /\ b \in Numbers
    <3>1. m \in Int /\ b \in Numbers /\ b < m
      BY <1>6, <2>1, FlightTypes DEF Exactly
    <3>2. QED
      BY <3>1 DEF Numbers
  <2> HIDE DEF m, b
  <2>3. Increasing(s) /\ Exactly(s, p.camera, b, m - 1)
    BY <1>7, <1>8, <2>1, <2>2, LastIsDropped
  <2>4. QED
    BY <2>3 DEF m, b
<1>11. Sound(s)'
  <2>1. ASSUME NEW d \in Camera PROVE Flows(s, d)'
    <3>1. Dropped' /\ lastProcessed'[d] = lastProcessed[d] /\ Passed(d)' = Passed(d)
      BY <1>1, <1>2 DEF Dropped
    <3>2. CASE d = p.camera
      <4>1. Exactly(s, d, lastProcessed'[d], Passed(d)' - 1)
        BY <1>10, <3>1, <3>2
      <4>2. s' = s
        BY <1>1 DEF s
      <4>3. QED
        BY <3>1, <4>1, <4>2 DEF Flows, Exactly
    <3>3. CASE d # p.camera
      <4>1. Exactly(s, d, lastProcessed[d], Passed(d))
        BY <1>7, <1>9, <3>3, OthersKeepTheirs
      <4>2. Passed(d)' - 0 = Passed(d)
        BY <3>1, FlightTypes
      <4>3. Exactly(s, d, lastProcessed'[d], Passed(d)' - 0)
        BY <3>1, <4>1, <4>2
      <4>4. s' = s
        BY <1>1 DEF s
      <4>5. QED
        BY <3>1, <4>3, <4>4 DEF Flows, Exactly
    <3>4. QED
      BY <3>2, <3>3
  <2>2. s' = s
    BY <1>1 DEF s
  <2>3. QED
    BY <1>10, <2>1, <2>2 DEF Sound, Increasing
<1>12. Sound(InFlight(u))'
  <2>1. s' = s
    BY <1>1 DEF s
  <2>2. QED
    BY <1>7, <1>11, <2>1 DEF Sound, Flows, Increasing, Exactly
<1>13. FlightInv'
  BY <1>1, <1>4, <1>12 DEF FlightInv
<1>14. QED
  BY <1>1, <1>2, <1>13 DEF OrderInv

(* Every step of the scheduler keeps the order.                            *)
LEMMA OrderScheduler ==
    ASSUME TypeInv, JobInv, OrderInv, cpc # "stopped", SchedulerStep
    PROVE  OrderInv'
<1>1. ASSUME NEW c \in Camera, SchedulerTake(c) PROVE OrderInv'
  BY <1>1, OrderTake
<1>2. CASE SchedulerOffer /\ stopEvent
  BY <1>2, OrderDrop
<1>3. CASE ~ (\E c \in Camera : SchedulerTake(c)) /\ ~ (SchedulerOffer /\ stopEvent)
  <2> USE <1>3 DEF SchedulerGoto
  <2>1. UNCHANGED <<frameNumber, buffer, wpc, wcam, wframe, cpc, batch, lastProcessed,
                    orderViolations, stopEvent>>
    BY DEF SchedulerStep, SchedulerCheckStop, SchedulerFindsNone, SchedulerCheckFinished,
           SchedulerOffer, SchedulerPut, SchedulerPutTimeout, SchedulerExit, readerVars,
           workerVars, consumerVars
  <2>2. HeldFrames' /\ \A c \in Camera : Passed(c)' = Passed(c)
    BY <2>1 DEF OrderInv, HeldFrames, Passed, InHand, AcceptedFrames
  <2>3. Dropped => Dropped'
    BY <2>1
       DEF Dropped, SchedulerStep, SchedulerCheckStop, SchedulerFindsNone,
           SchedulerCheckFinished, SchedulerOffer, SchedulerPut, SchedulerPutTimeout,
           SchedulerExit
  <2>4. \A u \in Seq(Packet) : InFlight(u)' = InFlight(u)
    <3>1. SUFFICES ASSUME NEW u \in Seq(Packet) PROVE InFlight(u)' = InFlight(u)
      OBVIOUS
    <3>2. CASE SchedulerPut
      <4>1. /\ spc = "put" /\ spc' = "loop" /\ frameQueue' = Append(frameQueue, spacket)
            /\ spacket \in Packet /\ frameQueue \in Seq(Packet)
        BY <3>2 DEF SchedulerPut, TypeInv, TypeOK, HandsOK
      <4>2. /\ InFlight(u) = (u \o frameQueue) \o <<spacket>>
            /\ InFlight(u)' = (u \o Append(frameQueue, spacket)) \o <<>>
        BY <4>1 DEF InFlight, Carried
      <4>3. QED
        BY <4>1, <4>2, CarriedMovesOver
    <3>3. CASE ~ SchedulerPut
      <4>1. frameQueue' = frameQueue /\ Carried' = Carried
        BY <3>3
           DEF Carried, SchedulerStep, SchedulerCheckStop, SchedulerFindsNone,
               SchedulerCheckFinished, SchedulerOffer, SchedulerPutTimeout, SchedulerExit
      <4>2. QED
        BY <4>1 DEF InFlight
    <3>4. QED
      BY <3>2, <3>3
  <2>5. QED
    BY <2>1, <2>2, <2>3, <2>4, OrderSame
<1>4. QED
  BY <1>1, <1>2, <1>3

(* Every step of a worker keeps the order.                                 *)
LEMMA OrderWorker ==
    ASSUME TypeInv, JobInv, PhaseInv, OrderInv, cpc # "stopped", NEW w \in Workers,
           WorkerStep(w)
    PROVE  OrderInv'
<1>1. /\ UNCHANGED <<spc, spacket, frameQueue, cpc, batch, lastProcessed, orderViolations>>
      /\ stopEvent => stopEvent'
  BY DEF WorkerStep, WorkerCheckStop, WorkerGet, WorkerGetTimeout, WorkerCheckFinished,
         WorkerClaim, WorkerOpen, WorkerReadRaises, WorkerReadNone, WorkerReadFrame,
         WorkerHandleError, WorkerStopAll, WorkerMarkCompleted, WorkerPut, WorkerPublish,
         WorkerCleanup, WorkerExit, schedulerVars, consumerVars
<1>2. HeldFrames' /\ \A c \in Camera : Passed(c)' = Passed(c)
  BY WorkersKeepFrames DEF OrderInv
<1>3. (Dropped => Dropped') /\ \A u \in Seq(Packet) : InFlight(u)' = InFlight(u)
  BY <1>1 DEF Dropped, InFlight, Carried
<1>4. QED
  BY <1>1, <1>2, <1>3, OrderSame

(* The consumer takes a frame from the queue into its batch.               *)
LEMMA OrderFetch ==
    ASSUME TypeInv, PhaseInv, OrderInv, ConsumerGet \/ ConsumerCollect
    PROVE  OrderInv'
<1>1. /\ cpc \in {"get", "collect"} /\ cpc' = "collect" /\ frameQueue # <<>>
      /\ batch' = Append(batch, Head(frameQueue)) /\ frameQueue' = Tail(frameQueue)
      /\ UNCHANGED <<frameNumber, buffer, wpc, wcam, wframe, spc, spacket, stopEvent,
                     lastProcessed, orderViolations>>
  <2>1. /\ cpc \in {"get", "collect"} /\ cpc' = "collect" /\ frameQueue # <<>>
        /\ frameQueue' = Tail(frameQueue)
        /\ UNCHANGED <<frameNumber, buffer, wpc, wcam, wframe, spc, spacket, stopEvent,
                       lastProcessed, orderViolations>>
    BY DEF ConsumerGet, ConsumerCollect, ConsumerGoto, readerVars, workerVars, schedulerVars
  <2>2. CASE ConsumerGet
    <3>1. batch = <<>> /\ batch' = <<Head(frameQueue)>>
      BY <2>2 DEF ConsumerGet, ConsumerGoto, PhaseInv
    <3>2. Append(<<>>, Head(frameQueue)) = <<Head(frameQueue)>>
      OBVIOUS
    <3>3. QED
      BY <2>1, <3>1, <3>2
  <2>3. CASE ConsumerCollect
    BY <2>1, <2>3 DEF ConsumerCollect
  <2>4. QED
    BY <2>2, <2>3
<1>2. HeldFrames' /\ \A c \in Camera : Passed(c)' = Passed(c)
  BY <1>1 DEF OrderInv, HeldFrames, Passed, InHand, AcceptedFrames
<1>3. /\ batch \in Seq(Packet) /\ frameQueue \in Seq(Packet)
      /\ Head(frameQueue) \in Packet /\ Tail(frameQueue) \in Seq(Packet)
      /\ batch' \in Seq(Packet) /\ Len(batch') <= BatchSize
  <2>1. batch \in Seq(Packet) /\ frameQueue \in Seq(Packet)
    BY DEF TypeInv, TypeOK
  <2>2. Head(frameQueue) \in Packet /\ Tail(frameQueue) \in Seq(Packet)
    BY <1>1, <2>1, TailFacts
  <2>3. TypeOK'
    <3>1. ConsumerStep
      BY DEF ConsumerStep
    <3>2. QED
      BY <3>1, TypeConsumer DEF TypeInv
  <2>4. QED
    BY <2>1, <2>2, <2>3 DEF TypeOK
<1>4. PICK v \in Seq(Packet) : v = batch'
  BY <1>3
<1>5. Sound(InFlight(batch))
  BY <1>1 DEF OrderInv, FlightInv, Aborted
<1>6. PICK s \in Seq(Packet) : s = InFlight(batch)
  BY <1>3, FlightTypes
<1>7. InFlight(v)' = s
  <2>1. v \o Tail(frameQueue) = batch \o frameQueue
    BY <1>1, <1>3, <1>4, HeadMovesOver
  <2>2. InFlight(v)' = (v \o Tail(frameQueue)) \o Carried
    BY <1>1 DEF InFlight, Carried
  <2>3. QED
    BY <1>6, <2>1, <2>2 DEF InFlight
<1>8. Sound(s)'
  <2>1. Dropped => Dropped'
    BY <1>1 DEF Dropped
  <2>2. QED
    BY <1>1, <1>2, <1>5, <1>6, <2>1, SameFlight
<1>9. Sound(InFlight(v))'
  BY <1>7, <1>8 DEF Sound, Flows, Increasing, Exactly
<1>10. FlightInv'
  BY <1>3, <1>4, <1>9 DEF FlightInv
<1>11. QED
  BY <1>1, <1>2, <1>10 DEF OrderInv

(* The first frame of a batch that is processed.                           *)
LEMMA NextProcessed ==
    ASSUME TypeInv, OrderInv, ConsumerProcess
    PROVE  /\ Head(batch) \in Packet
           /\ Head(batch).frame = lastProcessed[Head(batch).camera] + 1
           /\ lastProcessed[Head(batch).camera] + 1 < Passed(Head(batch).camera)
           /\ OrderInv'
<1> DEFINE p == Head(batch)
           b == lastProcessed[p.camera]
           s == InFlight(batch)
<1>1. /\ cpc = "process" /\ cpc' \in {"get", "process"}
      /\ batch' = Tail(batch)
      /\ orderViolations' = IF p.frame <= b THEN orderViolations + 1 ELSE orderViolations
      /\ lastProcessed' = [lastProcessed EXCEPT ![p.camera] = p.frame]
      /\ UNCHANGED <<frameNumber, buffer, wpc, wcam, wframe, spc, spacket, stopEvent,
                     frameQueue>>
  BY DEF ConsumerProcess, ConsumerGoto, readerVars, workerVars, schedulerVars
<1>2. /\ batch \in Seq(Packet) /\ batch # <<>> /\ Len(batch) <= BatchSize
      /\ frameQueue \in Seq(Packet) /\ lastProcessed \in [Camera -> Nat \cup {-1}]
  BY <1>1 DEF TypeInv, TypeOK, HandsOK
<1>3. p \in Packet /\ p.camera \in Camera /\ p.frame \in Nat
  <2>1. p \in Packet
    BY <1>2, TailFacts
  <2>2. QED
    BY <2>1 DEF Packet
<1>4. HeldFrames' /\ \A c \in Camera : Passed(c)' = Passed(c)
  BY <1>1 DEF OrderInv, HeldFrames, Passed, InHand, AcceptedFrames
<1>5. Sound(s)
  BY <1>1 DEF OrderInv, FlightInv, Aborted
<1>6. s \in Seq(Packet) /\ s # <<>> /\ s[1] = p /\ Tail(s) = (Tail(batch) \o frameQueue) \o Carried
  <2>1. /\ batch \o frameQueue \in Seq(Packet) /\ batch \o frameQueue # <<>>
        /\ (batch \o frameQueue)[1] = p
        /\ Tail(batch \o frameQueue) = Tail(batch) \o frameQueue
    BY <1>2, FirstOfAll
  <2>2. Head(batch \o frameQueue) = p
    BY <2>1, TailFacts
  <2>3. Carried \in Seq(Packet)
    BY DEF Carried, TypeInv, HandsOK
  <2>4. PICK r \in Seq(Packet) : r = batch \o frameQueue
    BY <2>1
  <2>5. /\ r \o Carried \in Seq(Packet) /\ r \o Carried # <<>>
        /\ (r \o Carried)[1] = Head(r)
        /\ Tail(r \o Carried) = Tail(r) \o Carried
    BY <2>1, <2>3, <2>4, FirstOfAll
  <2>6. s = r \o Carried /\ Head(r) = p /\ Tail(r) = Tail(batch) \o frameQueue
    BY <2>1, <2>2, <2>4 DEF InFlight
  <2>7. QED
    BY <2>5, <2>6
<1>7. \A c \in Camera : lastProcessed[c] \in Numbers /\ Passed(c) \in Int
  BY FlightTypes
<1>8. Tail(batch) \in Seq(Packet) /\ Len(Tail(batch)) <= BatchSize
  <2>1. Tail(batch) \in Seq(Packet) /\ Len(Tail(batch)) = Len(batch) - 1 /\ Len(batch) \in Nat
    BY <1>2, TailFacts
  <2>2. QED
    BY <1>2, <2>1, SizesAssumption
<1> HIDE DEF p, s
<1>9. PICK z \in Seq(Packet) : z = s
  BY <1>6
<1>10. /\ Increasing(z) /\ z # <<>> /\ z[1].camera = p.camera /\ z[1].frame = p.frame
  BY <1>5, <1>6, <1>9 DEF Sound
<1>11. /\ Increasing(Tail(z))
       /\ \A k \in Numbers, m \in Int :
            Exactly(z, z[1].camera, k, m) =>
               z[1].frame = k + 1 /\ Exactly(Tail(z), z[1].camera, k + 1, m)
       /\ \A c \in Camera, k \in Numbers, m \in Int :
            Exactly(z, c, k, m) /\ c # z[1].camera => Exactly(Tail(z), c, k, m)
  BY <1>10, FirstIsNext
<1>12. \A c \in Camera : \E d \in {0, 1} :
          /\ d = 1 => Dropped
          /\ Passed(c) - d \in Int
          /\ Exactly(z, c, lastProcessed[c], Passed(c) - d)
  BY <1>5, <1>7, <1>9 DEF Sound, Flows
<1>13. PICK d \in {0, 1} :
          /\ d = 1 => Dropped
          /\ Passed(p.camera) - d \in Int
          /\ Exactly(z, p.camera, b, Passed(p.camera) - d)
  BY <1>3, <1>12
<1>14. p.frame = b + 1 /\ Exactly(Tail(z), p.camera, b + 1, Passed(p.camera) - d)
  BY <1>3, <1>7, <1>10, <1>11, <1>13
<1>15. b \in Int /\ b + 1 < Passed(p.camera)
  <2>1. b + 1 < Passed(p.camera) - d /\ b \in Int
    BY <1>3, <1>7, <1>14 DEF Exactly, Numbers
  <2>2. QED
    BY <1>3, <1>7, <2>1
<1>16. orderViolations' = orderViolations
  BY <1>1, <1>3, <1>14, <1>15
<1>17. Dropped' <=> Dropped
  BY <1>1 DEF Dropped
<1>18. ASSUME NEW c \in Camera PROVE Flows(Tail(z), c)'
  <2>1. CASE c = p.camera
    <3>1. lastProcessed'[c] = b + 1 /\ Passed(c)' = Passed(c)
      BY <1>1, <1>2, <1>3, <1>4, <1>14, <2>1
    <3>2. Exactly(Tail(z), c, lastProcessed'[c], Passed(c)' - d)
      BY <1>14, <2>1, <3>1
    <3>3. QED
      BY <1>13, <1>17, <3>2 DEF Flows, Exactly
  <2>2. CASE c # p.camera
    <3>1. lastProcessed'[c] = lastProcessed[c] /\ Passed(c)' = Passed(c)
      BY <1>1, <1>2, <1>4, <2>2
    <3>2. PICK e \in {0, 1} :
             /\ e = 1 => Dropped
             /\ Passed(c) - e \in Int
             /\ Exactly(z, c, lastProcessed[c], Passed(c) - e)
      BY <1>12
    <3>3. Exactly(Tail(z), c, lastProcessed'[c], Passed(c)' - e)
      BY <1>7, <1>10, <1>11, <2>2, <3>1, <3>2
    <3>4. QED
      BY <1>17, <3>2, <3>3 DEF Flows, Exactly
  <2>3. QED
    BY <2>1, <2>2
<1>19. PICK v \in Seq(Packet) : v = Tail(batch)
  BY <1>8
<1>20. InFlight(v)' = Tail(z)
  BY <1>1, <1>6, <1>9, <1>19 DEF InFlight, Carried
<1>21. Sound(InFlight(v))'
  BY <1>11, <1>18, <1>20 DEF Sound, Flows, Increasing, Exactly
<1>22. FlightInv'
  BY <1>1, <1>8, <1>19, <1>21 DEF FlightInv
<1>23. OrderInv'
  BY <1>4, <1>16, <1>22 DEF OrderInv
<1>24. QED
  BY <1>3, <1>14, <1>15, <1>23 DEF p

(* Every step of the consumer keeps the order.                             *)
LEMMA OrderConsumer ==
    ASSUME TypeInv, PhaseInv, OrderInv, ConsumerStep
    PROVE  OrderInv'
<1>1. CASE ConsumerGet \/ ConsumerCollect
  BY <1>1, OrderFetch
<1>2. CASE ConsumerProcess
  BY <1>2, NextProcessed
<1>3. CASE ~ (ConsumerGet \/ ConsumerCollect \/ ConsumerProcess)
  <2> USE <1>3 DEF ConsumerGoto, readerVars, workerVars, schedulerVars
  <2>1. /\ UNCHANGED <<frameNumber, buffer, wpc, wcam, wframe, spc, spacket,
                       frameQueue, lastProcessed, orderViolations>>
        /\ stopEvent => stopEvent'
        /\ cpc # "stopped"
        /\ cpc' \notin Aborted => cpc \notin Aborted /\ batch' = batch
    BY DEF ConsumerStep, Start, ConsumerGetTimeout, ConsumerCheckFinished,
           ConsumerCheckDrained, ConsumerBatchReady, ConsumerRaises, StopSetEvent,
           StopJoinScheduler, StopJoinWorkers, StopCloseReaders, Aborted
  <2>2. HeldFrames' /\ \A c \in Camera : Passed(c)' = Passed(c)
    BY <2>1 DEF OrderInv, HeldFrames, Passed, InHand, AcceptedFrames
  <2>3. PICK u \in Seq(Packet) :
          /\ Len(u) <= BatchSize
          /\ cpc \notin Aborted => u = batch
          /\ Sound(InFlight(u))
    BY <2>1 DEF OrderInv, FlightInv
  <2>4. PICK s \in Seq(Packet) : s = InFlight(u)
    BY FlightTypes
  <2>5. Sound(s)'
    <3>1. Dropped => Dropped'
      BY <2>1 DEF Dropped
    <3>2. QED
      BY <2>1, <2>2, <2>3, <2>4, <3>1, SameFlight
  <2>6. InFlight(u)' = s
    BY <2>1, <2>4 DEF InFlight, Carried
  <2>7. Sound(InFlight(u))'
    BY <2>5, <2>6 DEF Sound, Flows, Increasing, Exactly
  <2>8. FlightInv'
    BY <2>1, <2>3, <2>7 DEF FlightInv
  <2>9. QED
    BY <2>1, <2>2, <2>8 DEF OrderInv
<1>4. QED
  BY <1>1, <1>2, <1>3

(* Every step keeps the order.                                             *)
LEMMA OrderStep == TypeInv /\ JobInv /\ PhaseInv /\ OrderInv /\ [Next]_vars => OrderInv'
<1> SUFFICES ASSUME TypeInv, JobInv, PhaseInv, OrderInv, [Next]_vars PROVE OrderInv'
  OBVIOUS
<1>1. CASE cpc = "stopped"
  <2>1. cpc' = cpc /\ orderViolations' = orderViolations
    BY <1>1
       DEF Next, Terminated, vars, consumerVars, SchedulerStep, SchedulerCheckStop,
           SchedulerTake, SchedulerFindsNone, SchedulerCheckFinished, SchedulerOffer,
           SchedulerPut, SchedulerPutTimeout, SchedulerExit, SchedulerGoto, ConsumerStep,
           ConsumerGoto, ConsumerGet, ConsumerGetTimeout, ConsumerCheckFinished,
           ConsumerCheckDrained, ConsumerCollect, ConsumerBatchReady, ConsumerProcess,
           ConsumerRaises, StopSetEvent, StopJoinScheduler, StopJoinWorkers,
           StopCloseReaders, Start, WorkerStep, WorkerCheckStop, WorkerGet, WorkerGetTimeout,
           WorkerCheckFinished, WorkerClaim, WorkerOpen, WorkerReadRaises, WorkerReadNone,
           WorkerReadFrame, WorkerHandleError, WorkerStopAll, WorkerMarkCompleted, WorkerPut,
           WorkerPublish, WorkerCleanup, WorkerExit
  <2>2. QED
    BY <1>1, <2>1 DEF OrderInv
<1>2. CASE cpc # "stopped"
  <2>1. ASSUME NEW w \in Workers, WorkerStep(w) PROVE OrderInv'
    BY <1>2, <2>1, OrderWorker
  <2>2. CASE SchedulerStep
    BY <1>2, <2>2, OrderScheduler
  <2>3. CASE ConsumerStep
    BY <2>3, OrderConsumer
  <2>4. CASE UNCHANGED vars
    <3>1. UNCHANGED <<frameNumber, buffer, wpc, wcam, wframe, spc, spacket, stopEvent,
                      frameQueue, cpc, batch, lastProcessed, orderViolations>>
      BY <2>4 DEF vars, readerVars, workerVars, schedulerVars, consumerVars
    <3>2. HeldFrames' /\ \A c \in Camera : Passed(c)' = Passed(c)
      BY <1>2, <3>1 DEF OrderInv, HeldFrames, Passed, InHand, AcceptedFrames
    <3>3. (Dropped => Dropped') /\ \A u \in Seq(Packet) : InFlight(u)' = InFlight(u)
      BY <3>1 DEF Dropped, InFlight, Carried
    <3>4. QED
      BY <1>2, <3>1, <3>2, <3>3, OrderSame
  <2>5. QED
    BY <2>1, <2>2, <2>3, <2>4 DEF Next, Terminated
<1>3. QED
  BY <1>1, <1>2

(* The invariant the order and the refinement follow from.                 *)
FullInv == TypeInv /\ JobInv /\ PhaseInv /\ OrderInv

(* All the invariants together.                                            *)
LEMMA FullInvHolds == Spec => []FullInv
<1>1. Init => FullInv
  BY TypeInit, JobInit, PhaseInit, OrderInit DEF FullInv
<1>2. FullInv /\ [Next]_vars => FullInv'
  BY TypeStep, JobStep, PhaseStep, OrderStep DEF FullInv
<1>3. QED
  BY <1>1, <1>2, PTL DEF Spec

(* The consumer sees every camera's frames in the order of their numbers.  *)
THEOREM OrderIsKept == Spec => []FramesArriveInOrder
<1>1. FullInv => FramesArriveInOrder
  BY DEF FullInv, OrderInv, FramesArriveInOrder
<1>2. QED
  BY <1>1, FullInvHolds, PTL

-----------------------------------------------------------------------------
(* The refinement of FrameDelivery                                         *)

(* The variables of FrameDelivery, as Ingestion defines them.              *)
captured == [c \in Camera |-> AcceptedFrames(c)]
delivered == [c \in Camera |-> lastProcessed[c] + 1]
stopped == stopEvent \/ cpc = "abort"
closed == cpc \in {"finish", "abort", "joinScheduler", "joinWorkers", "close", "stopped"}

(* A camera whose frame is about to be read has fewer frames in flight     *)
(* than the batch, the queue and the scheduler can hold.                   *)
LEMMA WindowHolds ==
    ASSUME FullInv, cpc # "stopped", NEW c \in Camera
    PROVE  Passed(c) - (lastProcessed[c] + 1) < FrameQueueSize + BatchSize + 2
<1>1. PICK u \in Seq(Packet) : Len(u) <= BatchSize /\ Sound(InFlight(u))
  BY DEF FullInv, OrderInv, FlightInv
<1>2. PICK d \in {0, 1} :
         (d = 1 => Dropped) /\ Exactly(InFlight(u), c, lastProcessed[c], Passed(c) - d)
  BY <1>1 DEF Sound, Flows
<1>3. /\ InFlight(u) \in Seq(Packet) /\ Passed(c) \in Int /\ lastProcessed[c] \in Numbers
  BY FlightTypes DEF FullInv
<1>4. PICK s \in Seq(Packet) : s = InFlight(u)
  BY <1>3
<1> DEFINE b == lastProcessed[c]
           m == Passed(c) - d
<1>5. m \in Int /\ b \in Numbers /\ b \in Int /\ d \in Nat
  BY <1>3 DEF Numbers
<1>6. m - b - 1 <= Len(s)
  <2> HIDE DEF m, b
  <2>1. Exactly(s, c, b, m)
    BY <1>2, <1>4 DEF m, b
  <2>2. QED
    BY <1>5, <2>1, FramesFit
<1>7. Len(s) + d <= BatchSize + FrameQueueSize + 1 /\ Len(s) \in Nat
  <2>1. /\ u \o frameQueue \in Seq(Packet) /\ Len(u \o frameQueue) = Len(u) + Len(frameQueue)
        /\ frameQueue \in Seq(Packet) /\ Len(frameQueue) <= FrameQueueSize
    BY ConcatProperties DEF FullInv, TypeInv, TypeOK
  <2>2. Carried \in Seq(Packet) /\ (Carried = <<>> \/ Carried = <<spacket>>)
    BY DEF Carried, FullInv, TypeInv, HandsOK
  <2>3. Len(Carried) + d <= 1 /\ Len(Carried) \in Nat
    <3>1. Len(<<>>) = 0 /\ Len(<<spacket>>) = 1
      OBVIOUS
    <3>2. Len(Carried) = 0 \/ (Len(Carried) = 1 /\ d = 0)
      BY <1>2, <2>2, <3>1 DEF Dropped, Carried
    <3> DEFINE k == Len(Carried)
    <3> HIDE DEF k
    <3>3. k = 0 \/ (k = 1 /\ d = 0)
      BY <3>2 DEF k
    <3>4. k + d <= 1 /\ k \in Nat
      BY <3>3
    <3>5. QED
      BY <3>4 DEF k
  <2>4. Len(InFlight(u)) = Len(u \o frameQueue) + Len(Carried)
    BY <2>1, <2>2, ConcatProperties DEF InFlight
  <2>5. Len(u) \in Nat /\ Len(frameQueue) \in Nat /\ BatchSize \in Nat /\ FrameQueueSize \in Nat
    BY <2>1, LenProperties, SizesAssumption
  <2>6. Len(s) = Len(u) + Len(frameQueue) + Len(Carried)
    BY <1>4, <2>1, <2>4
  <2> DEFINE i == Len(u)
             j == Len(frameQueue)
             k == Len(Carried)
             l == Len(s)
  <2> HIDE DEF i, j, k, l
  <2>7. /\ i \in Nat /\ j \in Nat /\ k \in Nat /\ l = i + j + k
        /\ i <= BatchSize /\ j <= FrameQueueSize /\ k + d <= 1
    BY <1>1, <2>1, <2>3, <2>5, <2>6 DEF i, j, k, l
  <2>8. l + d <= BatchSize + FrameQueueSize + 1 /\ l \in Nat
    BY <1>5, <2>5, <2>7
  <2>9. QED
    BY <2>8 DEF l
<1>8. BatchSize \in Nat /\ FrameQueueSize \in Nat
  BY SizesAssumption
<1> DEFINE p == Passed(c)
<1>9. p \in Int /\ m = p - d
  BY <1>3
<1> DEFINE k == Len(s)
<1> HIDE DEF b, m, p, k
<1>10. p - (b + 1) < FrameQueueSize + BatchSize + 2
  <2>1. k \in Nat /\ m - b - 1 <= k /\ k + d <= BatchSize + FrameQueueSize + 1
    BY <1>6, <1>7 DEF k
  <2>2. QED
    BY <1>5, <1>8, <1>9, <2>1
<1>11. QED
  BY <1>10 DEF p, b

(* No frame is accepted of a run that ended without a stop.                *)
LEMMA NoReadAfterFinish ==
    ASSUME FullInv, NEW w \in Workers, wpc[w] = "read", closed
    PROVE  stopped
<1>1. cpc # "finish"
  BY RetiredMeansIdle DEF FullInv, PhaseInv, HoldsJob
<1>2. QED
  BY <1>1 DEF FullInv, PhaseInv, Aborted, closed, stopped

(* When the consumer finishes, every frame that was accepted is processed. *)
LEMMA NothingLeft ==
    ASSUME FullInv, cpc = "drained", frameQueue = <<>>, ~ stopEvent
    PROVE  delivered = captured
<1>1. /\ AllRetired /\ spc = "done" /\ batch = <<>>
  BY DEF FullInv, PhaseInv
<1>2. BuffersEmpty /\ \A w \in Workers : wpc[w] # "put"
  BY <1>1, RetiredMeansIdle DEF FullInv, HoldsJob
<1>3. Sound(InFlight(batch)) /\ InFlight(batch) = <<>>
  <2>1. Sound(InFlight(batch))
    BY DEF FullInv, OrderInv, FlightInv, Aborted
  <2>2. QED
    BY <1>1, <2>1 DEF InFlight, Carried
<1>4. ASSUME NEW c \in Camera PROVE lastProcessed[c] + 1 = AcceptedFrames(c)
  <2>1. Passed(c) = AcceptedFrames(c)
    BY <1>2 DEF Passed, InHand, BuffersEmpty
  <2>2. PICK d \in {0, 1} : (d = 1 => Dropped) /\ Exactly(<<>>, c, lastProcessed[c], Passed(c) - d)
    BY <1>3 DEF Sound, Flows
  <2>3. d = 0
    BY <2>2 DEF Dropped
  <2>4. AcceptedFrames(c) \in Nat /\ lastProcessed[c] \in Numbers
    BY FlightTypes DEF FullInv
  <2>5. Exactly(<<>>, c, lastProcessed[c], AcceptedFrames(c))
    <3>1. AcceptedFrames(c) - 0 = AcceptedFrames(c)
      BY <2>4
    <3>2. QED
      BY <2>1, <2>2, <2>3, <3>1
  <2> DEFINE b == lastProcessed[c]
             m == AcceptedFrames(c)
  <2> HIDE DEF b, m
  <2>6. b < m /\ \A n \in Nat : b < n /\ n < m => FALSE
    BY <2>5 DEF Exactly, b, m
  <2>7. b \in Int /\ b + 1 \in Nat /\ m \in Nat
    BY <2>4 DEF Numbers, b, m
  <2>8. b + 1 = m
    BY <2>6, <2>7
  <2>9. QED
    BY <2>8 DEF b, m
<1>5. QED
  BY <1>4 DEF delivered, captured

(* Nothing is captured or delivered at the start.                          *)
LEMMA DeliveryInit == Init => Delivery!Init
<1> SUFFICES ASSUME Init PROVE Delivery!Init
  OBVIOUS
<1>1. \A c \in Camera : AcceptedFrames(c) = 0
  BY BehaviourAssumption DEF Init, AcceptedFrames
<1>2. \A c \in Camera : lastProcessed[c] + 1 = 0
  BY DEF Init
<1>3. QED
  BY <1>1, <1>2 DEF Init, Delivery!Init

(* A step that changes neither the counts nor the state of the stream.     *)
LEMMA DeliveryStutters ==
    ASSUME captured' = captured, delivered' = delivered, stopped' <=> stopped,
           closed' <=> closed
    PROVE  UNCHANGED Delivery!vars
<1>1. stopped' = stopped
  BY DEF stopped
<1>2. closed' = closed
  BY DEF closed
<1>3. QED
  BY <1>1, <1>2 DEF Delivery!vars, captured, delivered, stopped, closed

(* The steps of the workers: a frame that is accepted is captured.         *)
LEMMA DeliveryWorker ==
    ASSUME FullInv, cpc # "stopped", NEW w \in Workers, WorkerStep(w)
    PROVE  Delivery!Next \/ UNCHANGED Delivery!vars
<1>1. /\ UNCHANGED <<cpc, lastProcessed>>
      /\ stopEvent' = stopEvent \/ WorkerStopAll(w)
  BY DEF WorkerStep, WorkerCheckStop, WorkerGet, WorkerGetTimeout, WorkerCheckFinished,
         WorkerClaim, WorkerOpen, WorkerReadRaises, WorkerReadNone, WorkerReadFrame,
         WorkerHandleError, WorkerMarkCompleted, WorkerPut, WorkerPublish,
         WorkerCleanup, WorkerExit, WorkerStopAll, consumerVars
<1>2. delivered' = delivered /\ (closed' <=> closed)
  BY <1>1 DEF delivered, closed
<1>3. CASE WorkerReadFrame(w) /\ ~ BeyondLimit(frameNumber[wcam[w]])
  <2>1. wcam[w] \in Camera /\ wpc[w] = "read" /\ frameNumber[wcam[w]] < SourceFrames
        /\ stopEvent' = stopEvent
    BY <1>3 DEF WorkerReadFrame, WorkerGoto, FullInv, TypeInv, HandsOK, HoldsJob
  <2>2. PICK c \in Camera : c = wcam[w]
    BY <2>1
  <2>3. /\ Passed(c) = frameNumber[c] /\ AcceptedFrames(c) = frameNumber[c]
        /\ AcceptedFrames(c)' = frameNumber[c] + 1
        /\ \A d \in Camera : d # c => AcceptedFrames(d)' = AcceptedFrames(d)
    <3>1. /\ Passed(wcam[w]) = frameNumber[wcam[w]]
          /\ AcceptedFrames(wcam[w]) = frameNumber[wcam[w]]
          /\ AcceptedFrames(wcam[w])' = frameNumber[wcam[w]] + 1
          /\ \A d \in Camera : d # wcam[w] => AcceptedFrames(d)' = AcceptedFrames(d)
      BY <1>3, AcceptedWaits DEF FullInv, OrderInv
    <3>2. wcam' = wcam
      BY <1>3 DEF WorkerReadFrame
    <3>3. AcceptedFrames(wcam[w])' = AcceptedFrames(c)'
      BY <2>2, <3>2 DEF AcceptedFrames
    <3>4. QED
      BY <2>2, <3>1, <3>3
  <2>4. captured[c] < SourceFrames
    BY <2>1, <2>2, <2>3 DEF captured
  <2>5. captured[c] - delivered[c] < FrameQueueSize + BatchSize + 2
    BY <2>3, WindowHolds DEF captured, delivered
  <2>6. captured' = [captured EXCEPT ![c] = captured[c] + 1]
    BY <2>3 DEF captured
  <2>7. closed => stopped
    BY <2>1, NoReadAfterFinish
  <2>8. stopped' = stopped /\ closed' = closed
    BY <1>1, <2>1 DEF stopped, closed
  <2>9. Delivery!Capture(c)
    BY <1>2, <2>4, <2>5, <2>6, <2>7, <2>8
       DEF Delivery!Capture, captured, delivered, stopped, closed
  <2>10. QED
    BY <2>9 DEF Delivery!Next
<1>4. CASE ~ (WorkerReadFrame(w) /\ ~ BeyondLimit(frameNumber[wcam[w]]))
  <2>1. \A c \in Camera : AcceptedFrames(c)' = AcceptedFrames(c)
    BY <1>4, WorkersKeepAccepted DEF FullInv
  <2>2. captured' = captured
    BY <2>1 DEF captured
  <2>3. CASE WorkerStopAll(w)
    <3>1. stopEvent' = TRUE
      BY <2>3 DEF WorkerStopAll
    <3>2. stopped' = TRUE /\ closed' = closed
      BY <1>1, <3>1 DEF stopped, closed
    <3>3. Delivery!Stop
      BY <1>2, <2>2, <3>2 DEF Delivery!Stop, captured, delivered, stopped, closed
    <3>4. QED
      BY <3>3 DEF Delivery!Next
  <2>4. CASE ~ WorkerStopAll(w)
    <3>1. stopped' <=> stopped
      BY <1>1, <2>4 DEF stopped
    <3>2. QED
      BY <1>2, <2>2, <3>1, DeliveryStutters
  <2>5. QED
    BY <2>3, <2>4
<1>5. QED
  BY <1>3, <1>4

(* The steps of the scheduler are no concern of the run.                   *)
LEMMA DeliveryScheduler ==
    ASSUME SchedulerStep
    PROVE  UNCHANGED Delivery!vars
<1>1. UNCHANGED <<frameNumber, lastProcessed, cpc, stopEvent>>
  BY DEF SchedulerStep, SchedulerCheckStop, SchedulerTake, SchedulerFindsNone,
         SchedulerCheckFinished, SchedulerOffer, SchedulerPut, SchedulerPutTimeout,
         SchedulerExit, readerVars, consumerVars
<1>2. QED
  BY <1>1, DeliveryStutters DEF captured, delivered, stopped, closed, AcceptedFrames

(* The steps of the consumer: delivery, failure, the end, and stop().      *)
LEMMA DeliveryConsumer ==
    ASSUME FullInv, ConsumerStep
    PROVE  Delivery!Next \/ UNCHANGED Delivery!vars
<1>1. frameNumber' = frameNumber
  BY DEF ConsumerStep, Start, ConsumerGet, ConsumerGetTimeout, ConsumerCheckFinished,
         ConsumerCheckDrained, ConsumerCollect, ConsumerBatchReady, ConsumerProcess,
         ConsumerRaises, StopSetEvent, StopJoinScheduler, StopJoinWorkers, StopCloseReaders,
         readerVars
<1>2. captured' = captured
  BY <1>1 DEF captured, AcceptedFrames
<1>3. CASE ConsumerProcess
  <2> DEFINE p == Head(batch)
             c == p.camera
             b == lastProcessed[c]
  <2>1. p \in Packet /\ p.frame = b + 1 /\ b + 1 < Passed(c)
    BY <1>3, NextProcessed DEF FullInv
  <2>2. c \in Camera
    BY <2>1 DEF Packet
  <2>3. /\ lastProcessed' = [lastProcessed EXCEPT ![c] = p.frame]
        /\ stopEvent' = stopEvent /\ cpc = "process" /\ cpc' \in {"get", "process"}
        /\ lastProcessed \in [Camera -> Nat \cup {-1}]
    BY <1>3 DEF ConsumerProcess, ConsumerGoto, FullInv, TypeInv, TypeOK
  <2> HIDE DEF p, c, b
  <2>4. delivered[c] < captured[c]
    <3>1. Passed(c) \in Int /\ AcceptedFrames(c) \in Nat /\ Passed(c) <= AcceptedFrames(c)
      <4>1. AcceptedFrames(c) \in Nat
        BY <2>2, FlightTypes DEF FullInv
      <4>2. QED
        BY <4>1 DEF Passed
    <3>2. b \in Int
      BY <2>2, <2>3 DEF b
    <3>3. b + 1 < AcceptedFrames(c)
      BY <2>1, <3>1, <3>2
    <3>4. QED
      BY <2>2, <3>3 DEF delivered, captured, b
  <2>5. delivered' = [delivered EXCEPT ![c] = delivered[c] + 1]
    <3>1. lastProcessed'[c] = b + 1 /\ \A d \in Camera : d # c => lastProcessed'[d] = lastProcessed[d]
      BY <2>1, <2>2, <2>3
    <3>2. delivered[c] = b + 1
      BY <2>2 DEF delivered, b
    <3>3. QED
      BY <2>2, <3>1, <3>2 DEF delivered
  <2>6. ~ closed /\ ~ closed' /\ stopped' = stopped /\ closed' = closed
    BY <2>3 DEF closed, stopped
  <2>7. PICK d \in Camera : d = c
    BY <2>2
  <2>8. Delivery!Deliver(d)
    BY <1>2, <2>4, <2>5, <2>6, <2>7
       DEF Delivery!Deliver, captured, delivered, stopped, closed
  <2>9. QED
    BY <2>8 DEF Delivery!Next
<1>4. CASE ConsumerCheckDrained
  <2>1. /\ UNCHANGED <<lastProcessed, stopEvent>> /\ cpc = "drained"
        /\ cpc' = IF frameQueue = <<>> THEN "finish" ELSE "get"
    BY <1>4 DEF ConsumerCheckDrained, ConsumerGoto
  <2>2. delivered' = delivered /\ (stopped' <=> stopped)
    BY <2>1 DEF delivered, stopped
  <2>3. CASE frameQueue = <<>>
    <3>1. ~ closed /\ closed' = TRUE /\ stopped' = stopped
      BY <2>1, <2>3 DEF closed, stopped
    <3>2. stopped \/ delivered = captured
      BY <2>1, <2>3, NothingLeft DEF stopped
    <3>3. Delivery!Close
      BY <1>2, <2>2, <3>1, <3>2 DEF Delivery!Close, captured, delivered, stopped, closed
    <3>4. QED
      BY <3>3 DEF Delivery!Next
  <2>4. CASE frameQueue # <<>>
    <3>1. closed' <=> closed
      BY <2>1, <2>4 DEF closed
    <3>2. QED
      BY <1>2, <2>2, <3>1, DeliveryStutters
  <2>5. QED
    BY <2>3, <2>4
<1>5. CASE ConsumerRaises \/ StopSetEvent
  <2>1. /\ lastProcessed' = lastProcessed
        /\ stopEvent' = TRUE \/ cpc' = "abort"
        /\ cpc' \in {"abort", "joinScheduler"}
    BY <1>5 DEF ConsumerRaises, StopSetEvent, ConsumerGoto
  <2>2. delivered' = delivered
    BY <2>1 DEF delivered
  <2>3. stopped' = TRUE /\ closed' = TRUE
    BY <2>1 DEF stopped, closed
  <2>4. Delivery!Stop
    BY <1>2, <2>2, <2>3 DEF Delivery!Stop, captured, delivered, stopped, closed
  <2>5. QED
    BY <2>4 DEF Delivery!Next
<1>6. CASE ~ (ConsumerProcess \/ ConsumerCheckDrained \/ ConsumerRaises \/ StopSetEvent)
  <2>1. /\ UNCHANGED <<lastProcessed, stopEvent>>
        /\ closed' <=> closed
        /\ cpc # "abort" /\ cpc' # "abort"
    BY <1>6
       DEF ConsumerStep, Start, ConsumerGet, ConsumerGetTimeout, ConsumerCheckFinished,
         ConsumerCollect, ConsumerBatchReady, StopJoinScheduler, StopJoinWorkers,
         StopCloseReaders, ConsumerGoto, closed
  <2>2. delivered' = delivered /\ (stopped' <=> stopped)
    BY <2>1 DEF delivered, stopped
  <2>3. QED
    BY <1>2, <2>1, <2>2, DeliveryStutters
<1>7. QED
  BY <1>3, <1>4, <1>5, <1>6

(* If its joins succeed, ingestion delivers every camera's frames in their *)
(* order, without gap or duplicate, holds back no more than its queues can *)
(* hold, and is left in good order only when nothing is left of it.        *)
THEOREM IngestionDelivers == JoinTimeouts = FALSE => (Spec => ImplementsDelivery)
<1> SUFFICES ASSUME JoinTimeouts = FALSE PROVE Spec => ImplementsDelivery
  OBVIOUS
<1>1. Init => StopInv
  BY DEF Init, StopInv
<1>2. FullInv /\ StopInv /\ [Next]_vars => StopInv'
  BY StopStep DEF FullInv
<1>3. Spec => [](FullInv /\ StopInv)
  BY <1>1, <1>2, FullInvHolds, PTL DEF Spec
<1>4. FullInv /\ StopInv /\ [Next]_vars => [Delivery!Next]_(Delivery!vars)
  <2> SUFFICES ASSUME FullInv, StopInv, [Next]_vars
               PROVE  Delivery!Next \/ UNCHANGED Delivery!vars
    OBVIOUS
  <2>1. ASSUME NEW w \in Workers, WorkerStep(w)
        PROVE  Delivery!Next \/ UNCHANGED Delivery!vars
    <3>1. wpc[w] # "done"
      BY <2>1
         DEF WorkerStep, WorkerCheckStop, WorkerGet, WorkerGetTimeout, WorkerCheckFinished,
           WorkerClaim, WorkerOpen, WorkerReadRaises, WorkerReadNone, WorkerReadFrame,
           WorkerHandleError, WorkerStopAll, WorkerMarkCompleted, WorkerPut, WorkerPublish,
           WorkerCleanup, WorkerExit, WorkerGoto
    <3>2. cpc # "stopped"
      BY <3>1 DEF StopInv, ThreadsExited
    <3>3. QED
      BY <2>1, <3>2, DeliveryWorker
  <2>2. CASE SchedulerStep
    BY <2>2, DeliveryScheduler
  <2>3. CASE ConsumerStep
    BY <2>3, DeliveryConsumer
  <2>4. CASE UNCHANGED vars
    <3>1. UNCHANGED <<frameNumber, lastProcessed, cpc, stopEvent>>
      BY <2>4 DEF vars, readerVars, consumerVars
    <3>2. QED
      BY <3>1, DeliveryStutters DEF captured, delivered, stopped, closed, AcceptedFrames
  <2>5. QED
    BY <2>1, <2>2, <2>3, <2>4 DEF Next, Terminated
<1>5. Init => Delivery!Init
  BY DeliveryInit
<1>6. QED
  BY <1>3, <1>4, <1>5, PTL DEF Spec, ImplementsDelivery, Delivery!Spec
=============================================================================
