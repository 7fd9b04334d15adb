----------------------------- MODULE Ingestion -----------------------------
(***************************************************************************)
(* MultiCameraIngestionManager (src/ingestion_manager.py) with the camera  *)
(* readers it owns and the loop of run_pipeline that consumes its frames.  *)
(*                                                                         *)
(* A fixed pool of worker threads takes camera ids from camera_task_queue, *)
(* reads one frame of that camera and puts it into the camera's own        *)
(* bounded buffer.  One scheduler thread takes frames from the buffers in  *)
(* round-robin order, re-enqueues the camera, and puts the frame into the  *)
(* bounded frame_queue, from which the main thread takes batches.          *)
(*                                                                         *)
(* One action is one critical section of the condition lock, one operation *)
(* of a queue or one read of the stop event: between two of them any other *)
(* thread may run.  Cameras are named by their position in camera_order.   *)
(***************************************************************************)
EXTENDS Integers, Sequences, FiniteSets

CONSTANTS
    CameraCount,        \* number of enabled cameras
    Workers,            \* the worker threads
    FrameQueueSize,     \* ingestion.frame_queue_size
    BufferSize,         \* ingestion.per_camera_buffer_size
    BatchSize,          \* detection.batch.max_size, 1 when batching is off
    FrameLimit,         \* input.max_frames_per_camera, or Unlimited (null)
    Unlimited,
    SourceFrames,       \* bound: a source yields at most this many frames
    FaultyCameras,      \* bound: the cameras whose reads may raise
    StopOnCameraError,  \* ingestion.stop_on_camera_error
    ConsumerFails,      \* bound: whether processing a frame may raise
    JoinTimeouts        \* bound: whether the joins of stop() may time out

Camera == 0 .. CameraCount - 1
NoCamera == -1

ASSUME SizesAssumption ==
    /\ CameraCount \in Nat \ {0}
    /\ IsFiniteSet(Workers) /\ Workers # {}
    /\ FrameQueueSize \in Nat \ {0}
    /\ BufferSize \in Nat \ {0}
    /\ BatchSize \in Nat \ {0}
    /\ SourceFrames \in Nat

ASSUME BehaviourAssumption ==
    /\ Unlimited \notin Nat
    /\ FrameLimit \in (Nat \ {0}) \cup {Unlimited}
    /\ FaultyCameras \subseteq Camera
    /\ StopOnCameraError \in BOOLEAN
    /\ ConsumerFails \in BOOLEAN
    /\ JoinTimeouts \in BOOLEAN

VARIABLES
    openReaders,        \* cameras whose VideoCapture is open
    endedReaders,       \* cameras whose reader has seen the end of the source
    frameNumber,        \* the readers' next frame number
    taskQueue,          \* camera_task_queue
    buffer,             \* per_camera_buffers: the frame numbers held
    frameQueue,         \* frame_queue
    completedCameras,   \* _completed_cameras
    failedCameras,      \* _failed_cameras
    taskEnqueued,       \* cameras whose task_enqueued flag is set
    readInFlight,       \* cameras whose read_in_flight flag is set
    stopEvent,          \* _stop_event
    workersFinished,    \* _workers_finished
    schedulerFinished,  \* _scheduler_finished
    schedulerIndex,     \* _scheduler_index
    wpc, wcam, wframe,  \* each worker: where it is, its camera, its frame
    spc, spacket,       \* the scheduler: where it is, the frame it holds
    cpc, batch,         \* the consumer: where it is, the batch it holds
    lastProcessed,      \* last_processed_frame_by_camera
    orderViolations,    \* frame_order_violations
    abandoned           \* history: the workers that outlived their join in stop()

readerVars == <<openReaders, endedReaders, frameNumber>>
flagVars == <<completedCameras, failedCameras, taskEnqueued, readInFlight>>
workerVars == <<wpc, wcam, wframe, workersFinished>>
schedulerVars == <<spc, spacket, schedulerIndex, schedulerFinished>>
consumerVars == <<cpc, batch, lastProcessed, orderViolations, abandoned>>
vars == <<readerVars, flagVars, workerVars, schedulerVars, consumerVars,
          taskQueue, buffer, frameQueue, stopEvent>>

Packet == [camera : Camera, frame : Nat]
NoPacket == [camera |-> NoCamera, frame |-> 0]
CameraOrder == [i \in 1 .. CameraCount |-> i - 1]

WorkerPc == {"loop", "get", "empty", "claim", "open", "read", "raised", "halt",
             "ended", "put", "publish", "cleanup", "exit", "done"}
SchedulerPc == {"loop", "next", "idle", "offer", "put", "exit", "done"}
ConsumerPc == {"start", "get", "collect", "process", "finished", "drained",
               "finish", "abort", "joinScheduler", "joinWorkers", "close", "stopped"}

TypeOK ==
    /\ openReaders \subseteq Camera
    /\ endedReaders \subseteq Camera
    /\ frameNumber \in [Camera -> Nat]
    /\ taskQueue \in Seq(Camera)
    /\ buffer \in [Camera -> Seq(Nat)]
    /\ frameQueue \in Seq(Packet) /\ Len(frameQueue) <= FrameQueueSize
    /\ completedCameras \subseteq Camera
    /\ failedCameras \subseteq Camera
    /\ taskEnqueued \subseteq Camera
    /\ readInFlight \subseteq Camera
    /\ stopEvent \in BOOLEAN
    /\ workersFinished \in Nat
    /\ schedulerFinished \in BOOLEAN
    /\ schedulerIndex \in Camera
    /\ wpc \in [Workers -> WorkerPc]
    /\ wcam \in [Workers -> Camera \cup {NoCamera}]
    /\ wframe \in [Workers -> Nat]
    /\ spc \in SchedulerPc
    /\ spacket \in Packet \cup {NoPacket}
    /\ cpc \in ConsumerPc
    /\ batch \in Seq(Packet) /\ Len(batch) <= BatchSize
    /\ lastProcessed \in [Camera -> Nat \cup {-1}]
    /\ orderViolations \in Nat
    /\ abandoned \subseteq Workers

Init ==
    /\ openReaders = {} /\ endedReaders = {}
    /\ frameNumber = [c \in Camera |-> 0]
    /\ taskQueue = <<>> /\ frameQueue = <<>>
    /\ buffer = [c \in Camera |-> <<>>]
    /\ completedCameras = {} /\ failedCameras = {}
    /\ taskEnqueued = {} /\ readInFlight = {}
    /\ stopEvent = FALSE
    /\ workersFinished = 0 /\ schedulerFinished = FALSE /\ schedulerIndex = 0
    /\ wpc = [w \in Workers |-> "loop"]
    /\ wcam = [w \in Workers |-> NoCamera]
    /\ wframe = [w \in Workers |-> 0]
    /\ spc = "loop" /\ spacket = NoPacket
    /\ cpc = "start" /\ batch = <<>>
    /\ lastProcessed = [c \in Camera |-> -1]
    /\ orderViolations = 0 /\ abandoned = {}

-----------------------------------------------------------------------------
(* Conditions read under the lock                                          *)

(* Faulty variant: failed cameras are not counted.                         *)
FaultyAllCamerasDone == Cardinality(completedCameras) = CameraCount

AllCamerasDone ==
    Cardinality(completedCameras) + Cardinality(failedCameras) = CameraCount

BuffersEmpty == \A c \in Camera : buffer[c] = <<>>

(* Faulty variant: idle flags are taken for the end of all cameras.        *)
FaultyAllCameraReadsFinished ==
    taskQueue = <<>> /\ taskEnqueued = {} /\ readInFlight = {}

(* _all_camera_reads_finished                                              *)
AllCameraReadsFinished ==
    /\ AllCamerasDone
    /\ taskQueue = <<>>
    /\ taskEnqueued = {} /\ readInFlight = {}

(* _all_cameras_done_and_buffers_empty                                     *)
AllCamerasDoneAndBuffersEmpty == AllCamerasDone /\ BuffersEmpty

(* Faulty variant: the scheduler may still hold a frame.                   *)
FaultyIsFinished ==
    AllCamerasDone /\ BuffersEmpty /\ workersFinished = Cardinality(Workers)

(* is_finished                                                             *)
IsFinished ==
    /\ AllCamerasDone /\ BuffersEmpty
    /\ workersFinished = Cardinality(Workers)
    /\ schedulerFinished

(* Faulty variant: the two flags of the camera are not looked at.          *)
FaultyMayScheduleRead(c, remaining) ==
    c \notin completedCameras \cup failedCameras /\ Len(remaining) < BufferSize

(* The early returns of _schedule_read_if_possible; a read is scheduled only
   in the critical section that took a frame of c, so the buffer is the one
   that remains. *)
MayScheduleRead(c, remaining) ==
    /\ c \notin completedCameras \cup failedCameras
    /\ c \notin taskEnqueued /\ c \notin readInFlight
    /\ Len(remaining) < BufferSize

(* Whether a dequeued job still finds its camera free to be read.          *)
Readable(c) == c \notin completedCameras \cup failedCameras \cup readInFlight

(* The frame-count limit the worker applies to a frame it has read.        *)
BeyondLimit(n) == FrameLimit # Unlimited /\ n >= FrameLimit

(* How far camera c is from the round-robin position i.                    *)
Distance(i, c) == IF c >= i THEN c - i ELSE c + CameraCount - i

-----------------------------------------------------------------------------
(* Faulty variant: the task queue is primed twice.                         *)
FaultyStart ==
    /\ cpc = "start"
    /\ taskQueue' = taskQueue \o CameraOrder \o CameraOrder
    /\ taskEnqueued' = Camera
    /\ cpc' = "get"
    /\ UNCHANGED <<readerVars, completedCameras, failedCameras, readInFlight, workerVars,
                   schedulerVars, batch, lastProcessed, orderViolations, abandoned, buffer,
                   frameQueue, stopEvent>>

(* start: the threads run already while the first jobs are put, under the
   lock; no flag is set yet, so that every camera is enqueued. *)
Start ==
    /\ cpc = "start"
    /\ taskQueue' = taskQueue \o CameraOrder
    /\ taskEnqueued' = Camera
    /\ cpc' = "get"
    /\ UNCHANGED <<readerVars, completedCameras, failedCameras, readInFlight, workerVars,
                   schedulerVars, batch, lastProcessed, orderViolations, abandoned, buffer,
                   frameQueue, stopEvent>>

-----------------------------------------------------------------------------
(* _worker_loop                                                            *)

WorkerGoto(w, from, to) ==
    /\ wpc[w] = from
    /\ wpc' = [wpc EXCEPT ![w] = to]

(* Faulty variant: the stop event is looked at only when the queue is empty. *)
FaultyWorkerCheckStop(w) ==
    /\ WorkerGoto(w, "loop", IF stopEvent /\ taskQueue = <<>> THEN "exit" ELSE "get")
    /\ UNCHANGED <<readerVars, flagVars, wcam, wframe, workersFinished, schedulerVars,
                   consumerVars, taskQueue, buffer, frameQueue, stopEvent>>

WorkerCheckStop(w) ==
    /\ WorkerGoto(w, "loop", IF stopEvent THEN "exit" ELSE "get")
    /\ UNCHANGED <<readerVars, flagVars, wcam, wframe, workersFinished, schedulerVars,
                   consumerVars, taskQueue, buffer, frameQueue, stopEvent>>

WorkerGet(w) ==
    /\ WorkerGoto(w, "get", "claim")
    /\ taskQueue # <<>>
    /\ wcam' = [wcam EXCEPT ![w] = Head(taskQueue)]
    /\ taskQueue' = Tail(taskQueue)
    /\ UNCHANGED <<readerVars, flagVars, wframe, workersFinished, schedulerVars,
                   consumerVars, buffer, frameQueue, stopEvent>>

WorkerGetTimeout(w) ==
    /\ WorkerGoto(w, "get", "empty")
    /\ taskQueue = <<>>
    /\ UNCHANGED <<readerVars, flagVars, wcam, wframe, workersFinished, schedulerVars,
                   consumerVars, taskQueue, buffer, frameQueue, stopEvent>>

WorkerCheckFinished(w) ==
    /\ WorkerGoto(w, "empty", IF AllCameraReadsFinished THEN "exit" ELSE "loop")
    /\ UNCHANGED <<readerVars, flagVars, wcam, wframe, workersFinished, schedulerVars,
                   consumerVars, taskQueue, buffer, frameQueue, stopEvent>>

WorkerClaim(w) ==
    LET c == wcam[w] IN
    /\ WorkerGoto(w, "claim", IF Readable(c) THEN "open" ELSE "cleanup")
    /\ taskEnqueued' = taskEnqueued \ {c}
    /\ readInFlight' = IF Readable(c) THEN readInFlight \cup {c} ELSE readInFlight
    /\ UNCHANGED <<readerVars, completedCameras, failedCameras, wcam, wframe,
                   workersFinished, schedulerVars, consumerVars, taskQueue, buffer,
                   frameQueue, stopEvent>>

(* Faulty variant: every read opens the capture anew.                      *)
FaultyWorkerOpen(w) ==
    LET c == wcam[w] IN
    /\ WorkerGoto(w, "open", "read")
    /\ openReaders' = openReaders \cup {c}
    /\ endedReaders' = endedReaders \ {c}
    /\ frameNumber' = [frameNumber EXCEPT ![c] = 0]
    /\ UNCHANGED <<flagVars, wcam, wframe, workersFinished, schedulerVars, consumerVars,
                   taskQueue, buffer, frameQueue, stopEvent>>

(* VideoCameraReader.open, the first half of read_next_frame: an open capture
   is kept, a missing one is opened and its numbering restarts. *)
WorkerOpen(w) ==
    LET c == wcam[w] IN
    /\ WorkerGoto(w, "open", "read")
    /\ openReaders' = openReaders \cup {c}
    /\ IF c \in openReaders
       THEN UNCHANGED <<endedReaders, frameNumber>>
       ELSE /\ endedReaders' = endedReaders \ {c}
            /\ frameNumber' = [frameNumber EXCEPT ![c] = 0]
    /\ UNCHANGED <<flagVars, wcam, wframe, workersFinished, schedulerVars, consumerVars,
                   taskQueue, buffer, frameQueue, stopEvent>>

(* open() or read() raises.  A capture that stop() has closed between the two
   halves makes the second one raise as well. *)
WorkerReadRaises(w) ==
    LET c == wcam[w] IN
    /\ \/ WorkerGoto(w, "open", "raised") /\ c \in FaultyCameras \ openReaders
       \/ WorkerGoto(w, "read", "raised") /\ c \in FaultyCameras \ endedReaders
       \/ WorkerGoto(w, "read", "raised") /\ c \notin openReaders
    /\ UNCHANGED <<readerVars, flagVars, wcam, wframe, workersFinished, schedulerVars,
                   consumerVars, taskQueue, buffer, frameQueue, stopEvent>>

(* The source ends here or had ended before, or its capture was released
   during the read: read_next_frame returns None. *)
WorkerReadNone(w) ==
    /\ WorkerGoto(w, "read", "ended")
    /\ endedReaders' = endedReaders \cup {wcam[w]}
    /\ UNCHANGED <<openReaders, frameNumber, flagVars, wcam, wframe, workersFinished,
                   schedulerVars, consumerVars, taskQueue, buffer, frameQueue, stopEvent>>

WorkerReadFrame(w) ==
    LET c == wcam[w]
        n == frameNumber[c] IN
    /\ WorkerGoto(w, "read", IF BeyondLimit(n) THEN "ended" ELSE "put")
    /\ c \in openReaders /\ c \notin endedReaders
    /\ n < SourceFrames
    /\ frameNumber' = [frameNumber EXCEPT ![c] = n + 1]
    /\ wframe' = [wframe EXCEPT ![w] = IF BeyondLimit(n) THEN 0 ELSE n]
    /\ UNCHANGED <<openReaders, endedReaders, flagVars, wcam, workersFinished,
                   schedulerVars, consumerVars, taskQueue, buffer, frameQueue, stopEvent>>

(* _handle_camera_error                                                    *)
WorkerHandleError(w) ==
    LET c == wcam[w] IN
    /\ WorkerGoto(w, "raised", IF StopOnCameraError THEN "halt" ELSE "cleanup")
    /\ failedCameras' = failedCameras \cup {c}
    /\ taskEnqueued' = taskEnqueued \ {c}
    /\ readInFlight' = readInFlight \ {c}
    /\ UNCHANGED <<readerVars, completedCameras, wcam, wframe, workersFinished,
                   schedulerVars, consumerVars, taskQueue, buffer, frameQueue, stopEvent>>

WorkerStopAll(w) ==
    /\ WorkerGoto(w, "halt", "cleanup")
    /\ stopEvent' = TRUE
    /\ UNCHANGED <<readerVars, flagVars, wcam, wframe, workersFinished, schedulerVars,
                   consumerVars, taskQueue, buffer, frameQueue>>

(* _mark_camera_completed                                                  *)
WorkerMarkCompleted(w) ==
    LET c == wcam[w] IN
    /\ WorkerGoto(w, "ended", "cleanup")
    /\ completedCameras' = completedCameras \cup {c}
    /\ taskEnqueued' = taskEnqueued \ {c}
    /\ readInFlight' = readInFlight \ {c}
    /\ UNCHANGED <<readerVars, failedCameras, wcam, wframe, workersFinished, schedulerVars,
                   consumerVars, taskQueue, buffer, frameQueue, stopEvent>>

(* buffer.put, outside the lock: blocks while the camera's buffer is full. *)
WorkerPut(w) ==
    LET c == wcam[w] IN
    /\ WorkerGoto(w, "put", "publish")
    /\ Len(buffer[c]) < BufferSize
    /\ buffer' = [buffer EXCEPT ![c] = Append(@, wframe[w])]
    /\ wframe' = [wframe EXCEPT ![w] = 0]
    /\ UNCHANGED <<readerVars, flagVars, wcam, workersFinished, schedulerVars,
                   consumerVars, taskQueue, frameQueue, stopEvent>>

(* Faulty variant: the next read is enqueued as soon as the buffer has room. *)
FaultyWorkerPublish(w) ==
    LET c == wcam[w] IN
    /\ WorkerGoto(w, "publish", "cleanup")
    /\ readInFlight' = readInFlight \ {c}
    /\ IF c \notin taskEnqueued /\ Len(buffer[c]) < BufferSize
       THEN taskQueue' = Append(taskQueue, c) /\ taskEnqueued' = taskEnqueued \cup {c}
       ELSE UNCHANGED <<taskQueue, taskEnqueued>>
    /\ UNCHANGED <<readerVars, completedCameras, failedCameras, wcam, wframe,
                   workersFinished, schedulerVars, consumerVars, buffer, frameQueue, stopEvent>>

WorkerPublish(w) ==
    /\ WorkerGoto(w, "publish", "cleanup")
    /\ readInFlight' = readInFlight \ {wcam[w]}
    /\ UNCHANGED <<readerVars, completedCameras, failedCameras, taskEnqueued, wcam, wframe,
                   workersFinished, schedulerVars, consumerVars, taskQueue, buffer,
                   frameQueue, stopEvent>>

(* The finally clause of a job: it clears the flag whoever has set it.     *)
WorkerCleanup(w) ==
    /\ WorkerGoto(w, "cleanup", "loop")
    /\ readInFlight' = readInFlight \ {wcam[w]}
    /\ wcam' = [wcam EXCEPT ![w] = NoCamera]
    /\ UNCHANGED <<readerVars, completedCameras, failedCameras, taskEnqueued, wframe,
                   workersFinished, schedulerVars, consumerVars, taskQueue, buffer,
                   frameQueue, stopEvent>>

WorkerExit(w) ==
    /\ WorkerGoto(w, "exit", "done")
    /\ workersFinished' = workersFinished + 1
    /\ UNCHANGED <<readerVars, flagVars, wcam, wframe, schedulerVars, consumerVars,
                   taskQueue, buffer, frameQueue, stopEvent>>

WorkerStep(w) ==
    \/ WorkerCheckStop(w) \/ WorkerGet(w) \/ WorkerGetTimeout(w) \/ WorkerCheckFinished(w)
    \/ WorkerClaim(w) \/ WorkerOpen(w) \/ WorkerReadRaises(w) \/ WorkerReadNone(w)
    \/ WorkerReadFrame(w) \/ WorkerHandleError(w) \/ WorkerStopAll(w)
    \/ WorkerMarkCompleted(w) \/ WorkerPut(w) \/ WorkerPublish(w) \/ WorkerCleanup(w)
    \/ WorkerExit(w)

-----------------------------------------------------------------------------
(* _scheduler_loop                                                         *)

SchedulerGoto(from, to) == spc = from /\ spc' = to

SchedulerCheckStop ==
    /\ SchedulerGoto("loop", IF stopEvent THEN "exit" ELSE "next")
    /\ UNCHANGED <<readerVars, flagVars, workerVars, spacket, schedulerIndex,
                   schedulerFinished, consumerVars, taskQueue, buffer, frameQueue, stopEvent>>

(* The camera _next_scheduled_packet takes a frame from: the first one at or
   after the round-robin position whose buffer holds a frame. *)
FirstReady(c) ==
    /\ buffer[c] # <<>>
    /\ \A d \in Camera : buffer[d] # <<>> =>
          Distance(schedulerIndex, c) <= Distance(schedulerIndex, d)

(* Mutant: no advance at all.                                              *)
StuckIndexAfter(c) == c

IndexAfter(c) == IF c + 1 = CameraCount THEN 0 ELSE c + 1

(* _next_scheduled_packet finds a frame and re-enqueues the camera's read. *)
SchedulerTake(c) ==
    /\ SchedulerGoto("next", "offer")
    /\ FirstReady(c)
    /\ spacket' = [camera |-> c, frame |-> Head(buffer[c])]
    /\ buffer' = [buffer EXCEPT ![c] = Tail(@)]
    /\ schedulerIndex' = IndexAfter(c)
    /\ IF MayScheduleRead(c, Tail(buffer[c]))
       THEN /\ taskQueue' = Append(taskQueue, c)
            /\ taskEnqueued' = taskEnqueued \cup {c}
       ELSE UNCHANGED <<taskQueue, taskEnqueued>>
    /\ UNCHANGED <<readerVars, completedCameras, failedCameras, readInFlight, workerVars,
                   schedulerFinished, consumerVars, frameQueue, stopEvent>>

SchedulerFindsNone ==
    /\ SchedulerGoto("next", "idle")
    /\ BuffersEmpty
    /\ UNCHANGED <<readerVars, flagVars, workerVars, spacket, schedulerIndex,
                   schedulerFinished, consumerVars, taskQueue, buffer, frameQueue, stopEvent>>

SchedulerCheckFinished ==
    /\ SchedulerGoto("idle", IF AllCamerasDoneAndBuffersEmpty THEN "exit" ELSE "loop")
    /\ UNCHANGED <<readerVars, flagVars, workerVars, spacket, schedulerIndex,
                   schedulerFinished, consumerVars, taskQueue, buffer, frameQueue, stopEvent>>

(* Faulty variant: a frame is offered for as long as the queue is full.    *)
FaultySchedulerOffer ==
    /\ SchedulerGoto("offer", "put")
    /\ UNCHANGED <<readerVars, flagVars, workerVars, spacket, schedulerIndex,
                   schedulerFinished, consumerVars, taskQueue, buffer, frameQueue, stopEvent>>

(* _enqueue_packet: once the stop event is seen the frame is dropped.      *)
SchedulerOffer ==
    /\ SchedulerGoto("offer", IF stopEvent THEN "exit" ELSE "put")
    /\ spacket' = IF stopEvent THEN NoPacket ELSE spacket
    /\ UNCHANGED <<readerVars, flagVars, workerVars, schedulerIndex, schedulerFinished,
                   consumerVars, taskQueue, buffer, frameQueue, stopEvent>>

SchedulerPut ==
    /\ SchedulerGoto("put", "loop")
    /\ Len(frameQueue) < FrameQueueSize
    /\ frameQueue' = Append(frameQueue, spacket)
    /\ spacket' = NoPacket
    /\ UNCHANGED <<readerVars, flagVars, workerVars, schedulerIndex, schedulerFinished,
                   consumerVars, taskQueue, buffer, stopEvent>>

(* Faulty variant: a frame that finds the queue full is dropped.           *)
FaultySchedulerPutTimeout ==
    /\ SchedulerGoto("put", "loop")
    /\ Len(frameQueue) = FrameQueueSize
    /\ spacket' = NoPacket
    /\ UNCHANGED <<readerVars, flagVars, workerVars, schedulerIndex, schedulerFinished,
                   consumerVars, taskQueue, buffer, frameQueue, stopEvent>>

SchedulerPutTimeout ==
    /\ SchedulerGoto("put", "offer")
    /\ Len(frameQueue) = FrameQueueSize
    /\ UNCHANGED <<readerVars, flagVars, workerVars, spacket, schedulerIndex,
                   schedulerFinished, consumerVars, taskQueue, buffer, frameQueue, stopEvent>>

SchedulerExit ==
    /\ SchedulerGoto("exit", "done")
    /\ schedulerFinished' = TRUE
    /\ UNCHANGED <<readerVars, flagVars, workerVars, spacket, schedulerIndex,
                   consumerVars, taskQueue, buffer, frameQueue, stopEvent>>

SchedulerStep ==
    \/ SchedulerCheckStop \/ (\E c \in Camera : SchedulerTake(c)) \/ SchedulerFindsNone
    \/ SchedulerCheckFinished \/ SchedulerOffer \/ SchedulerPut \/ SchedulerPutTimeout
    \/ SchedulerExit

-----------------------------------------------------------------------------
(* The consumer: the loop of run_pipeline, then stop()                     *)

ConsumerGoto(from, to) == cpc = from /\ cpc' = to

ConsumerGet ==
    /\ ConsumerGoto("get", "collect")
    /\ frameQueue # <<>>
    /\ batch' = <<Head(frameQueue)>>
    /\ frameQueue' = Tail(frameQueue)
    /\ UNCHANGED <<readerVars, flagVars, workerVars, schedulerVars, lastProcessed,
                   orderViolations, abandoned, taskQueue, buffer, stopEvent>>

ConsumerGetTimeout ==
    /\ ConsumerGoto("get", "finished")
    /\ frameQueue = <<>>
    /\ UNCHANGED <<readerVars, flagVars, workerVars, schedulerVars, batch, lastProcessed,
                   orderViolations, abandoned, taskQueue, buffer, frameQueue, stopEvent>>

ConsumerCheckFinished ==
    /\ ConsumerGoto("finished", IF IsFinished THEN "drained" ELSE "get")
    /\ UNCHANGED <<readerVars, flagVars, workerVars, schedulerVars, batch, lastProcessed,
                   orderViolations, abandoned, taskQueue, buffer, frameQueue, stopEvent>>

ConsumerCheckDrained ==
    /\ ConsumerGoto("drained", IF frameQueue = <<>> THEN "finish" ELSE "get")
    /\ UNCHANGED <<readerVars, flagVars, workerVars, schedulerVars, batch, lastProcessed,
                   orderViolations, abandoned, taskQueue, buffer, frameQueue, stopEvent>>

(* The batch grows until it is full, the queue is empty or its time is up. *)
ConsumerCollect ==
    /\ ConsumerGoto("collect", "collect")
    /\ Len(batch) < BatchSize /\ frameQueue # <<>>
    /\ batch' = Append(batch, Head(frameQueue))
    /\ frameQueue' = Tail(frameQueue)
    /\ UNCHANGED <<readerVars, flagVars, workerVars, schedulerVars, lastProcessed,
                   orderViolations, abandoned, taskQueue, buffer, stopEvent>>

ConsumerBatchReady ==
    /\ ConsumerGoto("collect", "process")
    /\ UNCHANGED <<readerVars, flagVars, workerVars, schedulerVars, batch, lastProcessed,
                   orderViolations, abandoned, taskQueue, buffer, frameQueue, stopEvent>>

ConsumerProcess ==
    LET p == Head(batch) IN
    /\ ConsumerGoto("process", IF Len(batch) = 1 THEN "get" ELSE "process")
    /\ orderViolations' = IF p.frame <= lastProcessed[p.camera]
                          THEN orderViolations + 1 ELSE orderViolations
    /\ lastProcessed' = [lastProcessed EXCEPT ![p.camera] = p.frame]
    /\ batch' = Tail(batch)
    /\ UNCHANGED <<readerVars, flagVars, workerVars, schedulerVars, abandoned, taskQueue,
                   buffer, frameQueue, stopEvent>>

(* Detection, tracking, evidence or enrichment raises.                     *)
ConsumerRaises ==
    /\ ConsumerFails
    /\ ConsumerGoto("process", "abort")
    /\ batch' = <<>>
    /\ UNCHANGED <<readerVars, flagVars, workerVars, schedulerVars, lastProcessed,
                   orderViolations, abandoned, taskQueue, buffer, frameQueue, stopEvent>>

StopSetEvent ==
    /\ cpc \in {"finish", "abort"}
    /\ cpc' = "joinScheduler"
    /\ stopEvent' = TRUE
    /\ UNCHANGED <<readerVars, flagVars, workerVars, schedulerVars, batch, lastProcessed,
                   orderViolations, abandoned, taskQueue, buffer, frameQueue>>

StopJoinScheduler ==
    /\ ConsumerGoto("joinScheduler", "joinWorkers")
    /\ spc = "done" \/ JoinTimeouts
    /\ UNCHANGED <<readerVars, flagVars, workerVars, schedulerVars, batch, lastProcessed,
                   orderViolations, abandoned, taskQueue, buffer, frameQueue, stopEvent>>

(* Each worker is joined in turn; the joins that time out are not told from
   those that succeed, and the worker goes on. *)
StopJoinWorkers ==
    /\ ConsumerGoto("joinWorkers", "close")
    /\ (\A w \in Workers : wpc[w] = "done") \/ JoinTimeouts
    /\ abandoned' = {w \in Workers : wpc[w] # "done"}
    /\ UNCHANGED <<readerVars, flagVars, workerVars, schedulerVars, batch, lastProcessed,
                   orderViolations, taskQueue, buffer, frameQueue, stopEvent>>

(* reader.close() of every camera.                                         *)
StopCloseReaders ==
    /\ ConsumerGoto("close", "stopped")
    /\ openReaders' = {}
    /\ UNCHANGED <<endedReaders, frameNumber, flagVars, workerVars, schedulerVars, batch,
                   lastProcessed, orderViolations, abandoned, taskQueue, buffer, frameQueue,
                   stopEvent>>

ConsumerStep ==
    \/ Start \/ ConsumerGet \/ ConsumerGetTimeout \/ ConsumerCheckFinished
    \/ ConsumerCheckDrained \/ ConsumerCollect \/ ConsumerBatchReady \/ ConsumerProcess
    \/ ConsumerRaises \/ StopSetEvent \/ StopJoinScheduler \/ StopJoinWorkers
    \/ StopCloseReaders

-----------------------------------------------------------------------------
ThreadsExited == spc = "done" /\ \A w \in Workers : wpc[w] = "done"

Terminated == ThreadsExited /\ cpc = "stopped" /\ UNCHANGED vars

Next == (\E w \in Workers : WorkerStep(w)) \/ SchedulerStep \/ ConsumerStep \/ Terminated

Spec == Init /\ [][Next]_vars

(* Every thread that can run is eventually run: the threads are preemptive,
   every wait has a timeout, and a read of a source is assumed to return. *)
Fairness ==
    /\ \A w \in Workers : WF_vars(WorkerStep(w))
    /\ WF_vars(SchedulerStep)
    /\ WF_vars(ConsumerStep)

FairSpec == Spec /\ Fairness
-----------------------------------------------------------------------------
(* Safety                                                                  *)

(* A worker that holds a camera's job: from the dequeue to the buffer.put, or
   to the critical section that retires the camera. *)
HoldsJob(w) == wpc[w] \in {"claim", "open", "read", "raised", "ended", "put"}

(* No two reads of one camera overlap and no read overlaps a buffered frame:
   a camera is at most once in the task queue, in the hands of a worker, or in
   its buffer, whatever the flags say, although buffer.put and the clearing of
   read_in_flight happen outside the critical section that took the job. *)
OneJobPerCamera ==
    /\ \A i, j \in DOMAIN taskQueue : taskQueue[i] = taskQueue[j] => i = j
    /\ \A w, v \in Workers :
          HoldsJob(w) /\ HoldsJob(v) /\ wcam[w] = wcam[v] => w = v
    /\ \A w \in Workers : \A i \in DOMAIN taskQueue :
          HoldsJob(w) => taskQueue[i] # wcam[w]
    /\ \A c \in Camera : buffer[c] # <<>> =>
          /\ Len(buffer[c]) = 1
          /\ \A i \in DOMAIN taskQueue : taskQueue[i] # c
          /\ \A w \in Workers : HoldsJob(w) => wcam[w] # c

(* A dequeued job finds its camera neither retired nor being read: the branch
   of _worker_loop that would drop the job, and with it the camera, is never
   taken. *)
NoJobDropped == \A w \in Workers : wpc[w] = "claim" => Readable(wcam[w])

(* The finish tests add the sizes of two sets: no camera is in both, and no
   job of a retired camera is left anywhere. *)
CamerasRetireOnce ==
    /\ completedCameras \cap failedCameras = {}
    /\ \A w \in Workers : HoldsJob(w) => wcam[w] \notin completedCameras \cup failedCameras
    /\ \A c \in completedCameras \cup failedCameras : buffer[c] = <<>>

(* The consumer never sees a frame number that does not grow.              *)
FramesArriveInOrder == orderViolations = 0

(* Unless the run was stopped, a thread ends only when its work is over: no
   worker leaves a job behind and the scheduler leaves no frame behind, those
   still in a worker's hands included. *)
ThreadsEndOnlyWhenDone ==
    stopEvent \/
    /\ \A w \in Workers : wpc[w] \in {"exit", "done"} => AllCamerasDone /\ taskQueue = <<>>
    /\ spc \in {"exit", "done"} =>
          /\ AllCamerasDone /\ BuffersEmpty
          /\ \A w \in Workers : ~HoldsJob(w)

(* stop() joins each worker with a time-out, closes the readers and returns; a
   worker that outlives its join may open a capture again that is then closed
   by nobody.  It opens at most one, however many jobs are waiting: no more
   captures are left open than workers were left behind, and none if every
   join succeeded. *)
StopReleasesReaders ==
    cpc = "stopped" => Cardinality(openReaders) <= Cardinality(abandoned)

(* Round-robin fairness: whenever another camera's frame is taken, a camera
   that has one buffered comes closer to its turn. *)
WaitingCamerasAdvance ==
    [][\A c \in Camera :
          buffer[c] # <<>> /\ buffer'[c] = buffer[c] /\ spc = "next" /\ spc' = "offer"
            => Distance(schedulerIndex', c) < Distance(schedulerIndex, c)]_vars

(* What ingestion promises to the run: see FrameDelivery.                  *)
AcceptedFrames(c) ==
    IF FrameLimit # Unlimited /\ frameNumber[c] > FrameLimit THEN FrameLimit ELSE frameNumber[c]

Delivery == INSTANCE FrameDelivery WITH
    Cameras <- Camera,
    MaxFrames <- SourceFrames,
    Window <- FrameQueueSize + BatchSize + 2,
    captured <- [c \in Camera |-> AcceptedFrames(c)],
    delivered <- [c \in Camera |-> lastProcessed[c] + 1],
    stopped <- stopEvent \/ cpc = "abort",
    closed <- cpc \in {"finish", "abort", "joinScheduler", "joinWorkers", "close", "stopped"}

(* Each camera's frames are delivered in order without gap or duplicate, the
   frames in flight are bounded by the sizes of the queues, and a run that
   finishes without a stop has delivered every frame that was read. *)
ImplementsDelivery == Delivery!Spec

-----------------------------------------------------------------------------
(* Liveness                                                                *)

(* No captured frame is held back for ever, unless the run is stopped.     *)
EveryFrameDelivered == Delivery!EveryFrameDelivered

(* After the stop event every ingestion thread ends, whatever it waits for.*)
StopEndsThreads == stopEvent ~> ThreadsExited

(* A camera that is not retired and of which there is no job and no frame left
   that could ever lead to a new job. *)
Stranded(c) ==
    /\ c \notin completedCameras \cup failedCameras
    /\ \A i \in DOMAIN taskQueue : taskQueue[i] # c
    /\ \A w \in Workers : HoldsJob(w) => wcam[w] # c
    /\ buffer[c] = <<>>

(* A run ends unless one of its cameras is stranded: the threads and the
   consumer agree on when everything is over. *)
RunEndsUnlessStranded == <>(cpc = "stopped" \/ \E c \in Camera : cpc # "start" /\ Stranded(c))

-----------------------------------------------------------------------------
(* What the documents and the tests say, and the code does not do          *)

(* docs/WORKER_QUEUE_ARCHITECTURE.md: every camera continues until its own
   end of file. *)
EveryCameraRetires == \A c \in Camera : <>(c \in completedCameras \cup failedCameras)

(* docs/WORKER_QUEUE_ARCHITECTURE.md: stop_on_camera_error is a global stop. *)
GlobalStopEndsRun == stopEvent ~> (cpc = "stopped")
=============================================================================
