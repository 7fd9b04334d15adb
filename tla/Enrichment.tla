----------------------------- MODULE Enrichment -----------------------------
(***************************************************************************)
(* VehicleEnrichmentManager (src/vehicle_enrichment/enrichment_manager.py) *)
(* as run_pipeline uses it: after every frame, and for every camera at the *)
(* end, the tracks that were completed are enriched.  With asynchronous    *)
(* colour a track whose crops are ready becomes a job for the one colour   *)
(* worker, its result comes back through a second queue that every later   *)
(* call drains, and finalize_async_colour waits for the rest, on the       *)
(* success path and again in the failure handler.                          *)
(*                                                                         *)
(* One action is what a thread does between two operations on the queues;  *)
(* everything but the two queues belongs to the main thread.               *)
(*                                                                         *)
(* Abstracted: crops, scores, model calls and the contents of results;     *)
(* whether preparing, classifying or building one raises is an input.      *)
(***************************************************************************)
EXTENDS Naturals, Sequences, FiniteSets

CONSTANTS
    Tracks,          \* the tracks completed in a run
    QueueSize,       \* async.queue_size
    MaxCalls,        \* bound: the calls of enrich_completed_tracks
    MaxSubmissions   \* bound: how often a track is passed to it

Shutdown == "Shutdown"   \* the None that ends the worker
NoTrack == "NoTrack"

ASSUME SizesAssumption ==
    /\ IsFiniteSet(Tracks)
    /\ QueueSize \in Nat \ {0}
    /\ MaxCalls \in Nat
    /\ MaxSubmissions \in Nat

ASSUME MarkersAssumption == Shutdown \notin Tracks /\ NoTrack \notin Tracks

VARIABLES
    async,         \* async_colour_enabled, fixed for the run
    failOpen,      \* vehicle_enrichment.fail_open, fixed for the run
    jobs,          \* _colour_job_queue
    unfinished,    \* its unfinished tasks, which join() waits for
    results,       \* _colour_result_queue
    pending,       \* the keys of _pending_jobs_by_track
    enqueued,      \* _enqueued_track_ids
    completedIds,  \* _completed_track_ids
    stored,        \* the keys of _results_by_track
    answers,       \* how many results of a track were put in a list to return
    mpc,           \* where the main thread is
    todo,          \* the tracks of the call it has still to look at
    current,       \* the track whose job it tries to enqueue
    ending,        \* which path of run_pipeline calls finalize
    cause,         \* what sent the run to the failure handler
    wpc,           \* where the colour worker is
    wjob,          \* the job it holds
    calls,         \* history: the calls made
    submissions,   \* history: how often each track was passed
    classified     \* history: how often each track was classified by the worker

configVars == <<async, failOpen>>
trackVars == <<pending, enqueued, completedIds, stored, answers>>
mainVars == <<mpc, todo, current, ending, cause>>
historyVars == <<calls, submissions>>
workerVars == <<wpc, wjob, classified>>
vars == <<configVars, jobs, unfinished, results, trackVars, mainVars,
          workerVars, historyVars>>

Ended == {"completed", "failed"}

TypeOK ==
    /\ async \in BOOLEAN /\ failOpen \in BOOLEAN
    /\ jobs \in Seq(Tracks \cup {Shutdown}) /\ Len(jobs) <= QueueSize
    /\ unfinished \in Nat
    /\ results \in Seq([track : Tracks, ok : BOOLEAN])
    /\ pending \subseteq Tracks /\ enqueued \subseteq Tracks
    /\ completedIds \subseteq Tracks /\ stored \subseteq Tracks
    /\ answers \in [Tracks -> Nat]
    /\ mpc \in {"run", "tracks", "put", "drain", "join", "signal", "await",
                "finalDrain", "publish"} \cup Ended
    /\ todo \subseteq Tracks
    /\ current \in Tracks \cup {NoTrack}
    /\ mpc = "put" => current \in Tracks
    /\ ending \in {"no", "success", "failure"}
    /\ cause \in {"none", "enrichment", "other"}
    /\ wpc \in {"get", "classify", "taskDone", "exit"}
    /\ wjob \in Tracks \cup {NoTrack}
    /\ wpc = "classify" => wjob \in Tracks
    /\ calls \in Nat
    /\ submissions \in [Tracks -> Nat]
    /\ classified \in [Tracks -> Nat]

(* The worker thread is started by the constructor, if colour is           *)
(* asynchronous.                                                           *)
Init ==
    /\ async \in BOOLEAN /\ failOpen \in BOOLEAN
    /\ jobs = <<>> /\ unfinished = 0 /\ results = <<>>
    /\ pending = {} /\ enqueued = {} /\ completedIds = {} /\ stored = {}
    /\ answers = [t \in Tracks |-> 0]
    /\ mpc = "run" /\ todo = {} /\ current = NoTrack
    /\ ending = "no" /\ cause = "none"
    /\ wpc = IF async THEN "get" ELSE "exit"
    /\ wjob = NoTrack
    /\ calls = 0
    /\ submissions = [t \in Tracks |-> 0]
    /\ classified = [t \in Tracks |-> 0]

-----------------------------------------------------------------------------
(* The main thread: run_pipeline's failure handler                         *)

(* An exception reaches the handler, which finalizes; one raised by the    *)
(* handler's own call is swallowed.                                        *)
Raise(reason) ==
    /\ todo' = {}
    /\ current' = NoTrack
    /\ IF ending = "failure"
       THEN /\ mpc' = "failed"
            /\ UNCHANGED <<ending, cause>>
       ELSE /\ ending' = "failure"
            /\ cause' = reason
            /\ mpc' = IF async THEN "join" ELSE "failed"

-----------------------------------------------------------------------------
(* The main thread: enrich_completed_tracks                                *)

(* The tracks a frame, or the flush of a camera, has completed.            *)
BeginCall(batch) ==
    /\ mpc = "run"
    /\ calls < MaxCalls
    /\ \A t \in batch : submissions[t] < MaxSubmissions
    /\ calls' = calls + 1
    /\ submissions' = [t \in Tracks |-> submissions[t] + IF t \in batch THEN 1 ELSE 0]
    /\ mpc' = "tracks"
    /\ todo' = batch
    /\ UNCHANGED <<configVars, jobs, unfinished, results, trackVars, current,
                   ending, cause, workerVars>>

(* A result is stored under its track and appended to the list returned.   *)
Answer(t) ==
    /\ stored' = stored \cup {t}
    /\ answers' = [answers EXCEPT ![t] = @ + 1]

(* Without asynchronous colour a track is enriched on the spot.            *)
EnrichNow(t) ==
    /\ mpc = "tracks" /\ t \in todo
    /\ ~async
    /\ Answer(t)
    /\ todo' = todo \ {t}
    /\ UNCHANGED <<configVars, jobs, unfinished, results, pending, enqueued,
                   completedIds, mpc, current, ending, cause, workerVars, historyVars>>

(* With it, one that is being worked on, or was, is skipped.               *)
(* Mutant: the finished tracks are forgotten.                              *)
FaultyKnown(t) == t \in enqueued
Known(t) == t \in enqueued \cup completedIds

SkipKnown(t) ==
    /\ mpc = "tracks" /\ t \in todo
    /\ async /\ Known(t)
    /\ todo' = todo \ {t}
    /\ UNCHANGED <<configVars, jobs, unfinished, results, trackVars, mpc,
                   current, ending, cause, workerVars, historyVars>>

(* Enriching or preparing a track raises: an error result, or the end of   *)
(* the run.                                                                *)
EnrichRaises(t) ==
    /\ mpc = "tracks" /\ t \in todo
    /\ async => ~Known(t)
    /\ IF failOpen
       THEN /\ Answer(t)
            /\ todo' = todo \ {t}
            /\ UNCHANGED <<mpc, current, ending, cause>>
       ELSE Raise("enrichment") /\ UNCHANGED <<stored, answers>>
    /\ UNCHANGED <<configVars, jobs, unfinished, results, pending, enqueued,
                   completedIds, workerVars, historyVars>>

(* Enrichment is disabled or the track has no evidence: no job is needed.  *)
PrepareAnswers(t) ==
    /\ mpc = "tracks" /\ t \in todo
    /\ async /\ ~Known(t)
    /\ Answer(t)
    /\ completedIds' = completedIds \cup {t}
    /\ todo' = todo \ {t}
    /\ UNCHANGED <<configVars, jobs, unfinished, results, pending, enqueued,
                   mpc, current, ending, cause, workerVars, historyVars>>

PrepareJob(t) ==
    /\ mpc = "tracks" /\ t \in todo
    /\ async /\ ~Known(t)
    /\ mpc' = "put"
    /\ current' = t
    /\ todo' = todo \ {t}
    /\ UNCHANGED <<configVars, jobs, unfinished, results, trackVars, ending,
                   cause, workerVars, historyVars>>

(* _enqueue_colour_job tries again for as long as the queue is full, and   *)
(* registers the job only after the put.  Put and registration are one     *)
(* action: pending and enqueued are read, and results drained, by the main *)
(* thread alone, so whatever the worker does between the two it could do   *)
(* after them.                                                             *)
EnqueueJob ==
    /\ mpc = "put"
    /\ Len(jobs) < QueueSize
    /\ jobs' = Append(jobs, current)
    /\ unfinished' = unfinished + 1
    /\ pending' = pending \cup {current}
    /\ enqueued' = enqueued \cup {current}
    /\ mpc' = "tracks"
    /\ current' = NoTrack
    /\ UNCHANGED <<configVars, results, completedIds, stored, answers, todo,
                   ending, cause, workerVars, historyVars>>

TracksDone ==
    /\ mpc = "tracks" /\ todo = {}
    /\ mpc' = IF async THEN "drain" ELSE "run"
    /\ UNCHANGED <<configVars, jobs, unfinished, results, trackVars, todo,
                   current, ending, cause, workerVars, historyVars>>

-----------------------------------------------------------------------------
(* The main thread: drain_completed_results                                *)

(* _finish_async_result: the job is taken off the books first.  An error   *)
(* of the worker follows fail_open; an exception while the result is built *)
(* (the plate is read there), or a job that is not on the books, does not. *)
(* Mutant: the job stays on the books.                                     *)
FaultyUnregister(t) == UNCHANGED pending /\ enqueued' = enqueued \ {t}
Unregister(t) == pending' = pending \ {t} /\ enqueued' = enqueued \ {t}

TakeResult ==
    /\ mpc \in {"drain", "finalDrain"}
    /\ results # <<>>
    /\ results' = Tail(results)
    /\ Unregister(Head(results).track)
    /\ UNCHANGED <<configVars, jobs, unfinished, workerVars, historyVars>>

FinishResult ==
    /\ TakeResult
    /\ LET t == Head(results).track IN
       /\ t \in pending
       /\ Head(results).ok \/ failOpen
       /\ Answer(t)
       /\ completedIds' = completedIds \cup {t}
    /\ UNCHANGED mainVars

FinishRaises ==
    /\ TakeResult
    /\ Head(results).track \in pending => Head(results).ok \/ ~failOpen
    /\ Raise("enrichment")
    /\ UNCHANGED <<completedIds, stored, answers>>

(* The result queue is found empty: enrich_completed_tracks, or            *)
(* finalize_async_colour, returns.                                         *)
DrainDone ==
    /\ results = <<>>
    /\ \/ mpc = "drain" /\ mpc' = "run"
       \/ mpc = "finalDrain" /\ mpc' = IF ending = "success" THEN "publish" ELSE "failed"
    /\ UNCHANGED <<configVars, jobs, unfinished, results, trackVars, todo,
                   current, ending, cause, workerVars, historyVars>>

-----------------------------------------------------------------------------
(* The main thread: the end of the run                                     *)

(* All cameras are flushed.                                                *)
FinishRun ==
    /\ mpc = "run"
    /\ ending' = "success"
    /\ mpc' = IF async THEN "join" ELSE "publish"
    /\ UNCHANGED <<configVars, jobs, unfinished, results, trackVars, todo,
                   current, cause, workerVars, historyVars>>

(* Another step of the run raises: between two calls, or after the end of  *)
(* enrichment, when artifacts are written.                                 *)
RunRaises ==
    /\ mpc \in {"run", "publish"}
    /\ Raise("other")
    /\ UNCHANGED <<configVars, jobs, unfinished, results, trackVars, workerVars,
                   historyVars>>

Publish ==
    /\ mpc = "publish"
    /\ mpc' = "completed"
    /\ UNCHANGED <<configVars, jobs, unfinished, results, trackVars, todo,
                   current, ending, cause, workerVars, historyVars>>

(* finalize_async_colour: join the queue, send the end marker, and wait at *)
(* most 30 seconds for the worker, which the model lets pass at any time.  *)
(* Mutant: the queue is not joined.                                        *)
FaultyJoinQueue ==
    /\ mpc = "join"
    /\ mpc' = "signal"
    /\ UNCHANGED <<configVars, jobs, unfinished, results, trackVars, todo,
                   current, ending, cause, workerVars, historyVars>>
JoinQueue ==
    /\ mpc = "join"
    /\ unfinished = 0
    /\ mpc' = "signal"
    /\ UNCHANGED <<configVars, jobs, unfinished, results, trackVars, todo,
                   current, ending, cause, workerVars, historyVars>>

SendShutdown ==
    /\ mpc = "signal"
    /\ Len(jobs) < QueueSize
    /\ jobs' = Append(jobs, Shutdown)
    /\ unfinished' = unfinished + 1
    /\ mpc' = "await"
    /\ UNCHANGED <<configVars, results, trackVars, todo, current, ending, cause,
                   workerVars, historyVars>>

(* Mutant: the results that came in while waiting are not drained.         *)
FaultyAwaitWorker ==
    /\ mpc = "await"
    /\ mpc' = IF ending = "success" THEN "publish" ELSE "failed"
    /\ UNCHANGED <<configVars, jobs, unfinished, results, trackVars, todo,
                   current, ending, cause, workerVars, historyVars>>
AwaitWorker ==
    /\ mpc = "await"
    /\ mpc' = "finalDrain"
    /\ UNCHANGED <<configVars, jobs, unfinished, results, trackVars, todo,
                   current, ending, cause, workerVars, historyVars>>

-----------------------------------------------------------------------------
(* _colour_worker_loop                                                     *)

WorkerGet ==
    /\ wpc = "get"
    /\ jobs # <<>>
    /\ jobs' = Tail(jobs)
    /\ IF Head(jobs) = Shutdown
       THEN /\ unfinished' = unfinished - 1
            /\ wpc' = "exit"
            /\ UNCHANGED wjob
       ELSE /\ wpc' = "classify"
            /\ wjob' = Head(jobs)
            /\ UNCHANGED unfinished
    /\ UNCHANGED <<configVars, results, trackVars, mainVars, historyVars, classified>>

(* classify returns or raises; either way there is a result.               *)
WorkerDeliver(ok) ==
    /\ wpc = "classify"
    /\ results' = Append(results, [track |-> wjob, ok |-> ok])
    /\ classified' = [classified EXCEPT ![wjob] = @ + 1]
    /\ wpc' = "taskDone"
    /\ UNCHANGED <<configVars, jobs, unfinished, trackVars, mainVars, wjob,
                   historyVars>>

(* Mutant: task_done is forgotten.                                         *)
FaultyWorkerTaskDone ==
    /\ wpc = "taskDone"
    /\ wpc' = "get"
    /\ wjob' = NoTrack
    /\ UNCHANGED <<configVars, jobs, unfinished, results, trackVars, mainVars,
                   historyVars, classified>>
WorkerTaskDone ==
    /\ wpc = "taskDone"
    /\ unfinished' = unfinished - 1
    /\ wpc' = "get"
    /\ wjob' = NoTrack
    /\ UNCHANGED <<configVars, jobs, results, trackVars, mainVars, historyVars,
                   classified>>

WorkerStep == WorkerGet \/ (\E ok \in BOOLEAN : WorkerDeliver(ok)) \/ WorkerTaskDone

-----------------------------------------------------------------------------
MainStep ==
    \/ \E batch \in SUBSET Tracks : BeginCall(batch)
    \/ \E t \in Tracks :
          \/ EnrichNow(t) \/ SkipKnown(t) \/ EnrichRaises(t)
          \/ PrepareAnswers(t) \/ PrepareJob(t)
    \/ EnqueueJob \/ TracksDone
    \/ FinishResult \/ FinishRaises \/ DrainDone
    \/ FinishRun \/ RunRaises \/ Publish
    \/ JoinQueue \/ SendShutdown \/ AwaitWorker

Terminated == mpc \in Ended /\ wpc = "exit" /\ UNCHANGED vars

Next == MainStep \/ WorkerStep \/ Terminated

Spec == Init /\ [][Next]_vars
FairSpec == Spec /\ WF_vars(MainStep) /\ WF_vars(WorkerStep)

-----------------------------------------------------------------------------
(* Properties                                                              *)

InQueue == {jobs[i] : i \in 1 .. Len(jobs)} \ {Shutdown}
AtWorker == IF wpc = "classify" THEN {wjob} ELSE {}
InResults == {results[i].track : i \in 1 .. Len(results)}

(* The books of the main thread agree with two queues and a worker it does *)
(* not lock: the pending tracks are those with a job in the queue, in the  *)
(* worker's hands or with a result to be drained, and each has one.  So    *)
(* the "missing prepared async colour job" error cannot be raised.         *)
JobsMatchPending ==
    /\ pending = InQueue \cup AtWorker \cup InResults
    /\ enqueued = pending
    /\ InQueue \cap AtWorker = {}
    /\ (InQueue \cup AtWorker) \cap InResults = {}
    /\ \A i, j \in 1 .. Len(jobs) : jobs[i] = jobs[j] => i = j
    /\ \A i, j \in 1 .. Len(results) :
          results[i].track = results[j].track => i = j

(* The model is run once for a track, although the same track may be       *)
(* passed again before, while and after its job is worked on.              *)
ClassifiedOnce == \A t \in Tracks : classified[t] <= 1

(* A run that completes has the result of every track it passed, and just  *)
(* one of a track it passed once, wherever the jobs were when it ended.    *)
EveryTrackAnswered ==
    mpc \in {"publish", "completed"} =>
        /\ pending = {}
        /\ \A t \in Tracks : submissions[t] > 0 => t \in stored
        /\ \A t \in Tracks : submissions[t] = 1 => answers[t] = 1

(* However the run ends, it leaves no classification behind, waiting or    *)
(* under way: the manager's thread does not use the model after the run.   *)
WorkerIdleAtEnd ==
    mpc \in Ended => InQueue = {} /\ wpc \notin {"classify", "taskDone"}

(* Shutdown: the run ends and its worker does, through whichever of the    *)
(* two calls of finalize_async_colour, and of the two after one another.   *)
RunAndWorkerEnd == <>(mpc \in Ended /\ wpc = "exit")

-----------------------------------------------------------------------------
(* What the documents say, and the code does not do                        *)

(* docs/VEHICLE_ENRICHMENT_ARCHITECTURE.md: with fail_open an enrichment   *)
(* error does not fail the pipeline.                                       *)
FailOpenHolds == failOpen => cause # "enrichment"

=============================================================================
