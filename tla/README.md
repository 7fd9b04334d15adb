# A TLA+ model of the multi-camera vehicle tracking pipeline

This directory specifies the multi-camera vehicle tracking system in TLA+: its
threads and processes, the files and rows they leave behind, and the algorithms
that decide what the results say. TLC checks the specifications on small
instances, and TLAPS proves their main safety properties for every instance.
Paths are relative to the repository; the Python package is its `src/`.

1. [The system](#1-the-system)
2. [Modules](#2-modules)
3. [What is modelled, component by component](#3-what-is-modelled-component-by-component)
4. [Runs](#4-runs)
5. [Fairness](#5-fairness)
6. [Proofs](#6-proofs)
7. [Where the code disagrees with its documents](#7-where-the-code-disagrees-with-its-documents)
8. [What is not modelled](#8-what-is-not-modelled)
9. [What could come next](#9-what-could-come-next)

## 1. The system

One process, `app.py`, processes one or several videos: `run_pipeline`
(`src/pipeline.py`) reads frames through the ingestion manager, detects and
tracks vehicles, keeps the life cycle of tracks, collects crops as evidence,
enriches completed tracks (type, colour, plate), and writes a run directory,
which is then imported into a database. A second process, the API
(`src/api_app.py`), starts such runs as child processes, reports on them and
cancels them, and serves the runs to a dashboard and a question-answering
service.

| component | state it keeps | operations | talks to | hard behaviour |
|---|---|---|---|---|
| Multi-camera ingestion (`ingestion_manager.py`, `camera_reader.py`) | task queue, one bounded buffer per camera, frame queue, sets and flags of cameras, captures | start, worker loop, scheduler loop, get_frame, is_finished, stop | worker and scheduler threads share the state under a condition, two queues and an event; main thread consumes | interleavings around unlocked queue operations, full queues, end of several sources, stop |
| Pipeline orchestration (`pipeline.py`) | local variables of one loop | batch, per-frame processing, flush, failure handler, publication | calls every component below | an exception at any step, order of status and artifacts |
| Detection and native tracking (`detector_tracker.py`) | trackers per camera or per camera and class, metrics | process_frames, reset_camera | models (external) | per-camera state behind batched inference |
| Track life cycle (`track_manager.py`) | live tracks, logical identities, finalized sets | assign ids, update_frame, flush | main loop only, under one lock | identities of reused native ids, thresholds, exceptions inside a frame |
| Evidence (`evidence.py`) | candidates of each track, frames counted by reference, crop files of the capture zone | register_frame, finalize_tracks, flush_camera | keyed by the identities of the track manager | shared frames, bounded pools, exceptions inside a frame |
| Colour enrichment (`vehicle_enrichment/enrichment_manager.py`) | job queue, result queue, pending, enqueued and completed sets | enrich_completed_tracks, drain, finalize, worker loop | main thread and one worker through two queues | work in flight at the end, errors in either thread, double shutdown |
| Attribute classification (`vehicle_enrichment/`) | votes of one track | select crops, ask the model, aggregate | a vision-language model (external) | early stops, fallbacks, budgets |
| Plate recognition (`vehicle_enrichment/plate/`) | the loaded model, claims of tracks | detect, read, validate, resolve conflicts | models (external) | ambiguous corrections, several claims to one plate |
| Runtime state (`runtime_state.py`) | records of tracks and of the run, subscriber queues | update, publish_event, subscribe, snapshot | all of the above, `/ws/live` | drop-oldest delivery outside the lock |
| Identity reconciliation (`track_reconciliation.py`, `vehicle_identity.py`, `vehicle_identity_experiment.py`) | none between runs | link fragments, cluster tracks into vehicles | after the run | order of merges |
| Output and import (`output_writer.py`, `importers/`) | files, tables | save, import | after the run | a crash between status, artifacts and import; repeated imports |
| Run control (`pipeline_run_manager.py`) | jobs, processes, `job.json` | create, get, cancel, supervise, load | request threads, supervisor threads, child processes, disk | races for a job's outcome, failed writes, restart |
| Configuration (`config_service.py`, validation in `pipeline.py`) | files without a lock | save, clone, validate, normalize | API requests, the process of the run | concurrent saves, two normalizations |
| Repositories and API (`run_repository.py`, `postgres_run_repository.py`, `api_app.py`) | read-only; the live run on top | list, search, tracks, links, assisted plates | files, tables, runtime state | two readers of one run, live state merged in |
| Video chat (`video_chat*.py`, `vehicle_analytics.py`) | a context per session | plan, validate, repair, execute, page | a language model (external), the repositories | overlapping requests, plans changed after their validation |

What makes the components correct:

* **Ingestion.** A camera is read by one thread at a time; its frames reach the
  main loop in order, without gap or duplicate; nothing is lost between the
  buffers; every camera is retired once; threads end exactly when the work is
  over or after a stop; a stop ends them and releases every capture.
* **Run control.** At most one run is active; what is reported is what happened
  to the process; memory, disk and process agree once nobody acts on a job;
  every job settles; a cancel ends the process.
* **Detection.** A tracker sees every frame of its camera, once, and of the
  detections only those that are its own and were let through.
* **Track life cycle.** One logical identity for one life of a native id; live
  tracks carry the identity that evidence was registered under; the age of a
  track is its absence; every track ends up in the right set, once.
* **Evidence.** A frame is in memory exactly as long as some track needs it, the
  best view of a track is never lost, and the files on disk are those recorded.
* **Enrichment.** Every completed track gets its result, once, wherever its job
  was; the model is run once per track; the shutdown ends run and worker.
* **Attributes and plates.** No crop is passed over without a reason; a label
  follows the votes; a plate is reported only if it is certain, and has one
  owner.
* **Publication and import.** Whenever somebody looks, status, artifacts and
  rows of a run agree; importing again brings the rows to what the files say.
* **Live state.** A client that loses nothing knows what is, and the newest event
  is never the one that is lost.
* **Configuration.** A run that was accepted reads a whole file, never one that
  no check has let pass, and means by it what was validated.
* **Readers and chat.** Files, rows and live state give one answer; a
  conversation neither skips nor repeats, and executes what was asked.

The complete list of components is `components` in `PROJECT.json`, and the
complete list of hazards, each at its line and with the properties aimed at it,
is `hazards`.

## 2. Modules

Concurrent components, each a state machine of its own:

| module | contents |
|---|---|
| `FrameDelivery` | abstract specification: what ingestion promises to the run |
| `Ingestion` | the ingestion manager with its threads, readers and the consuming loop; implements `FrameDelivery` |
| `RunControl` | the run manager: requests, supervisor threads, child processes, restart |
| `TrackLifecycle` | the track manager, driven as `run_pipeline` drives it |
| `Enrichment` | the enrichment manager and its colour worker, driven as `run_pipeline` drives it |

Components of the `Services` run, each with variables of its own:

| module | contents |
|---|---|
| `DetectorRouting` | batched detection, filters, the trackers of each camera |
| `EvidenceCache` | candidates of live tracks and the frames kept for them |
| `CaptureZone` | crops written to disk while a vehicle crosses the zone |
| `TrackAttributes` | choice of crops, colour and body type of a completed track |
| `PlateReading` | detection, reading and the grammar of plates |
| `PlateOwnership` | which of several tracks keeps a plate |
| `TrackReconciliation` | fragments of tracks linked to one another |
| `VehicleIdentity` | tracks clustered into physical vehicles |
| `RunPublication` | status and artifacts of a run, its failure handler, its import, a kill |
| `RunImport` | the files of a run turned into rows, again and again |
| `RunRecords` | what two repositories and the API read back |
| `RuntimeEvents` | live records, events, bounded queues, clients |
| `ConfigSaves` | saves, clones and starts that share configuration files |
| `ConfigRules` | validation and double normalization of one configuration |
| `ChatSession` | a conversation, its pages, overlapping requests |
| `QueryPlans` | from a model's proposal to a plan that may be executed |
| `QueryAnswers` | execution of a plan, follow-up questions (extends `QueryPlans`) |
| `Services` | what these modules promise, gathered by subject |

Instances and proofs:

| module | contents |
|---|---|
| `MCIngestion`, `MCRunControl`, `MCTrackLifecycle`, `MCEnrichment`, `MCServices` | instances for TLC: model values, sets, symmetry |
| `IngestionProofs`, `RunControlProofs`, `TrackLifecycleProofs`, `EnrichmentProofs` | theorems about one component each |
| `EvidenceProofs` | theorems about `EvidenceCache`, `CaptureZone`, `TrackAttributes`, `PlateOwnership`, `PlateReading` |
| `RunStateProofs` | theorems about `RuntimeEvents`, `RunPublication`, `ConfigSaves`, `ConfigRules` |
| `ServicesProofs` | theorems about `DetectorRouting`, `VehicleIdentity`, `TrackReconciliation`, `RunImport`, `RunRecords`, `ChatSession`, `QueryPlans`, `QueryAnswers`, and about the properties `Services` gathers |
| `DataFacts` | lemmas about sequences, least and greatest elements, lists of a set in an order, sums and recursive functions, cited by all but `RunControlProofs` |

Definitions keep the names of the code where they can; `map` in `PROJECT.json`
gives the lines of each. Definitions called `Faulty...`, or otherwise marked
"Mutant" in a comment, are not part of the specification: each is one plausible
error of that code, and replacing the correct definition by it makes TLC report
the property it belongs to. They document what each property can see.

## 3. What is modelled, component by component

### Ingestion

One action is one critical section of `_condition`, one operation of a queue,
or one look at the stop event. So a step boundary lies wherever another thread
may run in between, in particular between `buffer.put` and the section that
resets `read_in_flight`, between the two tests of the consumer, and between the
steps of `stop()`.

* A worker (`wpc`): look at the stop event; get a camera from the task queue or
  time out; on a timeout, end if every read is finished; claim the camera; open
  its capture; read; put the frame into the buffer; publish; clean up. A read
  may return a frame, the end of the source, or (for `FaultyCameras`) raise, and
  each outcome follows the code to the end: `_handle_camera_error`, the global
  stop, `_mark_camera_completed`, the frame limit.
* The scheduler (`spc`): take the next packet in round-robin order and schedule
  the camera's next read in the same critical section, then offer the packet to
  the frame queue until it fits or the run is stopped.
* The consumer (`cpc`): `run_pipeline`'s loop. It gets a packet, fills a batch,
  processes its frames, or finds the queue empty and asks `is_finished` and then
  whether the queue is still empty. Processing may raise, which leads through
  the failure handler to `stop()`.
* Cameras are numbered by their position in `camera_order`, since the scheduler
  works with indices. A packet is its camera and frame number; `SourceFrames`
  bounds a source. Image data, throttling and metrics are left out, and so are
  the timeouts as durations: a timeout may happen whenever the operation cannot
  proceed, and the joins of `stop()` may expire if `JoinTimeouts` is set.

`FrameDelivery` is the promise to the run: per camera two counters, captured
and delivered, at most `Window` frames between them, and a close that is normal
only when both agree. The refinement mapping counts an accepted frame as
captured when the reader returned it and as delivered when the loop processed
it, and the window is the worker's hand and the buffer (one frame together, by
`OneJobPerCamera`), the scheduler's hand, the frame queue and the batch.

### Run control

Each section under `self._lock` is one action; launching, signalling and
waiting for a process are actions of their own. `Cancellers` are concurrent
requests in `cancel_job`, which looks a process up under the lock, signals it
and waits for it without the lock, and settles the job under the lock again.
`create_run` and `get_job` refresh jobs, i.e. poll processes, as a side effect;
`create_run` does so for each job until it finds an active one, and the model
keeps the prefix that was refreshed when it raises. The constants switch
on the faults the code handles: a record that cannot be written, a missing
virtual environment, a failing launch, a process that outlives its kill, and a
restart of the API, which loses threads and process handles and keeps
`job.json` and the child processes. Log lines, stage texts, timestamps and the
validation of a configuration (which changes nothing if it refuses) are left
out; the content of a line matters only as an occasion to write the record.

### Track life cycle

`BeginFrame` is a packet with the tracks its detections were given by the
native tracker. Then `AssignOne` for each detection
(`assign_logical_track_ids`), `CheckOrder`, `UpdateOne` for each detection,
`MissOne` for each live track of the camera that is not present, `EndFrame`.
`Stop` is the end of the input, or an exception of any other component at the
points where `run_pipeline` calls one; the track manager's own exceptions (an
older frame, a second observation in a frame, a mapping that does not fit, an
identity that was finalized before) are in the actions that raise them. All of
them lead to the failure handler's `flush_all`, and so does the normal end,
with `flush_camera` of each camera. The manager holds its lock for whole calls
and has one writer, so the passes of a call are steps only to be read and
proved one at a time.

A native id is a member of `Natives` and stands for the pair of namespace and
id; boxes, confidences, timestamps and the vote on the class are left out. A
native id may be reported by any frame, also after its track ended, as by a
tracker that recovers a vehicle later than the manager has given it up.

### Enrichment

The main thread (`mpc`) calls `enrich_completed_tracks` with any set of tracks,
at most `MaxSubmissions` times each. (`run_pipeline` passes a track once; the
manager's tests pass one again and expect it to be skipped, so this is part of
its interface.) In asynchronous mode a track is skipped, answered at
once, answered with an error, fails the run, or becomes a job. Putting a job
blocks while the queue is full. The put and the registration that follows it are
one action, since the worker never looks at the sets that are changed and only the
main thread drains results: nothing tells the two moments apart. Every call ends by draining the result queue;
`finalize_async_colour` joins the queue, sends the end marker, waits for the
worker (the 30 seconds may pass at any time) and drains again. `Raise` is the
failure handler, which finalizes a second time and swallows what that raises.
The worker (`wpc`) takes a job, classifies it, delivers a result whether or not
the model raised, and marks the task as done. A delivered result is a track and
whether it carries no error message; completing one may raise in any case. In
synchronous mode a track is enriched within the call.

The reading of crops, their scores, the model calls and the composition of
results (most of the file's lines) are left out: what they decide, an answer, a
job or an exception, is an input of the action that follows.

### Detection and native tracking

`DetectBatch` detects the frames of a batch; `RoutePacket` filters one packet's
detections (class, box quality, region of interest) and updates the trackers of
its camera, one in the shared mode, one per class otherwise, including those
that get nothing. The `OCR_MUKUL` backend hands on the model's unfiltered result
when the numbers agree, which is `HandedOn`. A raw result is any small set of
detections; ByteTrack is reduced to the updates and detections it receives.

### Evidence

`EvidenceCache` takes one detection of `register_frame` per action
(`ValidDetection`, `InvalidDetection`), with `Retain` for
`_retain_candidate`: a pool that is full gives up its weakest candidate, a
look-alike is replaced only by a better one, and every path raises or lowers the
count of a frame. `FinalizeTrack` gives a track's candidates back, and an
exception releases them in the code's `finally`, track by track. `CaptureZone` is
the other half: a detection is passed by, rejected, or its crop is written at
once. The class vote picks a profile anew at each detection, so that zone, gap
and limit may change under a track; the gap is counted from the last crop that
was kept, whether or not that one still is. If there are more crops than the
limit of the moment, the worst is let go, one only, and it may be the new one;
removing its file may fail, which `_remove_file_if_exists` keeps to itself.
Finalization records the crops that are kept. Two history variables, the profiles
crops were taken under and the files left behind, serve the properties only.

### Attributes and plates

`TrackAttributes` fixes a track's crops first (`PrepareTrack`: adaptation,
tiers, sizes, duplicates, the choice of the best), then asks the model crop by
crop (`AskModel`) under one of four codes, the flow with either strategy or one
of the two older classifiers, and decides (`DecideAttributes`). `PlateReading`
follows `_run_plate_enrichment`: detect on the best crop, check its quality, load
the OCR model once, read, and validate against a grammar with at most two
look-alike corrections, pattern by pattern as `validate_indian_plate` does.
`PlateOwnership` adds results in any order and resolves them at the end of the
run: clusters of claims close in time, better fitting boxes, margins, ambiguity.

### Identities

`TrackReconciliation` decides the tracks in the order of their starts
(`JoinVehicle`, `NewVehicle`) with the gates and weighted scores of the code;
the plane is a line and the exponential a table. `VehicleIdentity` is the
clustering: `PlaceTrack` takes a track with the facts about it and every earlier
one (failed gates, kind of overlap, score, plates) and merges it into the
candidates that accept all members. The switches of plate assistance and of its
contradiction veto are constants, both on in the run as they are by default.

### Publication and import

In `RunPublication` the body of `run_pipeline`'s last part and its failure
handler are two scripts, sequences of writes and announcements; a write takes two
steps, between which the file is torn; `Raise` leads from the body to the handler
at the code's `except`; `Kill` may come at any step. `ImportAfterRun` and
`OperatorImport` import what is on disk. `RunImport` is one import in detail:
`build_dry_run` names the tracks, resolves observations, enrichments and
vehicles to them, and the transaction inserts or replaces; `Rebuild` is the
operator changing the files in between.

### Readers and API

`RunRecords` has runs that start, show live tracks, finish and are imported in
any order. `Ask` answers one question (list, search, tracks, cameras, latest)
from the directories, from the rows and through the API with the live state;
`ShowMedia` follows a link and `ShowPlate` forms the assisted plate of a vehicle.
`replied` keeps the three answers side by side.

### Live state

One update is a change of `record` under the lock; publishing is the listing of
the subscribers (`ListSubscribers`), and for each a put that finds the queue full,
drops the oldest and puts again, in three steps between which the client may take
events. A connection subscribes, is sent the system part and the tracks part of
the snapshot in two reads, then events. The run's side is the loop, the colours
that come in late, and the completion or failure.

### Configuration

`ConfigSaves`: a request is checked (`CheckSave`, `CheckClone`, `CheckStart`),
opens a temporary file, fills it and replaces the target; it may fail while
writing, and the server may be killed; a refused one changes nothing. The process of
an accepted run reads the file later (`RunReads`). The API does not validate what is
in the file: `normalize_config_for_ui` takes up to two pairs of quotes off sources
and model paths (`Cleaned`), once when the configuration is loaded or saved and
once more in `validate_config` (`Accepts`). The process of the run validates the
file as it is (`Valid`). What a payload or a file says is abstracted to valid,
invalid, valid once it is normalized, and valid once it is normalized twice. `ConfigRules`: `ValidateConfig` normalizes the limits, the
cameras and the zone, `CreateCollector` normalizes the zone again; a profile has
up to six layers.

### Video chat

`ChatSession` has one thread per request: it reads the context, plans in up to
two attempts and a fallback, answers a page of vehicles, and stores the next
context, with other requests in between. Three sets belong to a question: the vehicles
its plan selects (`Selected`), those the query lets through that the plan is converted
to and the evidence is filtered by (`LetThrough`), and those that pass what the next
request remembers of that query (`Remembered`). `QueryPlans` follows a plan through
`NormalizePlan`, `CheckSchema`, `RepairPlan` and `CheckSemantics`. `QueryAnswers`
executes accepted plans one after the other: filters, previous vehicle ids,
counts, groups, rankings, comparisons and intervals.

A filter of a plan is a tree, which the code walks by recursion. Here it is a function
from paths to nodes: the root is at `<<>>`, the third filter of the root at `<<3>>`. What
the code does at every node is then said of every path at once, what it looks for below
a connective is a statement about prefixes, and whether a vehicle matches is the one
way to mark nodes as hits so that each is marked as its kind and the nodes below
it demand (`Matches`). Where the code leaves a connective with a single filter out
(`_strip_filter_fields`) the model keeps it, which means the same. One place depends on
order: of a negation of several filters the repair keeps the first that still says
something (`PartBelowNot`).

## 4. Runs

| run | instance | checks |
|---|---|---|
| `IngestionSafety` | 2 cameras, 2 interchangeable workers, frame queue 1, buffers 2, batch 2, limit 2 of at most 3 frames, one camera may fail, `stop_on_camera_error`, processing may raise | the safety properties and the refinement |
| `IngestionLiveness` | 2 cameras, 1 worker, batch 1, at most 2 frames, one camera may fail, processing may raise, joins may time out, fair threads | delivery, stop and end of the run |
| `IngestionStranded` | 1 camera, 1 worker, 1 frame, fair threads | a documented claim the code violates |
| `IngestionGlobalStop` | 2 cameras, 1 worker, one camera may fail, global stop, fair threads | a documented claim the code violates |
| `RunControlJobs` | 2 jobs, 2 cancel requests at a time, failing launches, kills that time out, 1 restart, fair threads | outcomes, exclusivity, progress |
| `RunControlFaults` | the same and records that cannot be written and a missing interpreter | truth of COMPLETED |
| `RunControlLateStart` | 1 job, 1 cancel request, fair threads | a documented claim the code violates |
| `TrackLifecycle` | 2 cameras, 2 native ids, thresholds 2 observations and 1 lost frame, frames numbered up to 3, 5 applied frames, old frames and repeated ids | all properties of the component |
| `Enrichment` | 3 tracks, queue 1, 3 calls, each track passed at most twice, both modes, both values of `fail_open`, fair threads | all properties of the component |
| `EnrichmentFailOpen` | 1 track, queue 1, 2 calls | a documented claim the code violates |
| `Services` | 17 small instances, one per behaviour (`MCServices.cfg`) | twelve properties, each the conjunction of what one subject promises |
| `KilledRuns` | a run and one import (`RunPublication`) | a documented claim the code violates |

The components of `Services` share no variable. A behaviour picks one of them
(`part`) and leaves the others in an initial state, so that their state spaces
add up (about 580 000 states, a minute and a half on two workers) instead of
multiplying. Each of its
properties joins the properties of one subject, which stand and are explained in
their modules; `Services` shows what joins what.

### What the properties say

Ingestion:

* `OneJobPerCamera`: a camera is at most once in the task queue, in a worker's
  hands or in its buffer. The flags do not ensure it: the `finally` clause of
  the worker loop clears `read_in_flight` a second time, when the flag may
  already belong to another worker's read. It also implies that the unlocked
  `buffer.put` cannot find the buffer full.
* `NoJobDropped`: the branch that drops a dequeued job is never taken.
* `CamerasRetireOnce`: the finish tests, which add the sizes of two sets, are
  right to do so.
* `FramesArriveInOrder`, `ImplementsDelivery`: order, no loss, no duplicate,
  bounded frames in flight, and a normal end only after the last frame,
  also for a frame that is published between the consumer's timeout and its two
  tests.
* `ThreadsEndOnlyWhenDone`: without a stop no thread ends while a job or a
  frame is left.
* `WaitingCamerasAdvance`: each frame taken from another camera brings a
  waiting camera closer to its turn.
* `StopReleasesReaders`: the joins of `stop()` have a time-out of ten seconds each
  (ingestion_manager.py:173-175) and do not say how they ended, so a worker that is
  slow to read outlives `stop()` and may open its capture again after `stop()`
  closed it; such a capture stays open. The property says how far this can go: a
  worker left behind sees the stop event before it takes another job, so no more
  captures are open than workers were left behind (`abandoned`), and none if every
  join succeeded. It is checked with joins that may time out.
* `EveryFrameDelivered`, `StopEndsThreads`, `RunEndsUnlessStranded`: progress.

Run control:

* `OneUncancelledRun`: `create_run` excludes a second run. Cancelled jobs are
  excepted, because a job whose kill timed out is CANCELLED with its process
  still alive, and the next run may start; runs of a former API process too.
* `SettledWhenIdle`, `OutcomeIsStable`: three kinds of threads decide a job's
  outcome; when they are done, status, record, registration and process agree,
  and an outcome once reported changes only by a cancel in progress, or when
  the launch of an already cancelled job fails.
* `OrphansAreClosed`: a run lost in a restart is terminal.
* `CompletedMeansExitZero`: also under failing writes.
* `EveryJobSettles`, `CancelAfterBeginTerminates`: progress, the first for runs
  that end by themselves, the second for those that do not.

Track life cycle: `IdentitiesAreUnique`, `MappingFollowsTracks`,
`TracksAreAccounted`, `AgeIsAbsence` and `ObservationsGoForward`, as described
in section 1; each is an equation between what the code counts and a history,
or between two of its tables. They hold in every state, hence also in those an
exception in the middle of a frame leaves to the failure handler. A consequence
worth naming: the "duplicate finalized logical track identity" error of
`_finalize_track` cannot be raised.

Enrichment:

* `JobsMatchPending`: the main thread's books, which the worker never touches,
  agree with queue, worker and results; "Missing prepared async colour job"
  cannot be raised.
* `ClassifiedOnce`, `EveryTrackAnswered`: no job is done twice, none is lost,
  including those in flight when the run ends.
* `WorkerIdleAtEnd`: a run that ended, even by an exception, leaves no job.
* `RunAndWorkerEnd`: neither `join()` nor the marker, nor a full queue, nor the
  second finalization blocks for good.

`Services`, by subject:

* `CacheFollowsPools`, `EvidenceIsKept` (`EvidenceHasItsFrames`,
  `BestCandidateSurvives`, `CropFilesMatch`, `CropsAreSpaced`): the counts of
  frames are right after every path, a record never lacks its frame, the best
  candidate is not lost to a full pool or a search for repeats. No crop that is
  kept or recorded loses its file, and a file whose removal failed never becomes
  evidence again. Each crop comes the gap of its own profile after every earlier
  one, and there are as few as one of the profiles they were taken under allows:
  not as few as the latest, see the limits below.
* `PublishedRunsAreTrue` (`OutcomesAreTrue`, `RowsAreWhole`): a summary or an exit
  code that says COMPLETED goes with whole artifacts, one of failure with FAILED
  in both readers; rows hold no less than the files did, except after a kill.
* `NewestIsKept`, `LiveViewsAreTrue` (`ClientsCatchUp`, `ColoursAreReported`):
  order and the newest event survive overflow; a client that lost nothing knows
  every record as it is, whenever it connected; a completed run has reported
  every colour although each observation reports "pending" anew.
* `ConfigurationsHold` (`RunsReadValidConfigs`, `ClonesReplaceOnlyRivals`,
  `NoTempsLeft`, `NormalizedOnce`, `LayersDecide`, `LimitsFitTheModules`): no save,
  clone, failure or kill gives a run a torn file or one that the API would refuse,
  and one without superfluous quotes is valid for the run too; the second
  normalization of the zone changes and refuses nothing; the strongest layer wins; the
  limits are those the other modules assume.
* `PlatesHaveOwners` (`OneOwnerPerPlate`, `DecisionsAreFair`, `PlatesAreCertain`,
  `TextsAreOfPlates`): one owner within the window, whatever the order of the
  results, and no plate lost without a cause; a plate is reported as read or as
  the only valid one near it, checked against a definition over whole plates.
* `IdentitiesAgree` (`VehiclesAgree`, `PlatesOutweighOnlyGaps`, `LinksAreClear`):
  the members of a vehicle agree pairwise in any order; no two of their plates
  contradict each other, as long as plate assistance and its contradiction veto are
  on (`vehicle_identity.py:152`, `:318`; with either off they may); plates outweigh
  only the gates they may; a fragment joins only the clearly best one.
* `ImportsAreFaithful` (`RowsFollowFiles`, `RecordsFindTheirTracks`,
  `ReadersAgree`, `LiveOnlyAdds`, `LinksLeadBack`, `PlatesAreRead`): rows after an
  import are those of the files; tracks that share an id keep their own records;
  the two repositories answer alike where they mean to, and the live run hides
  nothing else.
* `AnswersAreComplete` (`NothingIsSkipped`, `SerialPagesAreExact`,
  `RepairsStayValid`, `ParserDecides`, `FollowUpsNarrow`, `RankingsAreHonest`,
  `IntervalsCoverWindows`): paging under overlapping requests skips no vehicle that
  every page of its question would let through; a plan that is executed after its
  repair is still in the catalogue and says what the parser understood; answers over
  earlier answers stay within them. `RepairsStayValid` speaks of two moments. Right
  after the repair one thing may be outside the catalogue: the operation of a
  comparison over time (`>`, `<` or `=`) that the parser read in the question and the
  repair copied into a plan without one; the check of the semantics refuses that
  plan, so that nothing accepted is outside. The property has a condition: the
  first check lets a connective pass that holds nothing but absent filters, which
  building the plan then leaves empty, and the repair brings such an operand of a
  comparison, or such a filter, along.
* `DetectionsReachTrackers` (`TrackersSeeEveryFrame`, `OnlyEligibleTracked`) and
  `AttributesAreAccounted` (`SmallCropsAreLast`, `ColoursAreAccounted`,
  `BodiesAreApart`, `AgreementCounts`): the lines above on detection and on
  attributes.

Where the code does less than one would wish without contradicting a document,
the property says what does hold, and these limits are worth knowing:

* `latest` is the newest directory for the file repository, possibly the run in
  progress, whose vehicle search then fails; for the database it is the last
  completed run. `all` lists the cameras of the newest run in one and none in the
  other. "UNKNOWN" as a class or colour matches missing values in the database
  only, and a plate filter of nothing but punctuation matches every vehicle there
  and those without a plate in the files. The database has no experiments, and
  drops a plate text that was not detected.
* `/api/tracks` merges by the local track id alone and lists live tracks whatever
  run or time was asked for.
* A comparison ignores the vehicles of the previous answer, an empty previous
  answer restricts nothing, and a limit below three has no effect on rankings.
* Two fragments that overlap may both join one earlier track, a chain may pass
  from one class over UNKNOWN to another, and equal plates of high quality may
  unite two tracks seen at the same time, because `spatial_jump` masks
  `overlap_not_same_object`.
* The older classifiers let two crops of one frame vote, and count a label too
  weak alone once another one disagrees a little.
* The crops of a track are not cut back to a profile with a lower limit, since one
  crop at most is let go at a time: `CropsAreSpaced` bounds them by a profile they
  were taken under. A crop file whose removal failed stays on disk, unrecorded.
* A configuration the API accepts may still be refused by its run, if a source or
  model path has quotes within its quotes: `create_run` validates what is left
  without them, the run what is in the file (`pipeline.py:125-132`, `:868`). A file of
  the operator can say so, and a saved one whose payload had more than the two pairs
  that one normalization takes off. `RunsReadValidConfigs` claims validity for the
  run only where normalization finds nothing to take off. The other way round, a
  camera whose source is the number 0 is refused by the API, which reads it as
  no source.
* Paging can pass a vehicle over that no page shows. The query by which evidence is
  filtered knows neither a disjunction nor "neq" (`video_chat.py:1180-1220`): of
  "cars or red ones" a page shows red cars only, of "neq CAR" only cars, and a
  plate's beginning is compared like a whole plate from the second page on, while
  the offset advances, by the number of vehicles shown, over the ids the plan
  selected. A question that loses nothing in the conversion is paged exactly
  (`SerialPagesAreExact`). A question about intervals that the model plans without a
  comparison always ends in the second attempt or the rule parser, since its repaired
  plan is refused.
* Frame number 0 is taken for "no frame" when plates are given to tracks.
* All crops outside the run's directory get one id, so that a run with two of
  them cannot be imported.

### Bounds, and why they are enough

*Ingestion.* The races are between one camera's worker, its next worker, the
scheduler and the consumer; two workers and two cameras give each of them a
second party, and the second camera makes round robin, the end of only one
source and the sum of the two sets matter. A frame queue of one is full after
one packet, a batch of two exercises collecting, and three frames of a limit of
two exercise the limit, the end and the error after some frames. Symmetry of
workers is sound: only safety is checked there. The liveness runs have one
worker, since a second one only adds fairness, and no symmetry.
*Run control.* Two jobs are needed for exclusivity, two requests for
concurrent cancels of one job; one restart separates old and new API process.
*Track life cycle.* Two cameras for ageing, two native ids for identities, five
frames for a track to be confirmed, lost for two frames, and its native id to
come back; frame numbers up to three include equal and older numbers.
*Enrichment.* Three tracks put a job into each of queue, worker and results at
once, with the main thread blocked on a full queue; three calls allow a track
to be passed again at every stage.
*Services.* Each part has the smallest sets in which its hazard occurs: two
tracks that share a frame, pools of two, two scores, two profiles that
differ in everything, one with room for a single crop (evidence); an import and a second one after the files
changed; two tracks, one client, and a queue of two that overflows with three updates; three
requests on two names, so that a clone, its rival and a start overlap, at most one of
the names an operator's file, and contents whose quotes one normalization takes off or
does not; three
claims around a window of two; three tracks for a chain, with pairs that pass,
fail by a gate that a plate outweighs, or fail by one that it does not; two
requests in one session over three vehicles and pages of two, two cars and two red
ones, and the one vehicle that is both with or without evidence; plans of every
operator and shape, and lists of up to six vehicles in two runs. The inputs of
the pure algorithms are enumerated; the sets are in `MCServices`. Of the symmetric
sets (tracks, requests, threads of a part) all permutations are taken, which is sound
as only safety is checked.
The theorems of section 6 remove the bounds for all safety properties. The inductive
invariants of those theorems were checked by TLC on the same instances, most of them
before they were proved, those of `CaptureZone`, `ConfigSaves`, `ChatSession`,
`QueryPlans` and `QueryAnswers` only afterwards.

## 5. Fairness

`Ingestion!Fairness` is weak fairness of each worker, the scheduler and the
consumer. Each loops with operations that time out, so it is always enabled or
about to be woken, and the operating system schedules every thread. A read that
never returns is excluded; the code has no defence against it either. Which
outcome a read has is not subject to fairness.

`RunControl!FairSpec` is weak fairness of each supervisor and request thread
(not of reading further log lines), and of the exit of a process that was told
to terminate, since it is killed in the end. A process that was not signalled
need not exit: properties that need it say so (`RunsEnd`). Requests are never
forced to arrive.

`Enrichment!FairSpec` is weak fairness of the main thread and of the worker:
model calls return. The main thread's calls are bounded, so the end of the run
is reached.

`TrackLifecycle` has no liveness property: it is called, and computes. Nor have
the modules of `Services`: they are called, by the run, by requests, or by an
operator, and what they promise is safety.

## 6. Proofs

The proofs hold for all values of the constants under the modules' `ASSUME`s,
which say what the configuration loader enforces (positive sizes, finite sets of
workers and tracks), what the code writes down as constants (scores and weights of
0 to 100 that add up to 100, letters that are no digits), or are bounds and
switches of the model. Markers of the code (`None`, "unknown", "no camera") are
assumed to differ from real values. TLC evaluates each assumption on the instances.
Four deserve a word:

* `ReadingAssumption` says that where a Bharat pattern has a letter of its own and
  another pattern of the same length any letter, no digit is taken for that letter. The
  patterns of the code satisfy it (the place of `B` holds a digit in every standard
  pattern, and `H` looks like no digit); without it a text could be corrected in one
  place for one pattern and not for the other.
* `RecordsAssumption` says that a recorded track is of a camera whose frames were
  recorded, as `OutputWriter` writes them, and that a path that is asked for has
  plain parts.
* `IdentityAssumption` says that two tracks seen at the same time cannot fail the
  gate on the gap between them.
* `PlanAssumption` says nothing of what a language model proposes but that it has the
  form of a plan; what the deterministic parser understood of a question is
  of fields, operators and groups the catalogue has, except the operation of a
  comparison over time. `AnswersAssumption` says that a
  question is about one run at least, that an accepted ranking has an order and a group
  (`CheckSemantics`), and that the list of vehicles has no identifier of a run twice
  (`vehicle_records_from_repository_tracks` raises, the other builder skips the second).

| module | theorem | property | invariant it rests on |
|---|---|---|---|
| `IngestionProofs` | `TypeCorrect` | `TypeOK` | with `HandsOK`: a thread in the middle of a job holds a camera, a packet, a batch |
| | `ReadsAreExclusive`, `JobsAreKept`, `RetirementIsFinal` | `OneJobPerCamera`, `NoJobDropped`, `CamerasRetireOnce` | `JobInv` |
| | `ThreadsEndInTime` | `ThreadsEndOnlyWhenDone` | `JobInv`, `EndInv` |
| | `StopReleasesAll` | `StopReleasesReaders`, with and without time-outs | `LateInv` |
| | `RoundRobinAdvances` | `WaitingCamerasAdvance` | `TypeInv` |
| | `OrderIsKept` | `FramesArriveInOrder` | `PhaseInv`, `OrderInv` |
| | `IngestionDelivers` | `ImplementsDelivery`, if the joins succeed | all of these |
| `RunControlProofs` | `TypeCorrect` | `TypeOK` | |
| | `SuccessIsReal` | `CompletedMeansExitZero` | `StageInv` |
| | `RunsAreExclusive` | `OneUncancelledRun`, if records can be written | `RunInv` |
| | `OrphansStayClosed`, `OutcomesAreStable` | `OrphansAreClosed`, `OutcomeIsStable`, if records can be written | `OutcomeInv` |
| | `IdleJobsAreSettled` | `SettledWhenIdle`, if also the interpreter is found | `OutcomeInv` |
| `TrackLifecycleProofs` | `TypeCorrect` | `TypeOK` | with `SeenBefore`, `UnseenAreLive` |
| | `IdentitiesStayUnique` | `IdentitiesAreUnique` | `IdInv` |
| | `MappingsHaveTracks` | `MappingFollowsTracks` | `IdInv`, `WaitInv` |
| | `EveryTrackIsAccounted` | `TracksAreAccounted` | `IdInv`, `AccountInv` |
| | `AgesAreAbsences` | `AgeIsAbsence` | `AgeInv` |
| | `ObservationsAreOrdered` | `ObservationsGoForward` | `LastInv` |
| `EnrichmentProofs` | `TypeCorrect` | `TypeOK`, `TasksCounted` | `TypeInv` |
| | `WorkerIsIdleAtEnd` | `WorkerIdleAtEnd` | `PhaseInv` |
| | `BooksAreRight` | `JobsMatchPending` | `Books` |
| | `TracksAreClassifiedOnce` | `ClassifiedOnce` | `OnceInv` |
| | `NoTrackIsLost` | `EveryTrackAnswered` | `AnswerInv` |
| `EvidenceProofs` | `FramesAreAccounted`, `RecordsHaveFrames`, `BestIsNeverLost` | `CacheFollowsPools`, `EvidenceHasItsFrames`, `BestCandidateSurvives` | `EvInv` |
| | `CropFilesMatchTheorem`, `CropsAreSpacedTheorem` | `CropFilesMatch`, `CropsAreSpaced` | `ZoneInv` |
| | `OneOwnerTheorem`, `DecisionsFairTheorem` | `OneOwnerPerPlate`, `DecisionsAreFair` | `PlateInv` |
| | `PlatesCertainTheorem`, `TextsOfPlatesTheorem` | `PlatesAreCertain`, `TextsAreOfPlates` | `ReadingInv` |
| `RunStateProofs` | `NewestEventIsKept` | `NewestIsKept` | `LiveInv` |
| | `EveryColourIsReported`, `EveryClientCatchesUp` | `ColoursAreReported`, `ClientsCatchUp` | `ColourInv`, `ViewInv` |
| | `OutcomesAreTrueTheorem`, `RowsAreWholeTheorem` | `OutcomesAreTrue`, `RowsAreWhole` | `PubInv` |
| | `RunsStartFromValidFiles`, `OnlyRivalsAreReplaced`, `TempsAreRemoved` | `RunsReadValidConfigs`, `ClonesReplaceOnlyRivals`, `NoTempsLeft` | `ConfigInv` |
| | `NormalizedOnceTheorem`, `LayersDecideTheorem`, `LimitsFitTheorem` | `NormalizedOnce`, `LayersDecide`, `LimitsFitTheModules` | `RulesInv` |
| `ServicesProofs` | `VehiclesAgreeTheorem`, `PlatesOutweighTheorem` | `VehiclesAgree`, `PlatesOutweighOnlyGaps` | `IdentityInv` |
| | `LinksAreClearTheorem` | `LinksAreClear` | `ReconInv` |
| | `RowsFollowFilesTheorem`, `RecordsFindTheirTracksTheorem` | `RowsFollowFiles`, `RecordsFindTheirTracks` | `ImportInv` |
| | `ReadersAgreeTheorem`, `LiveOnlyAddsTheorem`, `LinksLeadBackTheorem`, `PlatesAreReadTheorem` | `ReadersAgree`, `LiveOnlyAdds`, `LinksLeadBack`, `PlatesAreRead` | `RunsAreReal` |
| | `ChatPagesTheorem` | `NothingIsSkipped`, `SerialPagesAreExact` | `ChatInv` |
| | `PlansHoldTheorem` | `RepairsStayValid`, `ParserDecides` | `PlanInv` |
| | `AnswersHoldTheorem` | `FollowUpsNarrow`, `RankingsAreHonest`, `IntervalsCoverWindows` | `AnswersInv` |
| | `EvidenceIsKeptTheorem`, `PublishedRunsAreTrueTheorem`, `LiveViewsAreTrueTheorem`, `ConfigurationsHoldTheorem`, `PlatesHaveOwnersTheorem`, `IdentitiesAgreeTheorem`, `ImportsAreFaithfulTheorem`, `AnswersAreCompleteTheorem` | the gathered properties of those names | the theorems above |
| | `DetectionsReachTrackersTheorem` | `DetectionsReachTrackers` | `RouteInv` |
| | `AttributesAreAccountedTheorem` | `AttributesAreAccounted` | `AttrInv` |

The strengthenings, and why the properties alone are not inductive:

* *Ingestion.* `OneJobPerCamera` and `CamerasRetireOnce` need each other and
  `QueuedJobsFree`: a camera in the task queue, or in the hands of a worker that
  has not claimed it yet, has `task_enqueued` set and is neither being read nor
  retired. That is what makes the flag tested by `_schedule_read_if_possible`
  sufficient, although the flag of a read in flight may be cleared too early.
  `NothingBeforeStart` covers the step in which the first jobs are enqueued.
  `EndInv` says that without a stop a thread has left its loop only when every
  camera is retired; by `JobInv` a retired camera has neither job nor frame, and
  as no camera is in both sets the sum of their sizes counts each once.
* *Stopping.* `LateInv` keeps an account of a late stop: the captures that are open
  and the workers that can still open one (they hold a job, or are about to take
  one), added up, are no more than the workers left behind. Opening a capture moves
  one from the second number to the first, and the stop event lets nobody into the
  second again. `IngestionDelivers` rests on `StopInv` instead: if the joins succeed,
  no thread is left once the readers are closed.
* *Order of frames.* `OrderInv` follows the frames through the whole chain: the
  frame that waits in a worker's hand or in the buffer is the last one read of its
  camera (`HeldFrames`), and the batch, the frame queue and the packet the
  scheduler carries, put one after the other, hold of each camera exactly the
  frames between the last one processed and the last one taken, in their order
  (`Sound`). Two things make it subtle: after a stop the scheduler drops the packet
  it carries, which is the last of its camera (`Dropped`), and when processing
  raises the batch is emptied without having been processed, so that the invariant
  speaks of a sequence that once was the batch. `PhaseInv` ties the consumer's
  position to the end of the others and says that a capture that is not open
  starts at frame 0.
* *Refinement.* A frame within the limit that is read is `Capture`, a frame
  processed `Deliver`, a global stop or a failure `Stop`, the empty queue after the
  end of the threads `Close`; all other steps change nothing of `FrameDelivery`.
  Its window follows from the length of the sequence above. The joins must
  succeed: a worker that outlives `stop()` may open its capture again, and the
  frame numbers start over.
* *Run control.* `StageInv` relates the stage of a supervisor to the process: it
  finishes a job only after the process exited, nothing is registered before it
  was launched, and a COMPLETED record or status goes with exit code 0; a
  request works only on a job that exists. `RunInv` adds that of the jobs
  nobody cancelled a running process means an active status and a supervisor
  before its registration means STARTING, so that "at most one active job" also
  excludes a process that `create_run` does not see. `OutcomeInv` is what holds
  of a job whoever is acting on it: the record on disk has its status; a job
  without a supervisor is closed; before its process is registered only a cancel
  touches the status; afterwards a verdict, once there, is that of the exit code.
* *Identities.* A number that is mapped, or that a live track carries, is
  below the next number and not finalized, and a live track's number is its
  mapping; then a fresh number collides with nothing, and a finalized one was
  unmapped in the same step.
* *Mappings.* Within a frame a mapping may have no track, if its detection has
  still to be applied: `WaitInv` says just that.
* *Account.* The three sets are finite and the finalized identity of a track is
  new, so that both sides of the count grow by one.
* *Age.* While a frame is applied, the tracks of its camera either have caught
  up (seen in it, or already visited as missing) or lag by exactly one. `AgeInv`
  tracks the two groups through the loops.
* *Enrichment.* `TasksCounted` (the tasks `join()` waits for are the jobs in the
  queue and the one the worker holds) turns "joined" into "no job is queued or
  worked on". `PhaseInv` carries this through the phases of the shutdown, of
  which there may be two. `Books` partitions the pending tracks by place.
  `OnceInv` counts a track's classifications: none while its job waits, one once
  it was delivered or completed. `AnswerInv` accounts for every submission of a
  track as answered, skipped, or at one place.
* *Evidence.* Between the steps of a call a count is not the number of tracks in
  whose pool a frame occurs: candidates given back wait in `held`. `Counted` adds
  them, and `Cached` says that the frames in memory are those with a count above
  zero; `PoolsAreSound` (a pool has one candidate of a frame, and is empty once
  its track has ended) makes raising and lowering a count by one right.
* *Crop files.* `CropsAreSound`: the crops kept of a track are of different frames,
  none later than its last capture. `HistoriesAreSound`: what was once kept of a live
  track, or could not be removed, is of a frame it has been seen in, so that no later
  crop takes the name of a file left behind. `RecordsAreSound` keeps the records to
  tracks that are gone. `OneIsLetGo` shows that the order of crops leaves exactly one
  to let go, whatever the scores, and with it the number of crops never grows beyond
  the limit of the profile that last let it grow.
* *Attributes.* `CallsCohere` relates the calls still to make, the answers there are and
  the notes on the crops: colour calls come before body calls, one for each crop and none
  made before; the crops of body calls, made or not, are apart; with the adaptive strategy
  nothing is asked about the colour after a colour was named; a row has no reason exactly if
  its crop is or was asked about. `ResultIsDerived` ties the result to the votes. That
  agreement never undoes a label needs what it means to win a vote (`Wins`: the least weight
  if unopposed, else a clear lead and three fifths of the total), that the decision picks
  just such a label (`DecisionMeansWinning`), and how a sum of weights changes by one vote.
* *Plate owners.* The code sorts claims, cuts them into clusters and asks for a clear
  best one; a stable sort leaves claims of one frame in the order of their arrival.
  `KeptPlates` says which tracks keep their plate without any order, in terms of chains
  of claims that are near in time, and the long part of the proof is that the resolution
  computes it from every arrival (`ResolveIsKept` and the lemmas above it). `PlateInv` is
  then short.
* *Plate texts.* `ReadingInv` says that a completed reading has the canonical form of
  what was read. The rest is about functions: the candidates generated look-alike by
  look-alike and pattern by pattern are the valid plates within two corrections.
* *Live events.* `QueuesSound` orders each queue by update number, between the
  last event its client took and the newest published to it; `ThreadSound` says
  where the event being published stands between the two puts. `ColourInv` says
  of each phase of the run which tracks may still be pending: any in the loop,
  those in `uncoloured` while the late colours are reported, none afterwards.
* *Views.* The last a client hears of a record is what it holds (`Follows`): the event
  being published, or the last of its queue that names it, or what its view says. A
  snapshot is read in two parts while events go on, so that a client that has read
  only one has been told nothing of the other (`Told`). An overrun exempts a client
  for good.
* *Publication.* `BodyWrites` and `HandlerWrites` say of each position of the two scripts
  which files are whole and which status they show; `ImportsAreLate` that rows appear
  only at the end, and which; a torn file is the one being written.
* *Configuration.* Whatever is being written is accepted (`PayloadsAreAccepted`), and
  the file a start was checked against stays one that a check would let pass, whoever
  replaces it (`StartsStayAdmitted`); a clone that passed its test finds its target free or a
  rival's (`NameFreeOrRivals`, `RivalsKnown`); a temporary file belongs to a
  request that is still writing (`TempsAreOpen`).
* *Settings.* `StagesAreEarned` says what each stage of the validation has established;
  that a second normalization changes nothing follows because a complete profile is
  not changed by what completes it, and that the strongest layer wins from a lemma on
  folding layers over one another.
* *Detection.* Without isolation a camera has the one tracker "camera", so that no tracker
  is created while another of the camera has already seen frames.
* *Vehicles.* `MembersAgree` is `VehiclesAgree` in terms of the rows of pairs that were
  computed, and `RowsAreOfPairs` says they were computed for all pairs of placed tracks.
  The gates are ordered, and the proof of `PlatesOutweighOnlyGaps` is about that order.
* *Links.* A link was the clearly best one when it was made, which is not the same as the
  best there is at the end; `LinksMakeVehicles` says that two tracks are in one vehicle
  exactly if their links lead back to the same track, by a function from tracks to
  their roots that every new link extends.
* *Import.* `LastImportHolds` says that after a successful import the rows are those of
  the files (`StoredIsOfRun` and `GroupsCompleted` make up for an import that failed); the
  rest is about naming: no two tracks have one name (`NameOf`), so that a record is
  stored with the track it is of, and each completed track is a member of its vehicle.
* *Readers.* `RunsAreReal`: a run has rows only if it finished, and the finished runs are
  listed once each in the order of finishing. The answers are functions of that, and the
  theorems compare them filter by filter.
* *Conversation.* `ChatCoherent` is what a context promises to whoever goes on from it: all
  ids before the offset that pass both filters of the question were shown or cannot be,
  and each page keeps that because it moves over no more than its own slice. It is kept by the session and by every
  context a request has read, since what has been shown only grows; so a request may
  overwrite the session with an older context and still nothing is skipped. With
  requests that never overlap the context read is the session (`SerialRequests`), and the
  trail is the part of the ids before the offset.
* *Plans.* `StagesInv` says at each stage what the stages before it made of the
  proposal: after the check the filters are the normalized ones without what was absent
  (`BuiltFrom`), and the proposal, not only what was built of it, was in the catalogue. The
  rest is about filters: that a conjunction, a negation, the dropping of fields and of
  what is absent yield filters again, in the catalogue if they were, and which
  conditions they add and keep (`AndFacts`, `OnlyFieldsFacts`, `BuiltFacts`,
  `WithMentionsFacts`, `WithCandidateFacts`). `OnlyFields` keeps of a negation
  one filter only, so that what the parser does not decide is kept where no negation of
  the proposal has several (`Simple`). The repair is not followed by a second check
  of the schema; `RepairedIsValid` shows that all it may break is the operation of a
  comparison, which the check of the semantics looks at again.
* *Answers.* `AnswersInv` says that every answer is what executing an accepted plan gives,
  with the identifiers of the answer before it where the plan refers to those. That a
  follow-up stays within the answer before it is the fact that in one set of runs an
  identifier is that of one vehicle (`IdsIdentify`); a ranking is honest because the
  groups can be listed by their counts (`ByCountLists`) and the listing is
  cut after the last that shares the first place (`WinnersFirst`, `ListingIsHonest`). For
  intervals, `Covers` says of the windows below `n` that exactly those where the comparison
  holds are covered, in order and without touching equals; each of the three things that
  can become of a window keeps it (`WindowIsSkipped`, `WindowIsAppended`,
  `WindowIsJoined`), and so does the recursive function over all windows.

Sums, folds and recursive functions are handled without induction over data: a
recursive function over `0 .. N` is unfolded by `RecursionExists` (`DataFacts`), and
what holds of all its values is shown by the least value for which it does not. A sum
is the number of the units its terms consist of (`Units`, `SumIsCount`), so that
cardinality does the rest.

Only model-checked:

* everything temporal under fairness (`EveryFrameDelivered`, `StopEndsThreads`,
  `RunEndsUnlessStranded`, `EveryJobSettles`, `CancelAfterBeginTerminates`,
  `RunAndWorkerEnd`), which is outside the prover's scope. Every invariant and every
  action property the runs check is proved, some of them under the conditions that the
  table names.

`tlapm` checks each proof module; `tlc -config X.cfg M` each run.

## 7. Where the code disagrees with its documents

* **A camera can be left without a read job** (`IngestionStranded`). A worker
  puts a frame into the buffer and only afterwards, in another critical section,
  resets `read_in_flight`. If the scheduler takes the frame in between,
  `_schedule_read_if_possible` finds the flag set and does not enqueue the
  camera, and nothing enqueues it later. The camera is never completed and the
  run never ends. `docs/WORKER_QUEUE_ARCHITECTURE.md` says that the camera is
  re-enqueued when its frame is scheduled, and that each camera continues to its
  own end.
* **A global stop does not end the run** (`IngestionGlobalStop`). With
  `stop_on_camera_error` the threads end, but `is_finished` still asks for every
  camera and for empty buffers, so the main loop polls an empty queue for ever.
* **A cancel can be forgotten** (`RunControlLateStart`). One that precedes the
  supervisor's first step finds no process and marks the job CANCELLED; the
  supervisor then sets STARTING unconditionally and runs the pipeline.
* **`fail_open` does not cover asynchronous results** (`EnrichmentFailOpen`).
  The result of a colour job is completed on the main thread, where the plate is
  read, outside any test of `fail_open`; an exception there fails the run. The
  synchronous path guards the same work.
* **A killed run is listed as completed** (`KilledRuns`). `docs/RUN_CONTROL.md` says
  that partial artifacts are not reported as completed unless the process exits
  successfully. `run_pipeline` writes COMPLETED into the metadata before the
  artifacts that follow it, and a cancel kills the process; the repository then
  reports the run by its metadata.

## 8. What is not modelled

* Neural inference, image processing, OCR and the language model: external, and
  without state that the rest depends on, except through results, which are
  inputs of the modelled actions. Likewise ByteTrack's matching of boxes.
* Metrics, logging, texts, the layout of reports and charts, debug images.
* Of ingestion, throttling; of the track life cycle, the vote on a track's class;
  of run control, the parsing of log lines.
* Of detection, the matching of the isolation mode's shadow trackers, and the
  choice of devices. Of plates, the `OCR_MUKUL` backend of the reader.
* Of the import, typed columns, mapping reports and the schema contract. Of the
  configuration, the catalogue for the user interface. Of the API, the remaining
  read-only endpoints and the older dashboard server. Of the video chat, the
  parser of questions (an input), wording and summaries.
* Box tuning and the other experiments, diagnostics, dashboard and benchmarks:
  offline tools and user interface. The clustering in
  `vehicle_identity_experiment.py` is modelled, since the pipeline uses it.

Hazards the code has and no property covers: `set_env_file_value`
(`src/env_loader.py:45`) reads, changes and writes a file that others may change in
between; the handler of `/ws/live` waits for its queue with a blocking call on the
event loop (`src/api_app.py:771`), which the model allows as any delay of a client;
the metrics claim that two model calls never overlap
(`src/vehicle_enrichment/enrichment_manager.py:749`), although a plate may be read on
the main thread while the worker classifies; and evidence settings that validation
does not know are dropped without a word.

## 9. What could come next

1. A composition of `TrackLifecycle`, `EvidenceCache` and `Enrichment`, which share
   the identities of tracks; each assumes of the others what those modules
   show of themselves (`MappingFollowsTracks`, `TracksAreAccounted`).
2. The remaining endpoints of the API, as far as they combine live and stored
   state.
