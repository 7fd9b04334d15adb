--------------------------- MODULE DetectorRouting ---------------------------
(***************************************************************************)
(* VehicleDetectorTracker of src/detector_tracker.py, as run_pipeline      *)
(* drives it: frames of all cameras are detected in one batch, and each    *)
(* result is routed to the trackers of its camera.                         *)
(*                                                                         *)
(* The model and ByteTrack are external: a raw result is any small set of  *)
(* detections, and of a tracker only what it is given is kept.  There is   *)
(* one tracker per camera, or one per camera and class ("isolation mode"); *)
(* ByteTrack ages its tracks by its own updates, so that a tracker that    *)
(* misses a frame of its camera keeps lost tracks for too long.            *)
(***************************************************************************)
EXTENDS Naturals, Sequences, FiniteSets

CONSTANTS
    RouteCameras,   \* cameras
    RawDetections,  \* what the model may report: records of class and box
    MaxRaw,         \* bound: detections of one frame
    MaxBatch,       \* detection.batch.max_size
    MaxRouted       \* bound: frames of one camera

VARIABLES
    perClass,       \* isolation mode "per_camera_class"
    tensor,         \* the OCR_MUKUL backend hands on the model's own result
    quality,        \* bbox_quality_enabled
    roi,            \* cameras with a tracking ROI
    batch,          \* packets of the current batch that are not routed yet
    trackers,       \* _trackers: per key the number of updates
    routed,         \* frames routed per camera
    since,          \* history: frames of the camera before a tracker existed
    fed,            \* what the last packet gave to trackers
    loop            \* "running", "failed" or "finished"

routeVars == <<perClass, tensor, quality, roi, batch, trackers, routed, since, fed, loop>>

AllowedClasses == {"car", "truck"}

RouteAssumption ==
    /\ IsFiniteSet(RouteCameras) /\ IsFiniteSet(RawDetections)
    /\ RawDetections \subseteq [class : AllowedClasses \cup {"other"},
                                box : {"fine", "small", "outside", "broken"}]
    /\ MaxRaw \in Nat /\ MaxBatch \in Nat \ {0} /\ MaxRouted \in Nat
ASSUME RouteAssumption

-----------------------------------------------------------------------------
(* What of a raw result may be tracked.                                    *)

(* _convert_yolo_result: allowed classes and boxes with an area.           *)
Converted(raw) == {d \in raw : d.class \in AllowedClasses /\ d.box # "broken"}

(* filter_detections: a box that fails its class's quality profile.        *)
Accepted(raw) == {d \in Converted(raw) : quality => d.box # "small"}

(* filter_detections_by_tracking_roi.                                      *)
Eligible(camera, raw) == {d \in Accepted(raw) : camera \in roi => d.box # "outside"}

(* _to_ocr_mukul_supervision_detections: the model's own tensors, less the *)
(* other classes, are handed on if they are as many as the detections that *)
(* are left, and otherwise those detections.                               *)
FaultyHandedOn(camera, raw) ==
    IF tensor /\ ~perClass THEN {d \in raw : d.class \in AllowedClasses} ELSE Eligible(camera, raw)
HandedOn(camera, raw) ==
    LET own == {d \in raw : d.class \in AllowedClasses}
        left == Eligible(camera, raw)
    IN  IF tensor /\ ~perClass /\ Cardinality(own) = Cardinality(left) THEN own ELSE left

-----------------------------------------------------------------------------
(* Trackers.                                                               *)

(* _build_tracker_key.                                                     *)
Key(camera, namespace) == <<camera, IF perClass THEN namespace ELSE "camera">>

(* The trackers a frame updates: the camera's, or those of the classes it  *)
(* has had before and of those it shows now.                               *)
Namespaces(camera, detections) ==
    IF ~perClass THEN {"camera"}
    ELSE {key[2] : key \in {k \in DOMAIN trackers : k[1] = camera}} \cup {d.class : d \in detections}

(* What one of them is given.                                              *)
Share(namespace, detections) ==
    IF perClass THEN {d \in detections : d.class = namespace} ELSE detections

-----------------------------------------------------------------------------

RouteInit ==
    /\ perClass \in BOOLEAN /\ tensor \in BOOLEAN /\ quality \in BOOLEAN
    /\ tensor => ~perClass          \* the configuration demands it
    /\ roi \in SUBSET RouteCameras
    /\ batch = <<>>
    /\ trackers = [key \in {} |-> 0] /\ since = [key \in {} |-> 0]
    /\ routed = [c \in RouteCameras |-> 0]
    /\ fed = {}
    /\ loop = "running"

Modes == <<perClass, tensor, quality, roi>>

(* A batch is collected and detected in one call of the model.             *)
DetectBatch ==
    /\ loop = "running" /\ batch = <<>>
    /\ \E n \in 1..MaxBatch :
          \E cameras \in [1..n -> RouteCameras] :
          \E raws \in [1..n -> {raw \in SUBSET RawDetections : Cardinality(raw) <= MaxRaw}] :
             /\ \A c \in RouteCameras :
                   routed[c] + Cardinality({i \in 1..n : cameras[i] = c}) <= MaxRouted
             /\ batch' = [i \in 1..n |-> [camera |-> cameras[i], raw |-> raws[i]]]
    /\ UNCHANGED <<Modes, trackers, since, routed, fed, loop>>

(* The model raises, or returns another number of results than it was      *)
(* given frames: the run fails.                                            *)
DetectionFails ==
    /\ loop = "running" /\ batch = <<>>
    /\ loop' = "failed"
    /\ UNCHANGED <<Modes, batch, trackers, since, routed, fed>>

(* process_frames, for the next packet of the batch: its detections are    *)
(* filtered and given to its camera's trackers, which are created as they  *)
(* are needed.                                                             *)
RoutePacket ==
    /\ loop = "running" /\ batch # <<>>
    /\ LET camera     == Head(batch).camera
           detections == HandedOn(camera, Head(batch).raw)
           spaces     == Namespaces(camera, detections)
           keys       == {Key(camera, s) : s \in spaces}
           known      == DOMAIN trackers
       IN  /\ trackers' = [k \in known \cup keys |->
                 (IF k \in known THEN trackers[k] ELSE 0) + (IF k \in keys THEN 1 ELSE 0)]
           /\ since' = [k \in known \cup keys |->
                 IF k \in known THEN since[k] ELSE routed[camera]]
           /\ fed' = UNION {[key : {Key(camera, s)}, camera : {camera},
                                       detection : Share(s, detections)] : s \in spaces}
           /\ routed' = [routed EXCEPT ![camera] = @ + 1]
    /\ batch' = Tail(batch)
    /\ UNCHANGED <<Modes, loop>>

(* The loop is over: reset_camera for every camera.                        *)
FinishRouting ==
    /\ loop = "running" /\ batch = <<>>
    /\ loop' = "finished"
    /\ trackers' = [key \in {} |-> 0] /\ since' = [key \in {} |-> 0]
    /\ UNCHANGED <<Modes, batch, routed, fed>>

RouteNext == DetectBatch \/ DetectionFails \/ RoutePacket \/ FinishRouting
RouteSpec == RouteInit /\ [][RouteNext]_routeVars

-----------------------------------------------------------------------------
(* Every tracker was updated once for each frame of its camera since it    *)
(* exists, also for frames that show nothing of its class, and for no      *)
(* frame of another camera.                                                *)
TrackersSeeEveryFrame ==
    \A key \in DOMAIN trackers : trackers[key] = routed[key[1]] - since[key]

(* A tracker is given detections of its own camera and class only, and     *)
(* none that a filter had rejected, although the OCR_MUKUL backend hands   *)
(* on the model's unfiltered result when the numbers agree.                *)
OnlyEligibleTracked ==
    \A f \in fed :
        /\ f.key[1] = f.camera
        /\ perClass => f.key[2] = f.detection.class
        /\ f.detection \in Eligible(f.camera, {f.detection})

=============================================================================
