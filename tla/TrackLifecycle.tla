--------------------------- MODULE TrackLifecycle ---------------------------
(***************************************************************************)
(* TrackManager (src/track_manager.py), driven by run_pipeline the way its *)
(* main loop drives it: for each frame, logical identities are assigned to *)
(* the tracker's native ids, the frame's detections are applied, and the   *)
(* tracks that were not seen age; at the end of the run, or when anything  *)
(* raised, the tracks still live are flushed.                              *)
(*                                                                         *)
(* One action is one pass of a loop of the code, or one early return or    *)
(* exception.  The manager holds its lock for whole calls and run_pipeline *)
(* is its only writer, so that nothing comes between the passes.           *)
(*                                                                         *)
(* Abstracted: boxes, confidences and timestamps, the classes of a track   *)
(* and their vote, the counters of _metrics, and the pair of namespace and *)
(* native id, which is one member of Natives.                              *)
(***************************************************************************)
EXTENDS Naturals, Sequences, FiniteSets, Functions

CONSTANTS
    Cameras,           \* the cameras of the run
    Natives,           \* the native ids a tracker may report for a camera
    MinObservations,   \* lifecycle.minimum_observations
    MaxLost,           \* lifecycle.maximum_lost_frames
    MaxFrame,          \* bound: the frame numbers
    MaxUpdates,        \* bound: the frames applied to all cameras together
    OldFrames,         \* bound: whether a frame may arrive with an old number
    RepeatedIds        \* bound: whether a frame may hold a native id twice

ASSUME LimitsAssumption ==
    /\ IsFiniteSet(Natives)
    /\ MinObservations \in Nat \ {0}
    /\ MaxLost \in Nat
    /\ MaxFrame \in Nat
    /\ MaxUpdates \in Nat
    /\ OldFrames \in BOOLEAN
    /\ RepeatedIds \in BOOLEAN

VARIABLES
    tracks,       \* _tracks: the live track of a camera and native id
    logical,      \* _native_to_active_logical, 0 for no entry
    nextNumber,   \* _next_logical_track_number_by_camera
    finalized,    \* _finalized_logical_identities
    completed,    \* _completed_tracks
    discarded,    \* _discarded_tracks
    lastFrame,    \* _last_frame_by_camera, 0 before the first frame
    updates,      \* history: the frames applied to each camera
    pc,           \* where the main loop is
    frame,        \* the frame it works on: camera, number, detections
    todo,         \* what the current loop has still to look at
    unseen        \* the live tracks _mark_missing_tracks has still to visit

vars == <<tracks, logical, nextNumber, finalized, completed, discarded,
          lastFrame, updates, pc, frame, todo, unseen>>

Key == Cameras \X Natives
NoTrack == [id |-> 0]
NoFrame == [number |-> 0]
LiveStatus == {"TENTATIVE", "ACTIVE", "LOST"}
Reasons == {"LOST_TIMEOUT", "END_OF_STREAM", "INSUFFICIENT_OBSERVATIONS"}

Track == [id : Nat \ {0}, status : LiveStatus, count : Nat, lost : Nat,
          last : Nat, frames : SUBSET Nat, seenAt : Nat]
FinalTrack == [camera : Cameras, id : Nat \ {0}, count : Nat, lost : Nat,
               missed : Nat, reason : Reasons]
Frame == [camera : Cameras, number : Nat, natives : Seq(Natives)]

Live == {k \in Key : tracks[k] # NoTrack}

TypeOK ==
    /\ tracks \in [Key -> Track \cup {NoTrack}]
    /\ logical \in [Key -> Nat]
    /\ nextNumber \in [Cameras -> Nat \ {0}]
    /\ finalized \subseteq Cameras \X Nat
    /\ completed \subseteq FinalTrack
    /\ discarded \subseteq FinalTrack
    /\ lastFrame \in [Cameras -> Nat]
    /\ updates \in [Cameras -> Nat]
    /\ pc \in {"idle", "assign", "order", "update", "missing", "flush", "closed"}
    /\ frame \in Frame \cup {NoFrame}
    /\ pc \in {"assign", "order", "update", "missing"} => frame # NoFrame
    /\ todo \in Seq(Natives)
    /\ unseen \subseteq Key

Init ==
    /\ tracks = [k \in Key |-> NoTrack]
    /\ logical = [k \in Key |-> 0]
    /\ nextNumber = [c \in Cameras |-> 1]
    /\ finalized = {} /\ completed = {} /\ discarded = {}
    /\ lastFrame = [c \in Cameras |-> 0]
    /\ updates = [c \in Cameras |-> 0]
    /\ pc = "idle" /\ frame = NoFrame /\ todo = <<>> /\ unseen = {}

-----------------------------------------------------------------------------
(* Helpers *)

(* _promote_if_ready *)
StatusFor(count) == IF count >= MinObservations THEN "ACTIVE" ELSE "TENTATIVE"

(* _with_logical_track_id and _allocate_logical_track_id *)
LogicalId(k) == IF logical[k] # 0 THEN logical[k] ELSE nextNumber[k[1]]
(* Mutant: an existing mapping is not looked at. *)
FaultyAssignLogicalId(k) ==
    /\ logical' = [logical EXCEPT ![k] = nextNumber[k[1]]]
    /\ nextNumber' = [nextNumber EXCEPT ![k[1]] = @ + 1]
AssignLogicalId(k) ==
    IF logical[k] # 0
    THEN UNCHANGED <<logical, nextNumber>>
    ELSE /\ logical' = [logical EXCEPT ![k] = nextNumber[k[1]]]
         /\ nextNumber' = [nextNumber EXCEPT ![k[1]] = @ + 1]

(* What _finalize_track stores of track t of camera c. *)
Closed(c, t, reason) ==
    [camera |-> c, id |-> t.id, count |-> t.count, lost |-> t.lost,
     missed |-> updates[c] - t.seenAt,
     reason |-> IF t.count < MinObservations /\ reason # "END_OF_STREAM"
                THEN "INSUFFICIENT_OBSERVATIONS" ELSE reason]

(* _finalize_track: the entries of the native id are dropped first; an     *)
(* identity that was finalized before raises.                              *)
(* Mutants: the mapping of the native id is kept; the threshold is missed  *)
(* by one.                                                                 *)
KeepingFinalize(k, t, reason, next) ==
    /\ tracks' = [tracks EXCEPT ![k] = NoTrack]
    /\ pc' = next
    /\ finalized' = finalized \cup {<<k[1], t.id>>}
    /\ completed' = completed \cup {Closed(k[1], t, reason)}
    /\ UNCHANGED <<logical, discarded>>
StrictFinalize(k, t, reason, next) ==
    /\ tracks' = [tracks EXCEPT ![k] = NoTrack]
    /\ logical' = [logical EXCEPT ![k] = 0]
    /\ pc' = next
    /\ finalized' = finalized \cup {<<k[1], t.id>>}
    /\ IF t.count > MinObservations
       THEN /\ completed' = completed \cup {Closed(k[1], t, reason)}
            /\ UNCHANGED discarded
       ELSE /\ discarded' = discarded \cup {Closed(k[1], t, reason)}
            /\ UNCHANGED completed
Finalize(k, t, reason, next) ==
    /\ tracks' = [tracks EXCEPT ![k] = NoTrack]
    /\ logical' = [logical EXCEPT ![k] = 0]
    /\ IF <<k[1], t.id>> \in finalized
       THEN pc' = "flush" /\ UNCHANGED <<finalized, completed, discarded>>
       ELSE /\ pc' = next
            /\ finalized' = finalized \cup {<<k[1], t.id>>}
            /\ IF t.count >= MinObservations
               THEN /\ completed' = completed \cup {Closed(k[1], t, reason)}
                    /\ UNCHANGED discarded
               ELSE /\ discarded' = discarded \cup {Closed(k[1], t, reason)}
                    /\ UNCHANGED completed

-----------------------------------------------------------------------------
(* One frame *)

Detections == {s \in UNION {[1 .. n -> Natives] : n \in 0 .. Cardinality(Natives)} :
                 RepeatedIds \/ \A i, j \in DOMAIN s : s[i] = s[j] => i = j}

(* The next packet of the batch and what the detector and tracker made of  *)
(* it; assign_logical_track_ids starts.                                    *)
BeginFrame(c, n, natives) ==
    /\ pc = "idle"
    /\ FoldFunction(+, 0, updates) < MaxUpdates
    /\ OldFrames \/ n > lastFrame[c]
    /\ pc' = "assign"
    /\ frame' = [camera |-> c, number |-> n, natives |-> natives]
    /\ todo' = natives
    /\ UNCHANGED <<tracks, logical, nextNumber, finalized, completed, discarded,
                   lastFrame, updates, unseen>>

AssignOne ==
    /\ pc = "assign"
    /\ todo # <<>>
    /\ AssignLogicalId(<<frame.camera, Head(todo)>>)
    /\ todo' = Tail(todo)
    /\ UNCHANGED <<tracks, finalized, completed, discarded, lastFrame, updates,
                   pc, frame, unseen>>

(* The evidence of the frame is registered under the assigned identities.  *)
AssignDone ==
    /\ pc = "assign"
    /\ todo = <<>>
    /\ pc' = "order"
    /\ UNCHANGED <<tracks, logical, nextNumber, finalized, completed, discarded,
                   lastFrame, updates, frame, todo, unseen>>

(* update_frame, _validate_frame_order: an older frame raises, the same one *)
(* again does not.                                                         *)
(* Mutant: an older frame is let through. *)
FaultyCheckOrder ==
    /\ pc = "order"
    /\ pc' = "update"
    /\ lastFrame' = [lastFrame EXCEPT ![frame.camera] = frame.number]
    /\ updates' = [updates EXCEPT ![frame.camera] = @ + 1]
    /\ todo' = frame.natives
    /\ UNCHANGED <<tracks, logical, nextNumber, finalized, completed, discarded,
                   frame, unseen>>
CheckOrder ==
    /\ pc = "order"
    /\ IF frame.number < lastFrame[frame.camera]
       THEN pc' = "flush" /\ UNCHANGED <<lastFrame, updates, todo>>
       ELSE /\ pc' = "update"
            /\ lastFrame' = [lastFrame EXCEPT ![frame.camera] = frame.number]
            /\ updates' = [updates EXCEPT ![frame.camera] = @ + 1]
            /\ todo' = frame.natives
    /\ UNCHANGED <<tracks, logical, nextNumber, finalized, completed, discarded,
                   frame, unseen>>

(* _create_track_from_detection and _append_observation *)
NewTrack(id, c) ==
    [id |-> id, status |-> StatusFor(1), count |-> 1, lost |-> 0,
     last |-> frame.number, frames |-> {frame.number}, seenAt |-> updates[c]]
Observed(t, c) ==
    [id |-> t.id, status |-> StatusFor(t.count + 1), count |-> t.count + 1,
     lost |-> 0, last |-> frame.number, frames |-> t.frames \cup {frame.number},
     seenAt |-> updates[c]]

(* One detection of update_frame.  A native id whose live track has another *)
(* identity, and a second observation in one frame, raise.                 *)
UpdateOne ==
    /\ pc = "update"
    /\ todo # <<>>
    /\ LET k == <<frame.camera, Head(todo)>>
           t == tracks[k]
       IN /\ AssignLogicalId(k)
          /\ \/ /\ t = NoTrack
                /\ tracks' = [tracks EXCEPT ![k] = NewTrack(LogicalId(k), k[1])]
                /\ todo' = Tail(todo) /\ UNCHANGED pc
             \/ /\ t # NoTrack
                /\ t.id # LogicalId(k) \/ frame.number \in t.frames
                /\ pc' = "flush" /\ UNCHANGED <<tracks, todo>>
             \/ /\ t # NoTrack
                /\ t.id = LogicalId(k) /\ frame.number \notin t.frames
                /\ tracks' = [tracks EXCEPT ![k] = Observed(t, k[1])]
                /\ todo' = Tail(todo) /\ UNCHANGED pc
    /\ UNCHANGED <<finalized, completed, discarded, lastFrame, updates, frame,
                   unseen>>

Present == {<<frame.camera, frame.natives[i]>> : i \in DOMAIN frame.natives}

(* _mark_missing_tracks: the live tracks of this camera, the present ones  *)
(* excepted.                                                               *)
(* Mutant: the tracks of the other cameras age as well. *)
FaultyBeginMissing ==
    /\ pc = "update"
    /\ todo = <<>>
    /\ pc' = "missing"
    /\ unseen' = Live \ Present
    /\ UNCHANGED <<tracks, logical, nextNumber, finalized, completed, discarded,
                   lastFrame, updates, frame, todo>>
BeginMissing ==
    /\ pc = "update"
    /\ todo = <<>>
    /\ pc' = "missing"
    /\ unseen' = {k \in Live : k[1] = frame.camera} \ Present
    /\ UNCHANGED <<tracks, logical, nextNumber, finalized, completed, discarded,
                   lastFrame, updates, frame, todo>>

MissOne(k) ==
    LET t == [tracks[k] EXCEPT !.lost = @ + 1, !.status = "LOST"] IN
    /\ pc = "missing"
    /\ k \in unseen
    /\ unseen' = unseen \ {k}
    /\ IF t.lost > MaxLost
       THEN Finalize(k, t, "LOST_TIMEOUT", "missing")
       ELSE /\ tracks' = [tracks EXCEPT ![k] = t]
            /\ UNCHANGED <<logical, finalized, completed, discarded, pc>>
    /\ UNCHANGED <<nextNumber, lastFrame, updates, frame, todo>>

EndFrame ==
    /\ pc = "missing"
    /\ unseen = {}
    /\ pc' = "idle"
    /\ frame' = NoFrame
    /\ UNCHANGED <<tracks, logical, nextNumber, finalized, completed, discarded,
                   lastFrame, updates, todo, unseen>>

-----------------------------------------------------------------------------
(* The end of the run *)

(* No packet is left; or detection, evidence or enrichment raised, or the  *)
(* box of a detection is not valid, while identities are assigned or the   *)
(* detections applied.                                                     *)
Stop ==
    /\ \/ pc \in {"idle", "order"}
       \/ pc \in {"assign", "update"} /\ todo # <<>>
    /\ pc' = "flush"
    /\ UNCHANGED <<tracks, logical, nextNumber, finalized, completed, discarded,
                   lastFrame, updates, frame, todo, unseen>>

(* flush_camera of every camera, or flush_all *)
FlushOne(k) ==
    /\ pc = "flush"
    /\ k \in Live
    /\ Finalize(k, tracks[k], "END_OF_STREAM", "flush")
    /\ UNCHANGED <<nextNumber, lastFrame, updates, frame, todo, unseen>>

FlushDone ==
    /\ pc = "flush"
    /\ Live = {}
    /\ pc' = "closed"
    /\ UNCHANGED <<tracks, logical, nextNumber, finalized, completed, discarded,
                   lastFrame, updates, frame, todo, unseen>>

Terminated == pc = "closed" /\ UNCHANGED vars

Next ==
    \/ \E c \in Cameras, n \in 1 .. MaxFrame, natives \in Detections :
          BeginFrame(c, n, natives)
    \/ AssignOne \/ AssignDone \/ CheckOrder \/ UpdateOne \/ BeginMissing
    \/ \E k \in Key : MissOne(k) \/ FlushOne(k)
    \/ EndFrame \/ Stop \/ FlushDone \/ Terminated

Spec == Init /\ [][Next]_vars

-----------------------------------------------------------------------------
(* Properties *)

(* A logical identity belongs to one native id for one lifetime: no two    *)
(* native ids of a camera are mapped to the same number, no number that    *)
(* was finalized is in use, and numbers are not handed out again.  So the  *)
(* "duplicate finalized logical track identity" error cannot be raised.    *)
IdentitiesAreUnique ==
    /\ \A k, l \in Key :
          k[1] = l[1] /\ logical[k] # 0 /\ logical[k] = logical[l] => k = l
    /\ \A k \in Key :
          logical[k] # 0 => /\ <<k[1], logical[k]>> \notin finalized
                            /\ logical[k] < nextNumber[k[1]]
    /\ \A f \in finalized : f[2] < nextNumber[f[1]]

(* A live track carries the identity its native id is mapped to, and       *)
(* between two frames there is no mapping without a track: evidence that   *)
(* was registered under an assigned identity finds its track.              *)
MappingFollowsTracks ==
    /\ \A k \in Live : tracks[k].id = logical[k]
    /\ pc = "idle" => \A k \in Key : logical[k] # 0 => k \in Live

(* Every identity that was handed out and is mapped no more was finalized, *)
(* once, as completed or as discarded according to its observations.       *)
TracksAreAccounted ==
    /\ \A c \in Cameras : \A n \in 1 .. nextNumber[c] - 1 :
          <<c, n>> \in finalized \/ \E k \in Key : k[1] = c /\ logical[k] = n
    /\ finalized = {<<t.camera, t.id>> : t \in completed \cup discarded}
    /\ Cardinality(finalized) = Cardinality(completed) + Cardinality(discarded)
    /\ \A t \in completed : t.count >= MinObservations
    /\ \A t \in discarded : t.count < MinObservations

(* A track ages by one for each frame of its own camera it is missing      *)
(* from, is revived by any observation, and times out exactly when the     *)
(* camera has had MaxLost + 1 frames without it.                           *)
AgeIsAbsence ==
    /\ pc = "idle" => \A k \in Live :
          /\ tracks[k].lost = updates[k[1]] - tracks[k].seenAt
          /\ tracks[k].lost <= MaxLost
          /\ tracks[k].status = "LOST" <=> tracks[k].lost > 0
    /\ \A t \in completed :
          t.reason = "LOST_TIMEOUT" => t.missed = MaxLost + 1

(* The observations of a track go forward in time.                         *)
ObservationsGoForward ==
    [][\A k \in Key :
        tracks[k] # NoTrack /\ tracks'[k] # NoTrack /\ tracks'[k].id = tracks[k].id
          => \/ tracks'[k].count = tracks[k].count
             \/ tracks'[k].last > tracks[k].last]_vars

=============================================================================
