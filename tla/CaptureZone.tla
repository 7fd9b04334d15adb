----------------------------- MODULE CaptureZone -----------------------------
(***************************************************************************)
(* The capture zone of EvidenceCollector (src/evidence.py): crops of a     *)
(* vehicle are written to disk while it crosses a band of the picture, the *)
(* best few of each track are kept, and the files of the others removed.   *)
(*                                                                         *)
(* One action is one detection of register_frame that reaches a decision,  *)
(* or one track of finalize_tracks.  A track is observed at most once in a *)
(* frame, and frames go forward (TrackLifecycle.ObservationsGoForward).    *)
(*                                                                         *)
(* Abstracted: heights are small numbers.  The class that the running vote *)
(* of a track picks selects the profile of this detection, so that zone,   *)
(* gap and limit may change under a track; which one it picks is an input. *)
(* A crop is unusable, too small, or has a score.                          *)
(***************************************************************************)
EXTENDS Naturals, FiniteSets

CONSTANTS
    ZoneTracks,      \* the tracks of the camera
    CropScores,      \* the scores a crop may get
    CaptureProfiles, \* the configured profiles, one for each class
    Heights,         \* where the bottom of a box may be
    Confirmed,       \* lifecycle.minimum_observations
    LastZoneFrame    \* bound: the frames of the camera

(* A profile of capture_zone: the band of the zone, the limit on saved     *)
(* crops (maximum_saved_candidates_per_track), the gap between them        *)
(* (minimum_frame_gap), and require_confirmed_track.                       *)
Profile == [top : Nat, bottom : Nat, saved : Nat \ {0}, gap : Nat, confirm : BOOLEAN]

ASSUME CaptureAssumption ==
    /\ CropScores \subseteq Nat \ {0}
    /\ CaptureProfiles \subseteq Profile /\ Heights \subseteq Nat
    /\ Confirmed \in Nat
    /\ LastZoneFrame \in Nat

VARIABLES
    zone,      \* _capture_zone_state of a track
    crops,     \* _capture_zone_candidates of a track
    cropFiles, \* the crop files on disk, by track and frame number
    records,   \* _capture_zone_index: track and frame number
    verdict,   \* the geometry status of a finalized track
    zoneFrame, \* the number of the frame
    zoneDone,  \* the tracks finalized, or all of them once something raised
    taken,     \* history: the crops once kept of a track, and their profiles
    leftovers  \* history: the files whose removal failed

evidenceVars == <<crops, cropFiles, taken, leftovers>>
zoneVars == <<zone, evidenceVars, records, verdict, zoneFrame, zoneDone>>

NoZone == [count |-> 0, lastSeen |-> 0]
ZoneState == [count : Nat \ {0}, top : Nat, highest : Heights, entered : BOOLEAN,
              lastSeen : Nat, lastCapture : Nat, attempts : Nat]
Crop == [frame : Nat, score : CropScores]
Verdicts == {"none", "NEVER_REACHED_ZONE", "REACHED_ZONE_NO_CAPTURE", "CAPTURED"}

ZoneTypeOK ==
    /\ zone \in [ZoneTracks -> ZoneState \cup {NoZone}]
    /\ crops \in [ZoneTracks -> SUBSET Crop]
    /\ cropFiles \subseteq ZoneTracks \X Nat
    /\ records \subseteq ZoneTracks \X Nat
    /\ verdict \in [ZoneTracks -> Verdicts]
    /\ zoneFrame \in 0..LastZoneFrame
    /\ zoneDone \subseteq ZoneTracks
    /\ taken \in [ZoneTracks -> SUBSET [frame : Nat, profile : CaptureProfiles]]
    /\ leftovers \subseteq ZoneTracks \X Nat

ZoneInit ==
    /\ zone = [t \in ZoneTracks |-> NoZone]
    /\ crops = [t \in ZoneTracks |-> {}]
    /\ cropFiles = {} /\ records = {}
    /\ verdict = [t \in ZoneTracks |-> "none"]
    /\ zoneFrame = 0 /\ zoneDone = {}
    /\ taken = [t \in ZoneTracks |-> {}] /\ leftovers = {}

-----------------------------------------------------------------------------
(* _zone_position                                                          *)
Inside(y, p) == p.top <= y /\ y <= p.bottom

(* The running state of a track after an observation at height y under the *)
(* profile p: _update_track_geometry and the zone's counters.              *)
Observed(t, y, p) ==
    LET z == zone[t]
    IN IF z = NoZone
       THEN [count |-> 1, top |-> p.top, highest |-> y, entered |-> Inside(y, p),
             lastSeen |-> zoneFrame, lastCapture |-> 0, attempts |-> 0]
       ELSE [z EXCEPT !.count = @ + 1, !.top = p.top, !.lastSeen = zoneFrame,
                      !.highest = IF y >= @ THEN y ELSE @,
                      !.entered = @ \/ Inside(y, p)]

(* The tests before a crop is attempted: the track must be confirmed and   *)
(* the last crop kept of it far enough back for this profile.              *)
MayCapture(z, p) ==
    /\ p.confirm => z.count >= Confirmed
    /\ z.lastCapture = 0 \/ zoneFrame - z.lastCapture >= p.gap

(* The order by _capture_zone_candidate_score, then by frame.              *)
Better(a, b) == a.score > b.score \/ (a.score = b.score /\ a.frame > b.frame)

(* Mutant: a track may have one crop more than the limit.                  *)
FaultyLetGo(cs, limit) ==
    {c \in cs : Cardinality(cs) > limit + 1 /\ \A x \in cs \ {c} : Better(x, c)}

(* _retain_capture_zone_candidate with the profile's limit: the new crop   *)
(* is sorted in, and if there are too many the last one, the new crop      *)
(* possibly, is let go; just that one, however many the limit asks for.    *)
LetGo(cs, limit) ==
    {c \in cs : Cardinality(cs) > limit /\ \A x \in cs \ {c} : Better(x, c)}

(* The file of the crop is written, one crop may be let go, and its file   *)
(* is removed, unless the removal fails, which nobody notices              *)
(* (_remove_file_if_exists).                                               *)
SaveCrop(t, z, p, c, removed) ==
    LET all  == crops[t] \cup {c}
        out  == LetGo(all, p.saved)
        gone == {<<t, x.frame>> : x \in out}
    IN /\ crops' = [crops EXCEPT ![t] = all \ out]
       /\ cropFiles' = (cropFiles \cup {<<t, c.frame>>}) \ (IF removed THEN gone ELSE {})
       /\ leftovers' = leftovers \cup (IF removed THEN {} ELSE gone)
       /\ zone' = [zone EXCEPT ![t] = [z EXCEPT !.attempts = @ + 1,
                        !.lastCapture = IF c \in out THEN @ ELSE zoneFrame]]
       /\ taken' = [taken EXCEPT ![t] =
                        IF c \in out THEN @ ELSE @ \cup {[frame |-> c.frame, profile |-> p]}]

-----------------------------------------------------------------------------
(* Actions                                                                 *)

NextZoneFrame ==
    /\ zoneFrame < LastZoneFrame
    /\ zoneFrame' = zoneFrame + 1
    /\ UNCHANGED <<zone, evidenceVars, records, verdict, zoneDone>>

MayObserve(t) ==
    /\ zoneFrame > 0 /\ t \notin zoneDone
    /\ zone[t].lastSeen < zoneFrame

(* A detection outside the zone, of an unconfirmed track or too soon.      *)
PassBy(t, y, p) ==
    /\ MayObserve(t)
    /\ LET z == Observed(t, y, p)
       IN /\ ~ (Inside(y, p) /\ MayCapture(z, p))
          /\ zone' = [zone EXCEPT ![t] = z]
    /\ UNCHANGED <<evidenceVars, records, verdict, zoneFrame, zoneDone>>

(* A crop is attempted and its box is invalid or its picture too small.    *)
RejectCrop(t, y, p) ==
    /\ MayObserve(t)
    /\ LET z == Observed(t, y, p)
       IN /\ Inside(y, p) /\ MayCapture(z, p)
          /\ zone' = [zone EXCEPT ![t] = [z EXCEPT !.attempts = @ + 1]]
    /\ UNCHANGED <<evidenceVars, records, verdict, zoneFrame, zoneDone>>

CaptureCrop(t, y, p, score, removed) ==
    /\ MayObserve(t)
    /\ LET z == Observed(t, y, p)
       IN /\ Inside(y, p) /\ MayCapture(z, p)
          /\ SaveCrop(t, z, p, [frame |-> zoneFrame, score |-> score], removed)
    /\ UNCHANGED <<records, verdict, zoneFrame, zoneDone>>

(* _geometry_status_for_track: the eligible and the small captures are one.*)
GeometryStatus(z, recorded) ==
    IF z = NoZone THEN "REACHED_ZONE_NO_CAPTURE"
    ELSE IF z.highest < z.top THEN "NEVER_REACHED_ZONE"
    ELSE IF z.attempts = 0 \/ recorded = {} THEN "REACHED_ZONE_NO_CAPTURE"
    ELSE "CAPTURED"

(* _finalize_capture_zone_track: a crop whose file is gone is counted and  *)
(* gets no record.                                                         *)
FinalizeZone(t) ==
    /\ zone[t] # NoZone /\ t \notin zoneDone
    /\ LET recorded == {<<t, c.frame>> : c \in crops[t]} \cap cropFiles
       IN /\ records' = records \cup recorded
          /\ verdict' = [verdict EXCEPT ![t] = GeometryStatus(zone[t], recorded)]
    /\ zone' = [zone EXCEPT ![t] = NoZone]
    /\ crops' = [crops EXCEPT ![t] = {}]
    /\ zoneDone' = zoneDone \cup {t}
    /\ UNCHANGED <<cropFiles, taken, leftovers, zoneFrame>>

(* Writing a crop raises: the exception leaves register_frame and ends the *)
(* run; nothing is finalized any more.                                     *)
WriteRaises(t, y, p) ==
    /\ MayObserve(t)
    /\ LET z == Observed(t, y, p)
       IN /\ Inside(y, p) /\ MayCapture(z, p)
          /\ zone' = [zone EXCEPT ![t] = [z EXCEPT !.attempts = @ + 1]]
    /\ zoneDone' = ZoneTracks
    /\ UNCHANGED <<evidenceVars, records, verdict, zoneFrame>>

ZoneNext ==
    \/ NextZoneFrame
    \/ \E t \in ZoneTracks, y \in Heights, p \in CaptureProfiles :
          \/ PassBy(t, y, p)
          \/ RejectCrop(t, y, p)
          \/ WriteRaises(t, y, p)
          \/ \E score \in CropScores, removed \in BOOLEAN : CaptureCrop(t, y, p, score, removed)
    \/ \E t \in ZoneTracks : FinalizeZone(t)

ZoneSpec == ZoneInit /\ [][ZoneNext]_zoneVars

-----------------------------------------------------------------------------
(* Properties                                                              *)

KeptFiles(t) == {<<t, c.frame>> : c \in crops[t]}
EvidenceFiles == records \cup UNION {KeptFiles(t) : t \in ZoneTracks}

(* No crop that is kept of a live track, or recorded of a finalized one,   *)
(* has lost its file to another crop's removal; a file that is on disk     *)
(* without such a crop is one whose removal failed, and it never becomes   *)
(* evidence again (_retain_capture_zone_candidate, _remove_file_if_exists, *)
(* _finalize_capture_zone_track).                                          *)
CropFilesMatch ==
    /\ cropFiles = EvidenceFiles \cup leftovers
    /\ leftovers \cap EvidenceFiles = {}

EvidenceFrames(t) == {f \in 1..LastZoneFrame : <<t, f>> \in EvidenceFiles}

(* A crop of a track comes at least the gap of the profile it was taken    *)
(* under after every earlier crop that is still evidence, and there are no *)
(* more of them than one of those profiles allows, although the profile    *)
(* may change with every detection, better crops push out others, and no   *)
(* more than one is let go at a time (last_capture_frame).                 *)
CropsAreSpaced ==
    \A t \in ZoneTracks :
        /\ \A c \in taken[t], f \in EvidenceFrames(t) :
              c.frame \in EvidenceFrames(t) /\ f < c.frame => c.frame - f >= c.profile.gap
        /\ EvidenceFrames(t) # {} =>
              \E c \in taken[t] : Cardinality(EvidenceFrames(t)) <= c.profile.saved
=============================================================================
