---------------------------- MODULE EvidenceCache ----------------------------
(***************************************************************************)
(* EvidenceCollector (src/evidence.py): the candidates it keeps of         *)
(* each live track and the frames it keeps for them, as run_pipeline drives *)
(* it: register_frame for every frame, finalize_tracks for the tracks that *)
(* ended with it.                                                          *)
(*                                                                         *)
(* A frame is kept in memory while a candidate refers to it, counted in    *)
(* _frame_ref_counts.  A candidate is offered, may be taken for a repeat of *)
(* one already kept, may push out a weaker one, and is given back when its *)
(* track ends.  One action is one pass of a loop of the code; the collector *)
(* has one caller and no lock.                                             *)
(*                                                                         *)
(* Abstracted: boxes and image scores.  A candidate has a score, and two   *)
(* candidates look alike when they have the same place.  The four roles    *)
(* that want the best of something are one role.  One camera: a frame's key *)
(* holds the camera, and nothing but counters is shared between cameras.   *)
(***************************************************************************)
EXTENDS Naturals, FiniteSets

CONSTANTS
    EvTracks,       \* the logical identities of the camera
    Scores,         \* the scores a candidate may get
    Places,         \* where a vehicle may be seen
    MaxCandidates,  \* evidence.maximum_candidates_per_track
    SimilarGap,     \* evidence.minimum_frame_gap
    LastEvFrame,    \* bound: the frames of the camera
    MaxDetections   \* bound: the detections of a frame

ASSUME EvidenceAssumption ==
    /\ IsFiniteSet(EvTracks)
    /\ Scores \subseteq Nat \ {0}
    /\ MaxCandidates \in Nat \ {0}
    /\ SimilarGap \in Nat
    /\ LastEvFrame \in Nat
    /\ MaxDetections \in Nat

VARIABLES
    pool,       \* _track_candidates: the candidates kept of a track
    held,       \* candidates_to_release: those of the tracks being finalized
    refs,       \* _frame_ref_counts, 0 for no entry
    cache,      \* the keys of _frame_cache
    evPhase,    \* the call the collector is in
    now,        \* the number of the frame
    left,       \* the detections of the frame still to be looked at
    copied,     \* frame_cached: this call has put its frame into the cache
    seen,       \* the tracks detected so far
    ended,      \* the tracks finalized
    closing,    \* the tracks finalize_tracks has still to visit
    missing,    \* missing_cache_frame_count is not zero
    offered     \* history: the best score offered of a track, 0 for none

evVars == <<pool, held, refs, cache, evPhase, now, left, copied, seen, ended,
            closing, missing, offered>>

EvFrames == 1..LastEvFrame
Candidate == [frame : EvFrames, score : Scores, place : Places]
FramesOf(cs) == {c.frame : c \in cs}

EvTypeOK ==
    /\ pool \in [EvTracks -> SUBSET Candidate]
    /\ held \in [EvTracks -> SUBSET Candidate]
    /\ refs \in [EvFrames -> Nat]
    /\ cache \subseteq EvFrames
    /\ evPhase \in {"idle", "register", "finalize", "release", "failed", "over"}
    /\ now \in 0..LastEvFrame
    /\ evPhase = "register" => now \in EvFrames
    /\ left \in Nat
    /\ copied \in BOOLEAN
    /\ seen \subseteq EvTracks /\ ended \subseteq EvTracks
    /\ closing \subseteq EvTracks
    /\ missing \in BOOLEAN
    /\ offered \in [EvTracks -> Nat]

EvInit ==
    /\ pool = [t \in EvTracks |-> {}] /\ held = [t \in EvTracks |-> {}]
    /\ refs = [f \in EvFrames |-> 0] /\ cache = {}
    /\ evPhase = "idle" /\ now = 0 /\ left = 0 /\ copied = FALSE
    /\ seen = {} /\ ended = {} /\ closing = {}
    /\ missing = FALSE /\ offered = [t \in EvTracks |-> 0]

-----------------------------------------------------------------------------
(* Helpers *)

(* _find_duplicate_candidate: the kept candidates a new one may repeat.    *)
SimilarTo(t, c) ==
    {x \in pool[t] : c.frame - x.frame <= SimilarGap /\ x.place = c.place}

(* The key (score, frame number) by which the weakest candidate is found.  *)
Weaker(a, b) == a.score < b.score \/ (a.score = b.score /\ a.frame < b.frame)
Weakest(cs) == CHOOSE w \in cs : \A x \in cs \ {w} : Weaker(w, x)

(* _release_candidates of candidates of one track with frames fs: the last *)
(* reference takes the frame out of the cache.                             *)
Released(fs) ==
    /\ refs' = [f \in EvFrames |-> IF f \in fs /\ refs[f] > 0 THEN refs[f] - 1 ELSE refs[f]]
    /\ cache' = cache \ {f \in fs : refs[f] <= 1}

(* A candidate that is kept in the place of old, a set of at most one:     *)
(* _retain_candidate releases old before register_frame counts the new.    *)
Keep(t, c, old) ==
    /\ pool' = [pool EXCEPT ![t] = (@ \ old) \cup {c}]
    /\ refs' = [f \in EvFrames |->
                    IF f = c.frame THEN refs[f] + 1
                    ELSE IF f \in FramesOf(old) /\ refs[f] > 0 THEN refs[f] - 1
                    ELSE refs[f]]
    /\ cache' = (cache \ {f \in FramesOf(old) : refs[f] <= 1}) \cup {c.frame}

(* A candidate that is not kept: a copy nobody refers to is dropped.       *)
(* Mutant: the copy made for it stays. *)
FaultyReject(f) ==
    /\ cache' = IF copied THEN cache ELSE cache \cup {f}
    /\ UNCHANGED <<pool, refs>>
Reject(f) ==
    /\ cache' = IF refs[f] = 0 THEN cache \ {f}
                ELSE IF copied THEN cache ELSE cache \cup {f}
    /\ UNCHANGED <<pool, refs>>

-----------------------------------------------------------------------------
(* register_frame *)

NextFrame ==
    /\ evPhase = "idle" /\ now < LastEvFrame
    /\ now' = now + 1
    /\ left' \in 1..MaxDetections
    /\ copied' = FALSE
    /\ evPhase' = "register"
    /\ UNCHANGED <<pool, held, refs, cache, seen, ended, closing, missing, offered>>

(* _build_candidate finds the box or the crop unusable. *)
InvalidDetection ==
    /\ evPhase = "register" /\ left > 0
    /\ \E t \in EvTracks \ ended : seen' = seen \cup {t}
    /\ left' = left - 1
    /\ UNCHANGED <<pool, held, refs, cache, evPhase, now, copied, ended, closing,
                   missing, offered>>

(* _retain_candidate, and what register_frame does with its answer. *)
Retain(t, c) ==
    IF SimilarTo(t, c) # {}
    THEN \E x \in SimilarTo(t, c) :
            IF c.score > x.score THEN Keep(t, c, {x}) ELSE Reject(c.frame)
    ELSE IF Cardinality(pool[t]) < MaxCandidates THEN Keep(t, c, {})
    ELSE LET w == Weakest(pool[t] \cup {c})
         IN IF w = c THEN Reject(c.frame) ELSE Keep(t, c, {w})

OfferCandidate(t, c) ==
    /\ c.frame = now
    /\ seen' = seen \cup {t}
    /\ left' = left - 1
    /\ copied' = TRUE
    /\ IF now \in FramesOf(pool[t])
       THEN /\ cache' = IF copied THEN cache ELSE cache \cup {now}
            /\ UNCHANGED <<pool, refs, offered>>
       ELSE /\ offered' = [offered EXCEPT ![t] = IF c.score > @ THEN c.score ELSE @]
            /\ Retain(t, c)
    /\ UNCHANGED <<held, evPhase, now, ended, closing, missing>>

ValidDetection ==
    /\ evPhase = "register" /\ left > 0
    /\ \E t \in EvTracks \ ended, s \in Scores, p \in Places :
          OfferCandidate(t, [frame |-> now, score |-> s, place |-> p])

EndOfFrame ==
    /\ evPhase = "register" /\ left = 0
    /\ evPhase' = "idle"
    /\ UNCHANGED <<pool, held, refs, cache, now, left, copied, seen, ended, closing,
                   missing, offered>>

-----------------------------------------------------------------------------
(* finalize_tracks *)

BeginFinalize ==
    /\ evPhase = "idle"
    /\ closing' \in (SUBSET (seen \ ended)) \ {{}}
    /\ evPhase' = "finalize"
    /\ UNCHANGED <<pool, held, refs, cache, now, left, copied, seen, ended, missing, offered>>

(* _select_roles: the frames the records of a track are made from. *)
SelectedFrames(cs) ==
    LET first == CHOOSE f \in FramesOf(cs) : \A g \in FramesOf(cs) : f <= g
        last  == CHOOSE f \in FramesOf(cs) : \A g \in FramesOf(cs) : g <= f
        Off(f) == IF 2 * f >= first + last THEN 2 * f - (first + last)
                  ELSE (first + last) - 2 * f
        middle == CHOOSE f \in FramesOf(cs) : \A g \in FramesOf(cs) :
                      Off(f) < Off(g) \/ (Off(f) = Off(g) /\ f <= g)
        best == CHOOSE c \in cs : \A x \in cs :
                      x.score < c.score \/ (x.score = c.score /\ c.frame <= x.frame)
    IN {first, middle, last, best.frame}

(* _save_selected_assets: a frame that is not in the cache is counted and  *)
(* leaves its records without an image.                                    *)
MissesFrame(cs) == ~ (SelectedFrames(cs) \subseteq cache)

(* _finalize_track_with_candidates: a discarded track gets no records; the *)
(* images of a completed one are cut from the cached frames of its roles.  *)
FinalizeTrack(t, completed) ==
    /\ evPhase = "finalize" /\ t \in closing
    /\ closing' = closing \ {t}
    /\ ended' = ended \cup {t}
    /\ held' = [held EXCEPT ![t] = pool[t]]
    /\ pool' = [pool EXCEPT ![t] = {}]
    /\ missing' = (missing \/ (completed /\ pool[t] # {} /\ MissesFrame(pool[t])))
    /\ UNCHANGED <<refs, cache, evPhase, now, left, copied, seen, offered>>

(* Writing the evidence file of a track raises: the candidates of the      *)
(* tracks visited so far are released on the way out.                      *)
FinalizeRaises(t) ==
    /\ evPhase = "finalize" /\ t \in closing /\ pool[t] # {}
    /\ held' = [held EXCEPT ![t] = pool[t]]
    /\ pool' = [pool EXCEPT ![t] = {}]
    /\ ended' = ended \cup {t}
    /\ evPhase' = "failed"
    /\ UNCHANGED <<refs, cache, now, left, copied, seen, closing, missing, offered>>

EndOfFinalize ==
    /\ evPhase = "finalize" /\ closing = {}
    /\ evPhase' = "release"
    /\ UNCHANGED <<pool, held, refs, cache, now, left, copied, seen, ended, closing,
                   missing, offered>>

(* The finally clause, for the candidates of one track. *)
ReleaseTrack(t) ==
    /\ evPhase \in {"release", "failed"} /\ held[t] # {}
    /\ Released(FramesOf(held[t]))
    /\ held' = [held EXCEPT ![t] = {}]
    /\ UNCHANGED <<pool, evPhase, now, left, copied, seen, ended, closing, missing, offered>>

EndOfRelease ==
    /\ evPhase = "release" /\ held = [t \in EvTracks |-> {}]
    /\ evPhase' = "idle"
    /\ UNCHANGED <<pool, held, refs, cache, now, left, copied, seen, ended, closing,
                   missing, offered>>

(* The run is over: flush_camera has finalized every track. *)
EndOfRun ==
    /\ evPhase = "idle" /\ seen = ended
    /\ evPhase' = "over"
    /\ UNCHANGED <<pool, held, refs, cache, now, left, copied, seen, ended, closing,
                   missing, offered>>

EvNext ==
    \/ NextFrame
    \/ InvalidDetection
    \/ ValidDetection
    \/ EndOfFrame
    \/ BeginFinalize
    \/ \E t \in EvTracks, completed \in BOOLEAN : FinalizeTrack(t, completed)
    \/ \E t \in EvTracks : FinalizeRaises(t)
    \/ EndOfFinalize
    \/ \E t \in EvTracks : ReleaseTrack(t)
    \/ EndOfRelease
    \/ EndOfRun

EvSpec == EvInit /\ [][EvNext]_evVars

-----------------------------------------------------------------------------
(* Properties *)

(* The tracks with a candidate, kept or about to be released, on frame f.  *)
Holders(f) == {t \in EvTracks : f \in FramesOf(pool[t] \cup held[t])}

(* A frame's count is the number of tracks with a candidate on it, and     *)
(* between two calls exactly the frames some candidate refers to are in    *)
(* memory: none leaks, whatever is rejected, replaced, discarded or raised, *)
(* and none is dropped while a track still needs it (_retain_candidate,    *)
(* _release_candidates).                                                   *)
CacheFollowsPools ==
    /\ \A f \in EvFrames : refs[f] = Cardinality(Holders(f))
    /\ {f \in EvFrames : refs[f] > 0} \subseteq cache
    /\ evPhase # "register" => cache = {f \in EvFrames : refs[f] > 0}

(* finalize_tracks never misses the frame of a record, although the tracks *)
(* of the batch share frames with each other and with tracks that stay, a  *)
(* run that ends leaves no frame behind, and no track ever keeps more than *)
(* the configured candidates.                                              *)
EvidenceHasItsFrames ==
    /\ ~missing
    /\ evPhase = "over" => cache = {}
    /\ \A t \in EvTracks : Cardinality(pool[t]) <= MaxCandidates

(* As long as a track lives its pool holds a candidate with the best score *)
(* ever offered: neither a full pool nor the search for repeats loses it   *)
(* (_retain_candidate).                                                    *)
BestCandidateSurvives ==
    \A t \in EvTracks \ ended :
        offered[t] > 0 => \E c \in pool[t] : c.score = offered[t]
=============================================================================
