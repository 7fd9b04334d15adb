----------------------------- MODULE PlateOwnership ----------------------------
(***************************************************************************)
(* Which track keeps a plate: at the end of a run several tracks may claim *)
(* one plate, because a crop shows the plate of the vehicle next to it.    *)
(* _resolve_plate_association_conflicts (src/pipeline.py) takes the        *)
(* results in whatever order the enrichment delivered them.                *)
(*                                                                         *)
(* A result stands for one with evidence: the camera, frame and time of    *)
(* the evidence its plate was read on, the plate, and how well its plate   *)
(* box fits the box of every vehicle (_score_plate_owner, 0 for None; the  *)
(* score of its own box also ranks it among the claimants).  Scores, times *)
(* and margins are integers; how a score comes about is left out.          *)
(***************************************************************************)
EXTENDS Integers, Sequences, FiniteSets, SequencesExt

CONSTANTS
    PlateTracks,     \* the tracks with a result
    PlateCameras,    \* their cameras
    PlateTexts,      \* plates that can be read
    PlateFrames,     \* frame numbers of evidence; a frame's number is its time
    OwnScores,       \* how a plate may fit its own vehicle
    OtherScores,     \* how it may fit another vehicle of the frame
    Window,          \* _PLATE_CONFLICT_TIME_WINDOW_SECONDS
    ConflictMargin,  \* _PLATE_CONFLICT_SCORE_MARGIN
    OwnerMargin      \* _PLATE_OWNER_SCORE_MARGIN

ASSUME PlateAssumption ==
    /\ PlateFrames \subseteq Nat /\ OwnScores \subseteq Nat /\ OtherScores \subseteq Nat
    /\ Window \in Nat /\ ConflictMargin \in Nat \ {0} /\ OwnerMargin \in Nat \ {0}
    /\ IsFiniteSet(PlateTracks) /\ "none" \notin PlateTexts

VARIABLES
    claims,   \* the results before
    owners    \* the tracks that keep their plate, when it is resolved

plateVars == <<claims, owners>>

Unresolved == {"unresolved"}

PlateInit == claims = <<>> /\ owners = Unresolved

(* int(frame_number or -1): the frame with number 0 counts as none. *)
FrameOf(r) == IF r.frame = 0 THEN -1 ELSE r.frame

(* _build_plate_assignment_candidate: a plate, on a box that its own       *)
(* vehicle contains in part.                                               *)
Claims(in, t) == in[t].plate # "none" /\ in[t].fit[t] > 0

(* _build_frame_owner_candidate: every vehicle of the frame may own the    *)
(* plate, whether a plate was read on it or not.                           *)
FrameOwners(in, t) ==
    {u \in DOMAIN in : /\ FrameOf(in[u]) >= 0
                       /\ in[u].camera = in[t].camera
                       /\ FrameOf(in[u]) = FrameOf(in[t])}

(* _enforce_plate_geometric_ownership: the plate goes when its box fits no *)
(* vehicle of the frame, or another one better by the margin.              *)
Borrowed(in, t) ==
    LET pool == FrameOwners(in, t)
        fitting == {u \in pool : in[t].fit[u] > 0}
    IN /\ pool # {}
       /\ \/ t \notin fitting
          \/ \E u \in fitting : in[t].fit[u] - in[t].fit[t] >= OwnerMargin

(* The claimants of one plate on one camera in the order of time, the      *)
(* better first, and equal ones as they came.                              *)
Ordered(in, group, arrival) ==
    LET at(t) == CHOOSE i \in DOMAIN arrival : arrival[i] = t
        before(t, u) ==
            \/ in[t].frame < in[u].frame
            \/ in[t].frame = in[u].frame /\ in[t].fit[t] > in[u].fit[u]
            \/ in[t].frame = in[u].frame /\ in[t].fit[t] = in[u].fit[u] /\ at(t) < at(u)
    IN CHOOSE s \in SetToSeqs(group) :
           \A m, n \in DOMAIN s : m < n => before(s[m], s[n])

(* Neighbours in time that are no further apart than the window: a cluster *)
(* begins at the first one and after every gap, and ends before the next.  *)
(* Mutant: a gap that is just as long as the window separates. *)
FaultyApart(in, ordered, i) ==
    in[ordered[i]].frame - in[ordered[i - 1]].frame >= Window
Apart(in, ordered, i) ==
    in[ordered[i]].frame - in[ordered[i - 1]].frame > Window
Clusters(in, ordered) ==
    LET starts == {i \in DOMAIN ordered : i = 1 \/ Apart(in, ordered, i)}
        ends == {i \in DOMAIN ordered : i = Len(ordered) \/ Apart(in, ordered, i + 1)}
        spans == {s \in starts \X ends :
                      s[1] <= s[2] /\ \A i \in s[1] + 1 .. s[2] : ~ Apart(in, ordered, i)}
    IN {SubSeq(ordered, s[1], s[2]) : s \in spans}

(* _apply_plate_conflict_cluster: the best, the first of equals, keeps the *)
(* plate if the next is worse by the margin, and else nobody does.         *)
ClusterOwners(in, cluster) ==
    LET fit(i) == in[cluster[i]].fit[cluster[i]]
        winner == CHOOSE i \in DOMAIN cluster :
                      \A j \in DOMAIN cluster : fit(i) > fit(j) \/ (fit(i) = fit(j) /\ i <= j)
    IN IF Len(cluster) <= 1 THEN Range(cluster)
       ELSE IF \E i \in DOMAIN cluster \ {winner} : fit(winner) - fit(i) < ConflictMargin
       THEN {} ELSE {cluster[winner]}

Remaining(in) == {t \in DOMAIN in : Claims(in, t) /\ ~ Borrowed(in, t)}
Group(in, t) == {u \in Remaining(in) : /\ in[u].camera = in[t].camera
                                       /\ in[u].plate = in[t].plate}

(* _resolve_plate_association_conflicts *)
Resolve(in, arrival) ==
    UNION {UNION {ClusterOwners(in, c) :
                      c \in Clusters(in, Ordered(in, Group(in, t), arrival))} :
               t \in Remaining(in)}

Results ==
    [camera : PlateCameras, plate : PlateTexts \cup {"none"}, frame : PlateFrames,
     fit : [PlateTracks -> OwnScores \cup OtherScores]]

(* A plate fits a vehicle of another frame or camera in no way that counts. *)
Plausible(in) ==
    \A t, u \in PlateTracks :
        in[t].fit[u] \in (IF t = u THEN OwnScores
                          ELSE IF /\ in[t].plate # "none" /\ in[t].camera = in[u].camera
                                  /\ in[t].frame = in[u].frame
                          THEN OtherScores ELSE {0})

(* The results of a run come in, one track after the other, and are        *)
(* resolved when all are there.                                            *)
AddResult ==
    /\ owners = Unresolved
    /\ \E t \in PlateTracks \ DOMAIN claims, c \in PlateCameras,
          p \in PlateTexts \cup {"none"}, f \in PlateFrames, own \in OwnScores :
         \E fit \in [PlateTracks -> {0, own} \cup OtherScores] :
            /\ fit[t] = own
            /\ \A u \in PlateTracks \ {t} :
                 fit[u] \in (IF p # "none" THEN OtherScores ELSE {0})
            /\ claims' = [u \in DOMAIN claims \cup {t} |->
                             IF u = t THEN [camera |-> c, plate |-> p, frame |-> f, fit |-> fit]
                             ELSE claims[u]]
    /\ UNCHANGED owners

ResolvePlates ==
    /\ owners = Unresolved /\ DOMAIN claims = PlateTracks
    /\ Plausible(claims)
    /\ \E arrival \in SetToSeqs(PlateTracks) : owners' = Resolve(claims, arrival)
    /\ UNCHANGED claims

PlateNext == AddResult \/ ResolvePlates
PlateSpec == PlateInit /\ [][PlateNext]_plateVars

-----------------------------------------------------------------------------
(* Properties *)

Resolved == owners # Unresolved
Rivals(t, u) ==
    t # u /\ claims[t].camera = claims[u].camera /\ claims[t].plate = claims[u].plate

(* Two tracks of a camera never keep one plate within the window of time,  *)
(* although a cluster may be longer than the window; and a plate that is   *)
(* kept fits no other vehicle of its frame better by the margin, except in *)
(* the first frame of a video, whose number the code takes for none        *)
(* (_resolve_plate_association_conflicts).                                 *)
OneOwnerPerPlate ==
    Resolved =>
        /\ \A t, u \in owners : Rivals(t, u) =>
               claims[t].frame - claims[u].frame \notin -Window..Window
        /\ \A t \in owners, u \in PlateTracks :
               claims[t].frame > 0 /\ claims[u].camera = claims[t].camera
                   /\ claims[u].frame = claims[t].frame =>
                       claims[t].fit[u] - claims[t].fit[t] < OwnerMargin

(* The outcome does not depend on the order in which the results arrived,  *)
(* which the colour worker decides; and no plate is lost without a cause:  *)
(* a claimant that a better vehicle of the frame did not displace keeps it *)
(* unless another claims it, at least nearly as well or better             *)
(* (the margins of _apply_plate_conflict_cluster).                         *)
DecisionsAreFair ==
    Resolved =>
        /\ \A arrival \in SetToSeqs(PlateTracks) : Resolve(claims, arrival) = owners
        /\ \A t \in Remaining(claims) \ owners :
               \E u \in Remaining(claims) : Rivals(t, u) /\
                   claims[u].fit[u] > claims[t].fit[t] - ConflictMargin
=============================================================================
