-------------------------- MODULE TrackReconciliation --------------------------
(***************************************************************************)
(* Which completed tracks of a run are fragments of one vehicle            *)
(* (src/track_reconciliation.py): every track, in the order of their       *)
(* starts, joins the vehicle of the earlier track it best continues, or    *)
(* becomes a vehicle of its own.                                           *)
(*                                                                         *)
(* The plane is a line: a track goes from place "from" to place "to" at an *)
(* even speed.  Scores are in hundredths, so are their weights.            *)
(* Abstracted: files, debug images, time stamps other than frame numbers   *)
(* (a track has none if it is not "timed"), and the shape of the           *)
(* exponential, which is the function Nearness.                            *)
(***************************************************************************)
EXTENDS Integers, Sequences, FiniteSets, FiniteSetsExt, SequencesExt

CONSTANTS
    Tracklets,              \* what tracks.json and observations.csv may hold
    MaxTracklets,           \* bound on their number
    MaxGap, MinMotion, BaseDistance, SpeedMultiplier, BehindTolerance,
    Nearness(_),            \* the score of a distance
    WeightMotion, WeightPosition, WeightDirection, WeightColour, WeightClass,
    Compatible,             \* pairs of colours
    MatchThreshold, MinimumMargin

ASSUME ReconciliationAssumption ==
    /\ MaxTracklets \in Nat /\ MinMotion \in Nat \ {0}
    /\ \A t \in Tracklets : {t.first, t.last, t.from, t.to} \subseteq Int /\ t.first <= t.last
    /\ {WeightMotion, WeightPosition, WeightDirection, WeightColour, WeightClass} \subseteq Nat
    /\ {MatchThreshold, MinimumMargin} \subseteq Nat
    /\ WeightMotion + WeightPosition + WeightDirection + WeightColour + WeightClass = 100

VARIABLES
    ordered,    \* the completed tracks in the order of their starts
    vehicleOf,  \* the vehicle of each track that was decided
    joins,      \* the earlier track each joined, 0 if it joined none
    tallies     \* of matches: accepted, ambiguous, unmatched

reconVars == <<ordered, vehicleOf, joins, tallies>>

-----------------------------------------------------------------------------
(* One track after another: the score of old -> new *)

Magnitude(n) == IF n < 0 THEN -n ELSE n
Sign(n) == IF n < 0 THEN -1 ELSE 1
Smaller(a, b) == IF a < b THEN a ELSE b

Gap(old, new) == new.first - old.last
Shift(t) == t.to - t.from
Velocity(t) == IF t.last = t.first THEN 0 ELSE Shift(t) \div (t.last - t.first)
(* A track that hardly moves has no direction.                             *)
Moves(t) == Magnitude(Shift(t)) >= MinMotion

Distance(old, new) == Magnitude(old.to + Velocity(old) * Gap(old, new) - new.from)
ASSUME NearnessAssumption ==
    \A old, new \in Tracklets : Nearness(Distance(old, new)) \in 0 .. 100
Feasible(old, new) ==
    BaseDistance + Magnitude(Velocity(old)) * Gap(old, new) * SpeedMultiplier
Behind(old, new) == Moves(old) /\ (new.from - old.to) * Sign(Shift(old)) < -BehindTolerance
Opposite(old, new) == Moves(old) /\ Moves(new) /\ Sign(Shift(old)) # Sign(Shift(new))
ClassesConflict(old, new) == "UNKNOWN" \notin {old.class, new.class} /\ old.class # new.class

Rejected(old, new) ==
    \/ old.camera # new.camera
    \/ Gap(old, new) <= 0 \/ Gap(old, new) > MaxGap
    \/ ~ old.timed \/ ~ new.timed
    \/ ClassesConflict(old, new)
    \/ Distance(old, new) > Feasible(old, new)
    \/ Behind(old, new) \/ Opposite(old, new)

MotionScore(old, new) ==
    LET s == Magnitude(Velocity(old)) t == Magnitude(Velocity(new))
    IN  IF s < 1 \/ t < 1 THEN 60 ELSE (100 * Smaller(s, t)) \div (s + t - Smaller(s, t))
DirectionScore(old, new) == IF Moves(old) /\ Moves(new) THEN 100 ELSE 60
ClassScore(old, new) == IF "UNKNOWN" \in {old.class, new.class} THEN 60 ELSE 100
ColourScore(old, new) ==
    IF "UNKNOWN" \in {old.colour, new.colour} THEN 50
    ELSE IF old.colour = new.colour THEN 100
    ELSE IF {old.colour, new.colour} \in Compatible THEN 70 ELSE 0

MatchScore(old, new) ==
    (WeightMotion * MotionScore(old, new) + WeightPosition * Nearness(Distance(old, new))
     + WeightDirection * DirectionScore(old, new) + WeightColour * ColourScore(old, new)
     + WeightClass * ClassScore(old, new)) \div 100

-----------------------------------------------------------------------------
(* reconcile_tracklets *)

Before(a, b) ==
    \/ a.first < b.first \/ (a.first = b.first /\ a.last < b.last)
    \/ a.first = b.first /\ a.last = b.last /\ a.id < b.id

ReconInit ==
    /\ \E S \in SUBSET Tracklets :
         /\ IsFiniteSet(S) /\ Cardinality(S) <= MaxTracklets
         /\ Cardinality({t.id : t \in S}) = Cardinality(S)
         /\ ordered \in SetToSeqs({t \in S : t.status = "COMPLETED"})
    /\ \A m, n \in DOMAIN ordered : m < n => Before(ordered[m], ordered[n])
    /\ vehicleOf = <<>> /\ joins = <<>>
    /\ tallies = [accepted |-> 0, ambiguous |-> 0, unmatched |-> 0]

Now == Len(joins) + 1
Earlier(n) == {o \in DOMAIN ordered : ordered[o].first < ordered[n].first}
Viable(n) == {o \in Earlier(n) : ~ Rejected(ordered[o], ordered[n])}
ScoreAt(n, o) == MatchScore(ordered[o], ordered[n])

(* The best of the viable ones, of equals the first, and the second score. *)
BestOf(n) ==
    CHOOSE o \in Viable(n) :
        \A p \in Viable(n) : \/ ScoreAt(n, p) < ScoreAt(n, o)
                             \/ ScoreAt(n, p) = ScoreAt(n, o) /\ o <= p
SecondScore(n) == Max({0} \cup {ScoreAt(n, p) : p \in Viable(n) \ {BestOf(n)}})

Confident(n) == Viable(n) # {} /\ ScoreAt(n, BestOf(n)) >= MatchThreshold
Clear(n) == Confident(n) /\ ScoreAt(n, BestOf(n)) - SecondScore(n) >= MinimumMargin

JoinVehicle ==
    /\ Now \in DOMAIN ordered /\ Clear(Now)
    /\ joins' = Append(joins, BestOf(Now))
    /\ vehicleOf' = Append(vehicleOf, vehicleOf[BestOf(Now)])
    /\ tallies' = [tallies EXCEPT !.accepted = @ + 1]
    /\ UNCHANGED ordered

NewVehicle ==
    /\ Now \in DOMAIN ordered /\ ~ Clear(Now)
    /\ joins' = Append(joins, 0)
    /\ vehicleOf' = Append(vehicleOf, 1 + Max({0} \cup Range(vehicleOf)))
    /\ tallies' = IF Confident(Now) THEN [tallies EXCEPT !.ambiguous = @ + 1]
                  ELSE [tallies EXCEPT !.unmatched = @ + 1]
    /\ UNCHANGED ordered

ReconNext == JoinVehicle \/ NewVehicle
ReconSpec == ReconInit /\ [][ReconNext]_reconVars

-----------------------------------------------------------------------------
(* Properties *)

(* A track joins only one that ended before it starts, on its camera, of a *)
(* class that may be its own, and only if every other track it could       *)
(* continue is worse by the margin.  The tracks of a vehicle are those     *)
(* whose links lead back to one track, and the report adds up              *)
(* (reconcile_tracklets).  Two tracks may still join one, seen at the same *)
(* time, and a chain may pass from a class over UNKNOWN to another.        *)
LinksAreClear ==
    LET Origin[n \in DOMAIN joins] == IF joins[n] = 0 THEN n ELSE Origin[joins[n]]
    IN  /\ \A n \in DOMAIN joins : joins[n] # 0 =>
             LET old == ordered[joins[n]] new == ordered[n]
             IN  /\ old.camera = new.camera /\ old.last < new.first
                 /\ old.class = new.class \/ "UNKNOWN" \in {old.class, new.class}
                 /\ \A o \in Earlier(n) \ {joins[n]} :
                      \/ Rejected(ordered[o], new)
                      \/ ScoreAt(n, o) <= ScoreAt(n, joins[n]) - MinimumMargin
        /\ \A m, n \in DOMAIN joins : vehicleOf[m] = vehicleOf[n] <=> Origin[m] = Origin[n]
        /\ Cardinality(Range(vehicleOf)) = Len(joins) - tallies.accepted
        /\ Len(joins) = tallies.accepted + tallies.ambiguous + tallies.unmatched
=============================================================================
