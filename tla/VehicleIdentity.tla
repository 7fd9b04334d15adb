---------------------------- MODULE VehicleIdentity ---------------------------
(***************************************************************************)
(* Physical vehicles after a run: which completed tracks are one vehicle   *)
(* (build_physical_vehicle_identity_for_run in                             *)
(* src/vehicle_identity.py, with the pair scores and the clustering of     *)
(* src/vehicle_identity_experiment.py).                                    *)
(*                                                                         *)
(* Tracks are numbered in the order the clustering takes them.  A track is *)
(* placed once the facts about it and each earlier track are known: the    *)
(* gates the pair fails, how the two overlap in time, and the weighted     *)
(* score of the pair if no gate fails; plates are a text with the quality  *)
(* of its consensus.  Scores are hundredths; images, distances and the way *)
(* a score comes about are left out.                                       *)
(***************************************************************************)
EXTENDS Integers, Sequences, FiniteSets, SequencesExt, FiniteSetsExt

CONSTANTS
    LastTrack,      \* completed tracks 1 .. LastTrack
    PairFacts,      \* what may be true of two tracks
    PlateReads,     \* records [text, quality]
    Near(_, _),     \* texts that differ by a character, or by a confusion
    Far(_, _),      \* texts that clearly differ
    PlateAssistance, ContradictionVeto,   \* switches of the configuration
    Acceptance, Margin, Floor,            \* thresholds of the clustering
    ConsistencyWeight, ConflictPenalty,   \* weight in percent, and penalty
    ExactFloor, ExactBonus, PartialBonus, WeakPenalty

Gates == {"camera", "class", "gap", "jump"}
Overlaps == {"none", "distinct", "duplicate", "neither"}

ASSUME IdentityAssumption ==
    /\ LastTrack \in Nat
    /\ PairFacts \subseteq [fails : SUBSET Gates, overlap : Overlaps, score : 0 .. 100]
    /\ \A f \in PairFacts : f.overlap # "none" => "gap" \notin f.fails
    /\ PlateAssistance \in BOOLEAN /\ ContradictionVeto \in BOOLEAN
    /\ \A p \in PlateReads : p = [text |-> p.text, quality |-> p.quality]
    /\ {Acceptance, Margin, Floor, ConsistencyWeight, ConflictPenalty,
        ExactFloor, ExactBonus, PartialBonus, WeakPenalty} \subseteq 0 .. 100

VARIABLES
    reads,      \* the plate of each track so far
    skipped,    \* completed tracks without observations
    rows,       \* the scored pairs, keyed by <<older, newer>>
    vehicles,   \* sequence of sets of tracks
    decisions   \* one for each track that had a candidate

identityVars == <<reads, skipped, rows, vehicles, decisions>>

IdentityInit ==
    /\ reads = <<>> /\ skipped = {} /\ rows = <<>>
    /\ vehicles = <<>> /\ decisions = <<>>

(***************************************************************************)
(* _score_pair: the first gate that fails gives the reason.  For tracks    *)
(* that overlap in time, distinct occupancy replaces any earlier reason,   *)
(* and a failed duplicate test gives one only if there is none yet.        *)
(***************************************************************************)
GateReason(f) ==
    LET order == <<"camera", "class", "gap", "jump">>
        failed == {i \in 1 .. 4 : order[i] \in f.fails}
    IN IF failed = {} THEN "" ELSE order[Min(failed)]

Reason(f) ==
    IF f.overlap = "distinct" \/ (f.overlap = "neither" /\ GateReason(f) = "")
    THEN f.overlap
    ELSE GateReason(f)

(* _plate_relation: what two plates say of their tracks.                   *)
Relation(a, b) ==
    LET high == a.quality = "HIGH" /\ b.quality = "HIGH"
        fair == {a.quality, b.quality} \subseteq {"HIGH", "MEDIUM"}
    IN IF "none" \in {a.text, b.text} THEN "NEUTRAL"
       ELSE IF high /\ a.text = b.text THEN "STRONG_POSITIVE"
       ELSE IF high /\ Far(a.text, b.text) THEN "STRONG_NEGATIVE"
       ELSE IF fair /\ (a.text = b.text \/ Near(a.text, b.text)) THEN "PARTIAL_POSITIVE"
       ELSE IF high THEN "WEAK_NEGATIVE" ELSE "NEUTRAL"

(* _plate_override_blocked: reasons no plate outweighs.  (The function     *)
(* asks for an impossible geometry too, which no caller ever sets.)        *)
Blocked(reason) == reason \in {"camera", "class", "distinct", "neither"}

(* The row the clustering sees: _apply_plate_to_pair, and the pair as it   *)
(* is where plates do not assist.                                          *)
Row(f, says) ==
    LET relation == IF PlateAssistance THEN says ELSE "NEUTRAL"
        reason == Reason(f)
        base == IF reason = "" THEN f.score ELSE 0
        out(s) == [rejected |-> reason # "", score |-> s, overlap |-> f.overlap # "none"]
    IN CASE relation = "STRONG_NEGATIVE" /\ ContradictionVeto -> [out(0) EXCEPT !.rejected = TRUE]
         [] relation = "STRONG_POSITIVE" /\ ~Blocked(reason) ->
                [out(Max({base, ExactFloor}) + ExactBonus) EXCEPT !.rejected = FALSE]
         [] relation = "PARTIAL_POSITIVE" /\ reason = "" ->
                out(Min({100, base + PartialBonus}))
         [] relation = "WEAK_NEGATIVE" /\ reason = "" ->
                out(Max({0, base - WeakPenalty}))
         [] OTHER -> out(base)

(***************************************************************************)
(* _build_vehicles: how the next track t fits vehicle v, given its rows    *)
(* with the earlier tracks.                                                *)
(***************************************************************************)
Scored(new, v) == {u \in vehicles[v] : ~new[u].rejected}
(* Mutant: only scores count, and a rejected pair has none.                *)
FaultyConflicting(new, v) ==
    {u \in vehicles[v] : ~new[u].rejected /\ new[u].score < Floor}
Conflicting(new, v) ==
    {u \in vehicles[v] : new[u].rejected \/ new[u].score < Floor}

BestMember(new, v) == Max({new[u].score : u \in Scored(new, v)})

Consistency(new, v) ==
    LET compatible == {u \in Scored(new, v) : new[u].score >= Floor}
        total == MapThenSumSet(LAMBDA u : new[u].score, compatible)
    IN Max({0, ((100 - ConsistencyWeight) * BestMember(new, v)
                 + ConsistencyWeight * (total \div Cardinality(vehicles[v]))) \div 100
               - ConflictPenalty * Cardinality(Conflicting(new, v))})

(* The candidates, best first; equal ones in the order of their creation.  *)
Ranked(new) ==
    SetToSortSeq({v \in DOMAIN vehicles : Scored(new, v) # {}},
                 LAMBDA v, w : \/ Consistency(new, v) > Consistency(new, w)
                               \/ Consistency(new, v) = Consistency(new, w) /\ v < w)

(* _ambiguity_reason: why the best candidate is not taken.                 *)
Ambiguity(new, best, second) ==
    IF BestMember(new, best) < Acceptance THEN "best_member_below_threshold"
    ELSE IF Consistency(new, best) < Acceptance THEN "vehicle_consistency_below_threshold"
    ELSE IF Conflicting(new, best) # {} THEN "conflicting_existing_vehicle_members"
    ELSE IF Consistency(new, best) - second < Margin THEN "ambiguous_vehicle_margin"
    ELSE ""

Place(t, new) ==
    LET ranked == Ranked(new)
        second == IF Len(ranked) > 1 THEN Consistency(new, ranked[2]) ELSE 0
        why == IF ranked = <<>> THEN "no_candidate" ELSE Ambiguity(new, ranked[1], second)
        accepted == why = ""
    IN /\ vehicles' = IF accepted
                      THEN [vehicles EXCEPT ![ranked[1]] = @ \cup {t}]
                      ELSE Append(vehicles, {t})
       /\ decisions' = IF ranked = <<>> THEN decisions
                       ELSE Append(decisions,
                                   [track |-> t, vehicle |-> ranked[1], why |-> why])

(* The next completed track, with its plate and the facts of its pairs.    *)
PlaceTrack ==
    \E plate \in PlateReads :
    LET t == Len(reads) + 1
        earlier == (1 .. Len(reads)) \ skipped
    IN \E facts \in [earlier -> PairFacts] :
       LET new == [u \in earlier |-> Row(facts[u], Relation(reads[u], plate))]
       IN /\ t <= LastTrack
          /\ reads' = Append(reads, plate)
          /\ rows' = [p \in DOMAIN rows \cup {<<u, t>> : u \in earlier} |->
                        IF p \in DOMAIN rows THEN rows[p]
                        ELSE [facts |-> facts[p[1]], seen |-> new[p[1]]]]
          /\ Place(t, new)
          /\ UNCHANGED skipped

(* _build_feature: a completed track without observations has no feature.  *)
SkipTrack ==
    /\ Len(reads) < LastTrack
    /\ reads' = Append(reads, [text |-> "none", quality |-> "UNUSABLE"])
    /\ skipped' = skipped \cup {Len(reads) + 1}
    /\ UNCHANGED <<rows, vehicles, decisions>>

IdentityNext == PlaceTrack \/ SkipTrack

IdentitySpec == IdentityInit /\ [][IdentityNext]_identityVars

-----------------------------------------------------------------------------
(* The tracks of one vehicle agree pairwise, whatever order they came in:  *)
(* every pair was accepted and scores at least the floor, a track is in    *)
(* one vehicle, and where plates assist and contradictions are vetoed no   *)
(* two plates of good quality contradict each other.                       *)
VehiclesAgree ==
    /\ \A v, w \in DOMAIN vehicles : v # w => vehicles[v] \cap vehicles[w] = {}
    /\ \A v \in DOMAIN vehicles : \A u, t \in vehicles[v] :
          u < t => /\ ~rows[<<u, t>>].seen.rejected
                   /\ rows[<<u, t>>].seen.score >= Floor
                   /\ PlateAssistance /\ ContradictionVeto =>
                        Relation(reads[u], reads[t]) # "STRONG_NEGATIVE"

(* A vehicle never holds two tracks on different cameras, of conflicting   *)
(* classes or seen in different places at once; and a pair that failed     *)
(* another gate is in one vehicle only when good plates are equal.  (Not   *)
(* so for tracks that overlap without being duplicates: a spatial jump     *)
(* takes the place of that reason, and plates outweigh a jump.)            *)
PlatesOutweighOnlyGaps ==
    \A v \in DOMAIN vehicles : \A u, t \in vehicles[v] :
        u < t => LET f == rows[<<u, t>>].facts
                 IN /\ f.fails \cap {"camera", "class"} = {}
                    /\ f.overlap # "distinct"
                    /\ f.fails # {} => /\ reads[u] = reads[t]
                                       /\ reads[u].quality = "HIGH"
=============================================================================
