---------------------------- MODULE TrackAttributes ----------------------------
(***************************************************************************)
(* How a completed track gets its colour and its body type                 *)
(* (src/vehicle_enrichment): EnrichmentManager adapts the records of       *)
(* its evidence, scores them, and selects the best crops; then either      *)
(* VehicleAttributeFlow or the two older classifiers ask the model about   *)
(* one crop after the other and make one answer of what it says.           *)
(*                                                                         *)
(* A record is a crop of the track: its frame, where it comes from, how    *)
(* large it is for the colour ("tier") and for the body type ("size"), a   *)
(* quality in hundredths, and whether its image can be read and is good    *)
(* enough.  Records are named by their position in what was given.         *)
(* Abstracted: images, scores and prompts; the answer of the model is one  *)
(* of a few labels, "unknown" for one that is not understood, or "error".  *)
(***************************************************************************)
EXTENDS Integers, Sequences, FiniteSets, FiniteSetsExt, SequencesExt, Functions

CONSTANTS
    Scenarios,      \* the records a track may have: sequences of crops
    VehicleClasses, \* among them "CAR", which has a body type, and "UNKNOWN"
    Labels,         \* answers that are understood
    BestCrops,      \* best_crops_per_track
    MaxCrops        \* maximum_crops_per_track, also of the body type

Crops ==
    [frame : Nat, source : {"raw", "zone", "existing"}, tier : {"preferred", "acceptable", "below"},
     size : {"preferred", "usable", "small"}, quality : Nat,
     state : {"fine", "penalized", "unreadable"}]

ASSUME AttributeAssumption ==
    /\ Scenarios \subseteq Seq(Crops)
    /\ BestCrops \in Nat \ {0} /\ MaxCrops \in Nat \ {0}
    /\ "unknown" \notin Labels /\ "error" \notin Labels

VARIABLES
    given,      \* the crops of the track
    vehicle,    \* its class
    mode,       \* which code classifies, and with which strategy
    source,     \* evidence.source of the configuration
    chosen,     \* the selected crops, the best first
    calls,      \* the model calls still to be made
    made,       \* the calls made, with their answers
    rowNotes,   \* why the flow has no colour of a crop, "none" if it has one
    result,     \* the result of the track
    attrStage   \* "given", "asking", "done"

inputVars == <<given, vehicle, mode, source>>
attrVars == <<inputVars, chosen, calls, made, rowNotes, result, attrStage>>

AttributeModes == {"flow", "adaptive", "classifiers"}
Sources == {"zone", "zone_or_existing", "existing"}
NoResult == [status |-> "none"]
NoNotes == [i \in {} |-> "none"]
Bool(b) == IF b THEN 1 ELSE 0

-----------------------------------------------------------------------------
(* Selection *)

Readable(i) == given[i].state # "unreadable"
LargeEnough(i) == Readable(i) /\ given[i].tier # "below"
Penalized(i) == given[i].state = "penalized"

(* Keys are compared from the left, larger ones first, and equal ones stay *)
(* in their places.                                                        *)
Larger(a, b) == \E n \in DOMAIN a : a[n] > b[n] /\ \A m \in 1..(n - 1) : a[m] = b[m]
Sorted(S, key, place) ==
    LET before(i, j) == \/ Larger(key[i], key[j])
                        \/ key[i] = key[j] /\ place[i] < place[j]
    IN  CHOOSE s \in SetToSeqs(S) : \A m, n \in DOMAIN s : m < n => before(s[m], s[n])

(* adapt_track: of records that show one frame the first one counts.       *)
Adapted(origin) ==
    {i \in DOMAIN given : /\ given[i].source = origin
                          /\ \A j \in 1..(i - 1) :
                                given[j].source = origin => given[j].frame # given[i].frame}

(* _select_adapted_evidence, and the raw crops, which are always added.    *)
Evidence ==
    Adapted("raw") \cup
        IF source = "existing" \/ (source = "zone_or_existing" /\ Adapted("zone") = {})
        THEN Adapted("existing") ELSE Adapted("zone")

(* ranking_score of score_item. *)
Score(i) ==
    given[i].quality - (IF Penalized(i) THEN 20 ELSE 0)
        + (CASE given[i].tier = "preferred" -> 12 [] given[i].tier = "acceptable" -> 5
             [] OTHER -> -25)

Rank(i) == <<Bool(given[i].source = "zone"), Bool(given[i].tier = "preferred"), Score(i),
             given[i].quality, given[i].frame>>

(* _select_best_evidence: crops that are too small only if all are.        *)
SelectedCrops(items) ==
    LET large == {i \in items : LargeEnough(i)}
        eligible == IF large # {} THEN large ELSE {i \in items : Readable(i)}
        ranked == Sorted(eligible, [i \in items |-> Rank(i)], [i \in items |-> i])
    IN  SubSeq(ranked, 1, Min({BestCrops, Len(ranked)}))

Prefix(s) == SubSeq(s, 1, Min({MaxCrops, Len(s)}))

(* The best crops that are three frames apart, up to MaxCrops.  The        *)
(* classifiers accept two crops of one frame.                              *)
Close(i, j) ==
    /\ given[i].frame - given[j].frame \in -2..2
    /\ mode = "classifiers" => given[i].frame # given[j].frame
Spaced(ordered) ==
    LET Add(crops, i) == IF Len(crops) >= MaxCrops \/ \E j \in Range(crops) : Close(i, j)
                         THEN crops ELSE Append(crops, i)
        kept[n \in 0..Len(ordered)] ==
            IF n = 0 THEN <<>> ELSE Add(kept[n - 1], ordered[n])
    IN  kept[Len(ordered)]

(* Which crops are asked about, in this order.                             *)
PlaceIn(items) == [i \in Range(items) |-> CHOOSE n \in DOMAIN items : items[n] = i]

FlowBodies(items) ==
    LET key == [i \in Range(items) |->
                   <<Bool(given[i].size = "preferred"), given[i].quality,
                     Bool(given[i].source = "zone")>>]
        usable == {i \in Range(items) : given[i].size # "small" /\ ~ Penalized(i)}
    IN  Spaced(Sorted(usable, key, PlaceIn(items)))

ByQuality(items, S) ==
    LET key == [i \in Range(items) |-> <<Bool(given[i].tier = "preferred"), given[i].quality>>]
    IN  Spaced(Sorted(S, key, PlaceIn(items)))

AskedColours(items) ==
    IF vehicle = "UNKNOWN" THEN <<>>
    ELSE IF mode # "classifiers" THEN Prefix(items) ELSE ByQuality(items, Range(items))
AskedBodies(items) ==
    IF vehicle # "CAR" THEN <<>>
    ELSE IF mode # "classifiers" THEN FlowBodies(Prefix(items))
    ELSE ByQuality(items, {i \in Range(items) : LargeEnough(i) /\ ~ Penalized(i)})

CallsFor(attribute, asked) == [n \in DOMAIN asked |-> [attribute |-> attribute, crop |-> asked[n]]]

-----------------------------------------------------------------------------
(* Voting.  aggregate_predictions, and _aggregate_predictions of the two   *)
(* classifiers, which also refuse a single label of little weight.         *)

Votes(attribute) ==
    {[crop |-> made[n].crop, label |-> made[n].label, weight |-> given[made[n].crop].quality] :
        n \in {m \in DOMAIN made : made[m].attribute = attribute}}
Weight(votes, label) ==
    SumFunctionOnSet([v \in votes |-> v.weight], {v \in votes : v.label = label})

Decision(votes, weakest) ==
    LET labels == {v.label : v \in votes} \cap Labels
        W(label) == Weight(votes, label)
        top == CHOOSE a \in labels : \A b \in labels : W(b) <= W(a)
        second == Max({W(b) : b \in labels \ {top}})
    IN  IF labels = {} THEN "unknown"
        ELSE IF labels = {top} THEN IF W(top) < weakest THEN "unknown" ELSE top
        ELSE IF (W(top) - second) * 100 <= Max({500, 15 * W(top)}) THEN "unknown"
        ELSE IF 5 * W(top) >= 3 * SumFunctionOnSet([a \in labels |-> W(a)], labels) THEN top
        ELSE "unknown"

LeastWeight == IF mode = "classifiers" THEN 40 ELSE 0

(* _adaptive_colour_result: the first answer that is understood.           *)
FirstValid ==
    LET valid == {n \in DOMAIN made : made[n].attribute = "colour" /\ made[n].label \in Labels}
    IN  IF valid = {} THEN "unknown" ELSE made[Min(valid)].label

ColourAnswer == IF mode = "adaptive" THEN FirstValid ELSE Decision(Votes("colour"), LeastWeight)
BodyAnswer == Decision(Votes("body"), LeastWeight)

(* _resolve_colour_selection_tier, of the crops that were asked about.     *)
ReportedTier ==
    LET tiers == {given[v.crop].tier : v \in Votes("colour")}
    IN  IF "below" \in tiers THEN "low_resolution"
        ELSE IF "acceptable" \in tiers THEN "acceptable"
        ELSE IF "preferred" \in tiers THEN "preferred" ELSE "none"

-----------------------------------------------------------------------------

AttrInit ==
    /\ given \in Scenarios /\ vehicle \in VehicleClasses
    /\ mode \in AttributeModes /\ source \in Sources
    /\ chosen = <<>> /\ calls = <<>> /\ made = <<>>
    /\ rowNotes = NoNotes /\ result = NoResult /\ attrStage = "given"

PrepareTrack ==
    /\ attrStage = "given" /\ Evidence # {}
    /\ LET items == SelectedCrops(Evidence)
           colours == CallsFor("colour", AskedColours(items))
           bodies == CallsFor("body", AskedBodies(items))
       IN  /\ chosen' = items
           /\ calls' = IF mode = "classifiers" THEN bodies \o colours ELSE colours \o bodies
           /\ rowNotes' = [i \in Range(Prefix(items)) |->
                             IF vehicle = "UNKNOWN" THEN "not_eligible" ELSE "none"]
    /\ attrStage' = "asking"
    /\ UNCHANGED <<inputVars, made, result>>

NoEvidence ==
    /\ attrStage = "given" /\ Evidence = {}
    /\ result' = [status |-> "NO_EVIDENCE"] /\ attrStage' = "done"
    /\ UNCHANGED <<inputVars, chosen, calls, made, rowNotes>>

(* The flow loads the model before its first call; _build_error_result.    *)
LoadFails ==
    /\ attrStage = "asking" /\ made = <<>> /\ mode # "classifiers"
    /\ result' = [status |-> "ERROR"] /\ attrStage' = "done"
    /\ chosen' = <<>> /\ calls' = <<>> /\ rowNotes' = NoNotes
    /\ UNCHANGED <<inputVars, made>>

(* What the older colour classifier makes of its first and second prompt.  *)
PromptOutcome(first, second) ==
    IF first \in Labels THEN first
    ELSE IF second \in Labels THEN second
    ELSE IF first = "error" /\ second = "error" THEN "error" ELSE "unknown"

(* The calls that remain after an answer.                                  *)
(* Mutant: a later crop is asked although an earlier one had an answer. *)
FaultyCallsLeft(label) == Tail(calls)
CallsLeft(label) ==
    LET bodies == {n \in DOMAIN calls : calls[n].attribute # "colour"}
    IN  IF mode # "adaptive" \/ Head(calls).attribute # "colour" \/ label \notin Labels
        THEN Tail(calls)
        ELSE IF bodies = {} THEN <<>> ELSE SubSeq(calls, Min(bodies), Len(calls))

(* The rows of the flow: a crop whose call failed, and those given up.     *)
Notes(call, label) ==
    LET dropped == {c.crop : c \in Range(Tail(calls)) \ Range(CallsLeft(label))}
    IN  [i \in DOMAIN rowNotes |->
            IF i \in dropped THEN "not_needed"
            ELSE IF call = [attribute |-> "colour", crop |-> i] /\ label = "error"
            THEN "missing_crop" ELSE rowNotes[i]]

AskModel ==
    /\ attrStage = "asking" /\ calls # <<>>
    /\ \E first, second \in Labels \cup {"unknown", "error"} :
         LET call == Head(calls)
             twice == mode = "classifiers" /\ call.attribute = "colour"
             label == IF twice THEN PromptOutcome(first, second) ELSE first
         IN  /\ ~ twice => second = first
             /\ made' = Append(made, [attribute |-> call.attribute, crop |-> call.crop,
                                      label |-> label])
             /\ calls' = CallsLeft(label)
             /\ rowNotes' = Notes(call, label)
    /\ UNCHANGED <<inputVars, chosen, result, attrStage>>

DecideAttributes ==
    /\ attrStage = "asking" /\ calls = <<>>
    /\ result' = [status |-> IF chosen = <<>> THEN "NO_EVIDENCE" ELSE "COMPLETED",
                  colour |-> ColourAnswer, body |-> BodyAnswer, tier |-> ReportedTier]
    /\ attrStage' = "done"
    /\ UNCHANGED <<inputVars, chosen, calls, made, rowNotes>>

AttrNext == PrepareTrack \/ NoEvidence \/ LoadFails \/ AskModel \/ DecideAttributes
AttrSpec == AttrInit /\ [][AttrNext]_attrVars

-----------------------------------------------------------------------------
(* Properties *)

Answered == attrStage = "done" /\ result.status = "COMPLETED"
CropsAsked(attribute) == {v.crop : v \in Votes(attribute)}

(* A colour is read off a crop below the minimum resolution only if the    *)
(* evidence that was adapted, of whatever origin, had no readable crop     *)
(* above it (_select_best_evidence, _resolve_colour_selection_tier).       *)
SmallCropsAreLast ==
    Answered /\ result.tier = "low_resolution" => \A i \in Evidence : ~ LargeEnough(i)

(* The adaptive strategy asks about the crops in their order and stops at  *)
(* the first answer, and the rows of the flow account for every selected   *)
(* crop: it was asked about, or the row says why not (classify).           *)
ColoursAreAccounted ==
    /\ mode = "adaptive" =>
         \A n, m \in DOMAIN made :
            n < m /\ made[n].attribute = "colour" /\ made[m].attribute = "colour"
                => made[n].label \notin Labels
    /\ Answered /\ mode # "classifiers" =>
         \A i \in DOMAIN rowNotes :
            rowNotes[i] \in {"none", "missing_crop"} <=> i \in CropsAsked("colour")

(* The body type is asked of cars only, and of crops the flow keeps three  *)
(* frames apart, so that no two of them show the same moment               *)
(* (_select_body_type_items).                                              *)
BodiesAreApart ==
    /\ CropsAsked("body") # {} => vehicle = "CAR"
    /\ mode # "classifiers" =>
         \A i, j \in CropsAsked("body") :
            i # j => given[i].frame - given[j].frame \notin -2..2

(* A colour that was decided stays decided if one crop more agrees, and in *)
(* the flow also if the crops that disagree are left out                   *)
(* (aggregate_predictions).  The classifiers break the second: a label too *)
(* weak to count alone counts when another one disagrees a little.         *)
AgreementCounts ==
    Answered /\ mode # "adaptive" /\ result.colour \in Labels =>
        LET votes == Votes("colour")
            More(w) == votes \cup {[crop |-> 0, label |-> result.colour, weight |-> w]}
            agreeing == {v \in votes : v.label = result.colour}
        IN  /\ \A w \in {0, 20, 100} : Decision(More(w), LeastWeight) = result.colour
            /\ mode = "flow" => Decision(agreeing, LeastWeight) = result.colour
=============================================================================
