---------------------------- MODULE ServicesProofs ---------------------------
(***************************************************************************)
(* The modules that share no state with one another, for all values of     *)
(* their constants: first those without a proof module of their own, then  *)
(* the properties that Services gathers of all of them.                    *)
(***************************************************************************)
EXTENDS Services, EvidenceProofs, RunStateProofs

-----------------------------------------------------------------------------
(* DetectorRouting                                                         *)

(* The packets of a batch, and the keys of trackers.                       *)
Packets == [camera : RouteCameras, raw : SUBSET RawDetections]
TrackerKeys == RouteCameras \X (AllowedClasses \cup {"camera"})

RouteTypes ==
    /\ perClass \in BOOLEAN
    /\ batch \in Seq(Packets)
    /\ DOMAIN since = DOMAIN trackers /\ DOMAIN trackers \subseteq TrackerKeys
    /\ \A key \in DOMAIN trackers : trackers[key] \in Nat /\ since[key] \in Nat
    /\ routed \in [RouteCameras -> Nat]

(* What makes the properties inductive: without isolation a camera has one *)
(* tracker, and every frame of the camera finds it.                        *)
RouteInv ==
    /\ RouteTypes
    /\ ~ perClass => \A key \in DOMAIN trackers : key[2] = "camera"
    /\ TrackersSeeEveryFrame
    /\ OnlyEligibleTracked

-----------------------------------------------------------------------------
(* The model's own result is handed on only when no filter had taken a     *)
(* detection of it, so that nothing unfiltered gets through.               *)
LEMMA HandedOnIsEligible ==
    ASSUME NEW camera \in RouteCameras, NEW raw \in SUBSET RawDetections
    PROVE  /\ HandedOn(camera, raw) \subseteq Eligible(camera, raw)
           /\ \A d \in HandedOn(camera, raw) :
                 d.class \in AllowedClasses /\ d \in Eligible(camera, {d})
<1> DEFINE own == {d \in raw : d.class \in AllowedClasses}
           fit == Eligible(camera, raw)
<1>1. IsFiniteSet(own)
    <2>1. own \in SUBSET RawDetections /\ IsFiniteSet(RawDetections)
        BY RouteAssumption DEF RouteAssumption
    <2> HIDE DEF own
    <2> QED
        BY <2>1, FS_Subset
<1>2. fit \in SUBSET own
    BY DEF Eligible, Accepted, Converted
<1>3. HandedOn(camera, raw) =
          IF tensor /\ ~perClass /\ Cardinality(own) = Cardinality(fit) THEN own ELSE fit
    BY DEF HandedOn
<1>4. HandedOn(camera, raw) \subseteq fit
    <2> HIDE DEF own, fit
    <2> QED
        BY <1>1, <1>2, <1>3, FS_Subset
<1>5. \A d \in fit : d.class \in AllowedClasses /\ d \in Eligible(camera, {d})
    BY DEF Eligible, Accepted, Converted
<1> QED
    BY <1>4, <1>5

(* A packet updates the trackers of its camera, all of them, and those its *)
(* detections call for.                                                    *)
LEMMA PacketRouted == RouteInv /\ RoutePacket => RouteInv'
<1> SUFFICES ASSUME RouteInv, RoutePacket PROVE RouteInv'
    OBVIOUS
<1>1. PICK camera, raw : camera = Head(batch).camera /\ raw = Head(batch).raw
    OBVIOUS
<1>2. PICK detections : detections = HandedOn(camera, raw)
    OBVIOUS
<1>3. PICK spaces : spaces = Namespaces(camera, detections)
    OBVIOUS
<1>4. PICK keys : keys = {Key(camera, s) : s \in spaces}
    OBVIOUS
<1>5. PICK known : known = DOMAIN trackers
    OBVIOUS
<1>6. /\ batch # <<>>
      /\ trackers' = [k \in known \cup keys |->
             (IF k \in known THEN trackers[k] ELSE 0) + (IF k \in keys THEN 1 ELSE 0)]
      /\ since' = [k \in known \cup keys |->
             IF k \in known THEN since[k] ELSE routed[camera]]
      /\ fed' = UNION {[key : {Key(camera, s)}, camera : {camera},
                        detection : Share(s, detections)] : s \in spaces}
      /\ routed' = [routed EXCEPT ![camera] = routed[camera] + 1]
      /\ batch' = Tail(batch)
      /\ UNCHANGED <<perClass, tensor, quality, roi>>
    BY <1>1, <1>2, <1>3, <1>4, <1>5, Zenon DEF RoutePacket, Modes
<1>7. /\ camera \in RouteCameras /\ raw \in SUBSET RawDetections /\ batch' \in Seq(Packets)
      /\ routed \in [RouteCameras -> Nat] /\ perClass \in BOOLEAN
    <2>1. batch \in Seq(Packets) /\ Head(batch) \in Packets
        BY <1>6, TailFacts DEF RouteInv, RouteTypes
    <2>2. Tail(batch) \in Seq(Packets)
        BY <1>6, <2>1, TailFacts
    <2> QED
        BY <1>1, <1>6, <2>1, <2>2 DEF Packets, RouteInv, RouteTypes
<1>8. /\ \A d \in detections : d.class \in AllowedClasses /\ d \in Eligible(camera, {d})
    BY <1>2, <1>7, HandedOnIsEligible
<1>9. /\ known \subseteq TrackerKeys
      /\ \A k \in known : trackers[k] \in Nat /\ since[k] \in Nat
      /\ \A k \in known : trackers[k] = routed[k[1]] - since[k]
      /\ ~ perClass => \A k \in known : k[2] = "camera"
    BY <1>5 DEF RouteInv, RouteTypes, TrackersSeeEveryFrame
<1>10. /\ \A k \in keys : k \in TrackerKeys /\ k[1] = camera
       /\ ~ perClass => \A k \in keys : k[2] = "camera"
    <2>1. CASE perClass
        <3>1. \A s \in spaces : s \in AllowedClasses \cup {"camera"}
            BY <1>3, <1>5, <1>8, <1>9, <2>1 DEF Namespaces, TrackerKeys
        <3> QED
            BY <1>4, <1>7, <2>1, <3>1 DEF Key, TrackerKeys
    <2>2. CASE ~ perClass
        BY <1>4, <1>7, <2>2 DEF Key, TrackerKeys
    <2> QED
        BY <2>1, <2>2
<1>11. \A k \in known : k[1] = camera => k \in keys
    <2> SUFFICES ASSUME NEW k \in known, k[1] = camera PROVE k \in keys
        OBVIOUS
    <2>1. k = <<k[1], k[2]>>
        BY <1>9 DEF TrackerKeys
    <2>2. CASE perClass
        <3>1. k[2] \in spaces
            BY <1>3, <1>5, <2>2 DEF Namespaces
        <3>2. Key(camera, k[2]) = k
            BY <2>1, <2>2 DEF Key
        <3> QED
            BY <1>4, <3>1, <3>2
    <2>3. CASE ~ perClass
        <3>1. "camera" \in spaces
            BY <1>3, <2>3 DEF Namespaces
        <3>2. Key(camera, "camera") = k
            BY <1>9, <2>1, <2>3 DEF Key
        <3> QED
            BY <1>4, <3>1, <3>2
    <2> QED
        BY <2>2, <2>3
<1>12. /\ routed' \in [RouteCameras -> Nat] /\ routed[camera] \in Nat
       /\ routed'[camera] = routed[camera] + 1
       /\ \A c \in RouteCameras : c # camera => routed'[c] = routed[c]
    BY <1>6, <1>7
<1>13. /\ DOMAIN trackers' = known \cup keys /\ DOMAIN since' = known \cup keys
       /\ \A k \in known \cup keys :
            /\ trackers'[k] = (IF k \in known THEN trackers[k] ELSE 0)
                                 + (IF k \in keys THEN 1 ELSE 0)
            /\ since'[k] = IF k \in known THEN since[k] ELSE routed[camera]
    BY <1>6
<1>14. ASSUME NEW k \in known \cup keys
       PROVE  /\ k \in TrackerKeys
              /\ trackers'[k] \in Nat /\ since'[k] \in Nat
              /\ trackers'[k] = routed'[k[1]] - since'[k]
    <2>1. k \in TrackerKeys /\ k[1] \in RouteCameras
        BY <1>9, <1>10 DEF TrackerKeys
    <2>2. CASE k \in known /\ k \in keys
        BY <1>9, <1>10, <1>12, <1>13, <2>1, <2>2
    <2>3. CASE k \in known /\ k \notin keys
        BY <1>9, <1>11, <1>12, <1>13, <2>1, <2>3
    <2>4. CASE k \notin known
        BY <1>10, <1>12, <1>13, <2>1, <2>4
    <2> QED
        BY <2>1, <2>2, <2>3, <2>4
<1>15. RouteTypes'
    BY <1>6, <1>7, <1>12, <1>13, <1>14 DEF RouteTypes
<1>16. ~ perClass' => \A k \in DOMAIN trackers' : k[2] = "camera"
    BY <1>6, <1>9, <1>10, <1>13
<1>17. TrackersSeeEveryFrame'
    BY <1>13, <1>14 DEF TrackersSeeEveryFrame
<1>18. OnlyEligibleTracked'
    <2> SUFFICES ASSUME NEW f \in fed'
                 PROVE  /\ f.key[1] = f.camera
                        /\ perClass => f.key[2] = f.detection.class
                        /\ f.detection \in Eligible(f.camera, {f.detection})'
        BY <1>6 DEF OnlyEligibleTracked
    <2>1. PICK s \in spaces : f \in [key : {Key(camera, s)}, camera : {camera},
                                     detection : Share(s, detections)]
        BY <1>6
    <2>2. f.key = Key(camera, s) /\ f.camera = camera /\ f.detection \in Share(s, detections)
        BY <2>1
    <2>3. f.detection \in detections /\ (perClass => f.detection.class = s)
        BY <2>2 DEF Share
    <2>4. f.key[1] = camera /\ (perClass => f.key[2] = s)
        BY <2>2 DEF Key
    <2>5. f.detection \in Eligible(camera, {f.detection})
        BY <1>8, <2>3
    <2>6. Eligible(camera, {f.detection})' = Eligible(camera, {f.detection})
        BY <1>6 DEF Eligible, Accepted, Converted
    <2> QED
        BY <2>2, <2>3, <2>4, <2>5, <2>6
<1> QED
    BY <1>15, <1>16, <1>17, <1>18 DEF RouteInv

(* Every step keeps it.                                                    *)
LEMMA RouteStep == RouteInv /\ [RouteNext]_routeVars => RouteInv'
<1> SUFFICES ASSUME RouteInv, [RouteNext]_routeVars PROVE RouteInv'
    OBVIOUS
<1>1. CASE RoutePacket
    BY <1>1, PacketRouted
<1>2. CASE ~ RoutePacket
    <2>1. UNCHANGED <<perClass, tensor, quality, roi, routed, fed>>
        BY <1>2 DEF RouteNext, DetectBatch, DetectionFails, FinishRouting, routeVars, Modes
    <2>2. \/ UNCHANGED <<trackers, since>>
          \/ DOMAIN trackers' = {} /\ DOMAIN since' = {}
        BY <1>2 DEF RouteNext, DetectBatch, DetectionFails, FinishRouting, routeVars
    <2>3. batch' \in Seq(Packets)
        <3>1. CASE DetectBatch
            <4>0. PICK n \in 1..MaxBatch :
                     \E cameras \in [1..n -> RouteCameras] :
                     \E raws \in [1..n -> {raw \in SUBSET RawDetections : Cardinality(raw) <= MaxRaw}] :
                        batch' = [i \in 1..n |-> [camera |-> cameras[i], raw |-> raws[i]]]
                BY <3>1 DEF DetectBatch
            <4>1. PICK cameras \in [1..n -> RouteCameras],
                       raws \in [1..n -> {raw \in SUBSET RawDetections : Cardinality(raw) <= MaxRaw}] :
                     batch' = [i \in 1..n |-> [camera |-> cameras[i], raw |-> raws[i]]]
                BY <4>0
            <4>2. \A i \in 1..n : [camera |-> cameras[i], raw |-> raws[i]] \in Packets
                BY DEF Packets
            <4>3. n \in Nat
                BY RouteAssumption DEF RouteAssumption
            <4> QED
                BY <4>1, <4>2, <4>3
        <3>2. CASE ~ DetectBatch
            BY <1>2, <3>2
            DEF RouteNext, DetectionFails, FinishRouting, routeVars, RouteInv, RouteTypes
        <3> QED
            BY <3>1, <3>2
    <2>4. OnlyEligibleTracked'
        BY <2>1 DEF RouteInv, OnlyEligibleTracked, Eligible, Accepted, Converted
    <2> QED
        BY <2>1, <2>2, <2>3, <2>4 DEF RouteInv, RouteTypes, TrackersSeeEveryFrame
<1> QED
    BY <1>1, <1>2

(* The trackers of a camera are updated in step with its frames, and with  *)
(* eligible detections only (process_frames).                              *)
LEMMA RouteInvariant == RouteSpec => []RouteInv
<1>1. RouteInit => RouteInv
    BY DEF RouteInit, RouteInv, RouteTypes, TrackersSeeEveryFrame, OnlyEligibleTracked
<1> QED
    BY <1>1, RouteStep, PTL DEF RouteSpec

-----------------------------------------------------------------------------
(* VehicleIdentity                                                         *)

-----------------------------------------------------------------------------
(* Rows: what an accepted pair says of its tracks.                         *)

Taken == Len(reads)
Plates == PlateReads \cup {[text |-> "none", quality |-> "UNUSABLE"]}

IdentityTypes ==
    /\ reads \in Seq(Plates) /\ skipped \subseteq 1 .. Taken
    /\ vehicles \in Seq(SUBSET ((1 .. Taken) \ skipped))
    /\ DOMAIN rows \subseteq (1 .. Taken) \X (1 .. Taken)
    /\ \A p \in DOMAIN rows : rows[p].facts \in PairFacts

(* Every two tracks that were taken up have a row, which is what their     *)
(* facts and their plates make of them.                                    *)
RowsAreOfPairs ==
    \A u, t \in (1 .. Taken) \ skipped :
        u < t => /\ <<u, t>> \in DOMAIN rows
                 /\ rows[<<u, t>>].seen = Row(rows[<<u, t>>].facts, Relation(reads[u], reads[t]))

MembersAgree ==
    /\ \A v, w \in DOMAIN vehicles : v # w => vehicles[v] \cap vehicles[w] = {}
    /\ \A v \in DOMAIN vehicles : \A u, t \in vehicles[v] :
          u < t => ~ rows[<<u, t>>].seen.rejected /\ rows[<<u, t>>].seen.score >= Floor

IdentityInv == IdentityTypes /\ RowsAreOfPairs /\ MembersAgree

(* A pair without a reason fails no gate.                                  *)
LEMMA GateReasons ==
    ASSUME NEW f \in PairFacts
    PROVE  /\ GateReason(f) = "" => f.fails = {}
           /\ GateReason(f) \in Gates \cup {""}
           /\ f.fails \cap {"camera", "class"} # {} => GateReason(f) \in {"camera", "class"}
<1>1. f.fails \subseteq Gates
    BY IdentityAssumption DEF IdentityAssumption
<1> DEFINE order == <<"camera", "class", "gap", "jump">>
           failed == {i \in 1 .. 4 : order[i] \in f.fails}
<1>2. order[1] = "camera" /\ order[2] = "class" /\ order[3] = "gap" /\ order[4] = "jump"
    OBVIOUS
<1>3. GateReason(f) = IF failed = {} THEN "" ELSE order[Min(failed)]
    BY DEF GateReason
<1> HIDE DEF order
<1>4. failed = {} => f.fails = {}
    BY <1>1, <1>2 DEF Gates
<1>5. failed # {} => Min(failed) \in failed /\ \A i \in failed : Min(failed) <= i
    <2>1. failed \subseteq 1 .. 4
        OBVIOUS
    <2> HIDE DEF failed
    <2>2. ASSUME failed # {} PROVE \E m \in failed : \A i \in failed : m <= i
        <3>1. \A i \in failed : i = 1 \/ i = 2 \/ i = 3 \/ i = 4
            BY <2>1
        <3>2. CASE 1 \in failed
            BY <3>1, <3>2
        <3>3. CASE 1 \notin failed /\ 2 \in failed
            BY <3>1, <3>3
        <3>4. CASE 1 \notin failed /\ 2 \notin failed /\ 3 \in failed
            BY <3>1, <3>4
        <3>5. CASE 1 \notin failed /\ 2 \notin failed /\ 3 \notin failed
            BY <2>2, <3>1, <3>5
        <3> QED
            BY <3>2, <3>3, <3>4, <3>5
    <2> QED
        BY <2>2 DEF Min
<1>6. f.fails \cap {"camera", "class"} # {} => 1 \in failed \/ 2 \in failed
    BY <1>2
<1>7. 1 \in failed \/ 2 \in failed => Min(failed) \in {1, 2}
    BY <1>5
<1>8. failed # {} => order[Min(failed)] \in Gates /\ order[Min(failed)] # ""
    BY <1>1, <1>5 DEF Gates
<1> QED
    BY <1>2, <1>3, <1>4, <1>6, <1>7, <1>8

(* No plate outweighs a gate about the camera, the class or the clear      *)
(* sight of two vehicles; only equal good plates outweigh another.         *)
LEMMA AcceptedRows ==
    ASSUME NEW f \in PairFacts, NEW a \in Plates, NEW b \in Plates,
           ~ Row(f, Relation(a, b)).rejected
    PROVE  /\ f.fails \cap {"camera", "class"} = {}
           /\ f.overlap # "distinct"
           /\ f.fails # {} => a = b /\ a.quality = "HIGH"
           /\ PlateAssistance /\ ContradictionVeto => Relation(a, b) # "STRONG_NEGATIVE"
<1>1. PICK relation : relation = Relation(a, b)
    OBVIOUS
<1>2. PICK reason : reason = Reason(f)
    OBVIOUS
<1>3. PlateAssistance /\ ContradictionVeto => relation # "STRONG_NEGATIVE"
    BY <1>1 DEF Row
<1>4. reason # "" => relation = "STRONG_POSITIVE" /\ ~ Blocked(reason)
    BY <1>1, <1>2 DEF Row
<1>5. reason \notin {"camera", "class", "distinct", "neither"}
    BY <1>4 DEF Blocked
<1>6. f.overlap # "distinct" /\ reason = GateReason(f)
    BY <1>2, <1>5 DEF Reason
<1>7. f.fails \cap {"camera", "class"} = {}
    BY <1>5, <1>6, GateReasons
<1>8. ASSUME f.fails # {} PROVE a = b /\ a.quality = "HIGH"
    <2>1. relation = "STRONG_POSITIVE"
        BY <1>4, <1>6, <1>8, GateReasons
    <2>2. a.quality = "HIGH" /\ b.quality = "HIGH" /\ a.text = b.text
        BY <1>1, <2>1 DEF Relation
    <2>3. a = [text |-> a.text, quality |-> a.quality] /\ b = [text |-> b.text, quality |-> b.quality]
        BY IdentityAssumption DEF IdentityAssumption, Plates
    <2> QED
        BY <2>2, <2>3
<1> QED
    BY <1>1, <1>3, <1>6, <1>7, <1>8

-----------------------------------------------------------------------------

(* The scores of rows, which two thresholds or penalties may bound.        *)
LEMMA ScoresAreInts ==
    ASSUME NEW f \in PairFacts, NEW relation
    PROVE  Row(f, relation).score \in Int /\ Floor \in Int
<1>1. f.score \in Int
    BY IdentityAssumption DEF IdentityAssumption
<1>2. /\ Floor \in Int /\ ExactFloor \in Int /\ ExactBonus \in Int
      /\ PartialBonus \in Int /\ WeakPenalty \in Int
    BY IdentityAssumption DEF IdentityAssumption
<1>3. ASSUME NEW a \in Int, NEW b \in Int
      PROVE  Max({a, b}) \in Int /\ Min({a, b}) \in Int
    <2>1. CASE a >= b
        <3>1. (CHOOSE x \in {a, b} : \A y \in {a, b} : x >= y) \in {a, b}
              /\ (CHOOSE x \in {a, b} : \A y \in {a, b} : x <= y) \in {a, b}
            BY <2>1
        <3> QED
            BY <3>1 DEF Max, Min
    <2>2. CASE ~ (a >= b)
        <3>1. (CHOOSE x \in {a, b} : \A y \in {a, b} : x >= y) \in {a, b}
              /\ (CHOOSE x \in {a, b} : \A y \in {a, b} : x <= y) \in {a, b}
            BY <2>2
        <3> QED
            BY <3>1 DEF Max, Min
    <2> QED
        BY <2>1, <2>2
<1>4. PICK base : base = IF Reason(f) = "" THEN f.score ELSE 0
    OBVIOUS
<1>5. base \in Int
    <2>1. CASE Reason(f) = ""
        BY <1>1, <1>4, <2>1, Zenon
    <2>2. CASE Reason(f) # ""
        <3>1. base = 0
            BY <1>4, <2>2, Zenon
        <3> QED
            BY <3>1
    <2> QED
        BY <2>1, <2>2
<1>6. /\ Max({base, ExactFloor}) \in Int /\ Min({100, base + PartialBonus}) \in Int
      /\ Max({0, base - WeakPenalty}) \in Int
    <2>1. 100 \in Int /\ 0 \in Int /\ base + PartialBonus \in Int /\ base - WeakPenalty \in Int
        BY <1>2, <1>5
    <2> QED
        BY <1>2, <1>3, <1>5, <2>1, Zenon
<1>7. Max({base, ExactFloor}) + ExactBonus \in Int
    BY <1>2, <1>6
<1>8. \/ Row(f, relation).score = 0
      \/ Row(f, relation).score = Max({base, ExactFloor}) + ExactBonus
      \/ Row(f, relation).score = Min({100, base + PartialBonus})
      \/ Row(f, relation).score = Max({0, base - WeakPenalty})
      \/ Row(f, relation).score = base
    BY <1>4 DEF Row
<1> QED
    BY <1>2, <1>5, <1>6, <1>7, <1>8

(* The next track joins a vehicle none of whose tracks it conflicts with,  *)
(* or becomes a vehicle of its own.                                        *)
LEMMA PlaceIsFair ==
    ASSUME NEW t, NEW new, Place(t, new)
    PROVE  \/ vehicles' = Append(vehicles, {t})
           \/ \E best : /\ vehicles' = [vehicles EXCEPT ![best] = @ \cup {t}]
                       /\ Conflicting(new, best) = {}
<1>1. PICK ranked : ranked = Ranked(new)
    OBVIOUS
<1>2. PICK second : second = IF Len(ranked) > 1 THEN Consistency(new, ranked[2]) ELSE 0
    OBVIOUS
<1>3. PICK why : why = IF ranked = <<>> THEN "no_candidate" ELSE Ambiguity(new, ranked[1], second)
    OBVIOUS
<1>4. vehicles' = IF why = "" THEN [vehicles EXCEPT ![ranked[1]] = @ \cup {t}]
                  ELSE Append(vehicles, {t})
    BY <1>1, <1>2, <1>3 DEF Place
<1>5. CASE why = ""
    <2>1. Ambiguity(new, ranked[1], second) = ""
        BY <1>3, <1>5
    <2>2. Conflicting(new, ranked[1]) = {}
        BY <2>1 DEF Ambiguity
    <2> QED
        BY <1>4, <1>5, <2>2
<1>6. CASE why # ""
    BY <1>4, <1>6
<1> QED
    BY <1>5, <1>6

(* A track finds a vehicle or becomes one, and its vehicle still agrees.   *)
LEMMA PlaceKeeps ==
    ASSUME IdentityInv, PlaceTrack
    PROVE  IdentityInv'
<1> USE DEF IdentityInv
<1>1. PICK plate \in PlateReads, facts \in [(1 .. Len(reads)) \ skipped -> PairFacts] :
          LET t == Len(reads) + 1
              earlier == (1 .. Len(reads)) \ skipped
              new == [u \in earlier |-> Row(facts[u], Relation(reads[u], plate))]
          IN /\ reads' = Append(reads, plate)
             /\ rows' = [p \in DOMAIN rows \cup {<<u, t>> : u \in earlier} |->
                           IF p \in DOMAIN rows THEN rows[p]
                           ELSE [facts |-> facts[p[1]], seen |-> new[p[1]]]]
             /\ Place(t, new)
             /\ UNCHANGED skipped
    BY DEF PlaceTrack
<1>2. PICK n \in Nat : n = Len(reads)
    BY DEF IdentityTypes
<1>3. PICK earlier : earlier = (1 .. n) \ skipped
    OBVIOUS
<1>4. PICK new : new = [u \in (1 .. Len(reads)) \ skipped |-> Row(facts[u], Relation(reads[u], plate))]
    OBVIOUS
<1>5. Place(n + 1, new)
    BY <1>1, <1>2, <1>4
<1>6. DOMAIN new = earlier /\ \A u \in earlier : new[u] = Row(facts[u], Relation(reads[u], plate))
    BY <1>2, <1>3, <1>4
<1>7. reads' = Append(reads, plate) /\ skipped' = skipped
    BY <1>1
<1>8. /\ DOMAIN rows' = DOMAIN rows \cup {<<u, n + 1>> : u \in earlier}
      /\ \A p \in DOMAIN rows : rows'[p] = rows[p]
      /\ \A u \in earlier : <<u, n + 1>> \notin DOMAIN rows =>
             rows'[<<u, n + 1>>] = [facts |-> facts[u], seen |-> new[u]]
    BY <1>1, <1>2, <1>3, <1>4
<1>9. /\ reads' \in Seq(Plates) /\ Taken' = n + 1 /\ reads'[n + 1] = plate
      /\ \A u \in 1 .. n : reads'[u] = reads[u]
    BY <1>2, <1>7 DEF IdentityTypes, Plates, Taken
<1>10. \A u \in earlier : <<u, n + 1>> \notin DOMAIN rows
    BY <1>2 DEF IdentityTypes, Taken
<1>11. \A u \in earlier : facts[u] \in PairFacts
    BY <1>2, <1>3
<1>12. /\ DOMAIN rows' \subseteq (1 .. n + 1) \X (1 .. n + 1)
       /\ \A p \in DOMAIN rows' : rows'[p].facts \in PairFacts
    <2>1. \A p \in DOMAIN rows : p \in (1 .. n + 1) \X (1 .. n + 1)
        BY <1>2 DEF IdentityTypes, Taken
    <2>2. \A u \in earlier : <<u, n + 1>> \in (1 .. n + 1) \X (1 .. n + 1)
        BY <1>2, <1>3
    <2>3. ASSUME NEW u \in earlier PROVE rows'[<<u, n + 1>>].facts \in PairFacts
        <3>1. rows'[<<u, n + 1>>] = [facts |-> facts[u], seen |-> new[u]]
            BY <1>8, <1>10
        <3>2. rows'[<<u, n + 1>>].facts = facts[u]
            BY <3>1
        <3> QED
            BY <1>11, <3>2
    <2>4. \A p \in DOMAIN rows : rows'[p].facts \in PairFacts
        BY <1>8 DEF IdentityTypes
    <2> QED
        BY <1>8, <2>1, <2>2, <2>3, <2>4
<1>13. (1 .. n + 1) \ skipped' \subseteq earlier \cup {n + 1}
       /\ earlier \subseteq (1 .. n + 1) \ skipped'
    BY <1>2, <1>3, <1>7
<1>14. RowsAreOfPairs'
    <2>1. SUFFICES ASSUME NEW u \in (1 .. n + 1) \ skipped', NEW t \in (1 .. n + 1) \ skipped', u < t
                   PROVE  /\ <<u, t>> \in DOMAIN rows'
                          /\ rows'[<<u, t>>].seen
                                = Row(rows'[<<u, t>>].facts, Relation(reads'[u], reads'[t]))
        BY <1>9 DEF RowsAreOfPairs
    <2>2. CASE t = n + 1
        <3>1. u \in earlier /\ u \in 1 .. n
            BY <1>2, <1>3, <1>13, <2>1, <2>2
        <3>2. rows'[<<u, t>>] = [facts |-> facts[u], seen |-> new[u]] /\ <<u, t>> \in DOMAIN rows'
            BY <1>8, <1>10, <2>2, <3>1
        <3> QED
            BY <1>6, <1>9, <2>2, <3>1, <3>2
    <2>3. CASE t # n + 1
        <3>1. u \in earlier /\ t \in earlier /\ u \in 1 .. n /\ t \in 1 .. n
            BY <1>2, <1>3, <1>13, <2>1, <2>3
        <3>2. /\ <<u, t>> \in DOMAIN rows
              /\ rows[<<u, t>>].seen = Row(rows[<<u, t>>].facts, Relation(reads[u], reads[t]))
            BY <1>2, <1>3, <2>1, <3>1 DEF RowsAreOfPairs, Taken
        <3> QED
            BY <1>8, <1>9, <3>1, <3>2
    <2> QED
        BY <2>2, <2>3
<1>15. PICK m \in Nat : m = Len(vehicles) /\ DOMAIN vehicles = 1 .. m
    BY DEF IdentityTypes
<1>16. \A v \in 1 .. m : vehicles[v] \subseteq earlier
    BY <1>2, <1>3, <1>15 DEF IdentityTypes, Taken
<1>17. \A u \in earlier : u \in 1 .. n /\ u < n + 1 /\ u \notin skipped
    BY <1>2, <1>3
<1>18. (1 .. Taken') \ skipped' = earlier \cup {n + 1} /\ skipped' \subseteq 1 .. Taken'
    BY <1>2, <1>3, <1>7, <1>9 DEF IdentityTypes, Taken
<1>19. \A u, t \in earlier : u < t =>
          /\ <<u, t>> \in DOMAIN rows /\ rows'[<<u, t>>] = rows[<<u, t>>]
    BY <1>2, <1>3, <1>8 DEF RowsAreOfPairs, Taken
<1>20. \A v \in 1 .. m : \A u, t \in vehicles[v] : u < t =>
          ~ rows'[<<u, t>>].seen.rejected /\ rows'[<<u, t>>].seen.score >= Floor
    <2>1. SUFFICES ASSUME NEW v \in 1 .. m, NEW u \in vehicles[v], NEW t \in vehicles[v], u < t
                   PROVE  ~ rows'[<<u, t>>].seen.rejected /\ rows'[<<u, t>>].seen.score >= Floor
        OBVIOUS
    <2>2. u \in earlier /\ t \in earlier
        BY <1>16
    <2> QED
        BY <1>15, <1>19, <2>1, <2>2 DEF MembersAgree
<1>21. \A v, w \in 1 .. m : v # w => vehicles[v] \cap vehicles[w] = {}
    BY <1>15 DEF MembersAgree
<1>22. CASE vehicles' = Append(vehicles, {n + 1})
    <2>1. /\ DOMAIN vehicles' = 1 .. m + 1 /\ vehicles'[m + 1] = {n + 1}
          /\ \A v \in 1 .. m : vehicles'[v] = vehicles[v]
          /\ vehicles' \in Seq(SUBSET (earlier \cup {n + 1}))
        <3>1. PICK E : E = earlier \cup {n + 1}
            OBVIOUS
        <3>2. PICK vs : vs = vehicles
            OBVIOUS
        <3>3. vs \in Seq(SUBSET E) /\ {n + 1} \in SUBSET E
            <4>1. \A v \in 1 .. m : vs[v] \in SUBSET E
                BY <1>16, <3>1, <3>2
            <4>2. vs \in [1 .. m -> SUBSET E]
                BY <1>15, <3>2, <4>1 DEF IdentityTypes
            <4> QED
                BY <3>1, <4>2
        <3>4. /\ DOMAIN Append(vs, {n + 1}) = 1 .. m + 1
              /\ Append(vs, {n + 1})[m + 1] = {n + 1}
              /\ \A v \in 1 .. m : Append(vs, {n + 1})[v] = vs[v]
              /\ Append(vs, {n + 1}) \in Seq(SUBSET E)
            BY <1>15, <3>2, <3>3
        <3> QED
            BY <1>22, <3>1, <3>2, <3>4
    <2>2. IdentityTypes'
        BY <1>9, <1>12, <1>18, <2>1 DEF IdentityTypes
    <2>3. \A v, w \in 1 .. m + 1 : v # w => vehicles'[v] \cap vehicles'[w] = {}
        BY <1>15, <1>16, <1>17, <1>21, <2>1
    <2>4. \A v \in 1 .. m + 1 : \A u, t \in vehicles'[v] : u < t =>
             ~ rows'[<<u, t>>].seen.rejected /\ rows'[<<u, t>>].seen.score >= Floor
        BY <1>2, <1>15, <1>20, <2>1
    <2> QED
        BY <1>14, <2>1, <2>2, <2>3, <2>4 DEF MembersAgree
<1>23. ASSUME NEW best, vehicles' = [vehicles EXCEPT ![best] = @ \cup {n + 1}],
              Conflicting(new, best) = {}
       PROVE  IdentityInv'
    <2>1. /\ DOMAIN vehicles' = 1 .. m
          /\ \A v \in 1 .. m : vehicles'[v] = IF v = best THEN vehicles[v] \cup {n + 1}
                                              ELSE vehicles[v]
        BY <1>15, <1>23
    <2>2. vehicles' \in Seq(SUBSET (earlier \cup {n + 1}))
        <3>1. \A v \in 1 .. m : vehicles'[v] \in SUBSET (earlier \cup {n + 1})
            BY <1>16, <2>1
        <3>2. vehicles' = [v \in 1 .. m |-> vehicles'[v]]
            BY <1>15, <1>23
        <3>3. vehicles' \in [1 .. m -> SUBSET (earlier \cup {n + 1})]
            BY <3>1, <3>2
        <3> QED
            BY <1>15, <3>3
    <2>3. IdentityTypes'
        BY <1>9, <1>12, <1>18, <2>2 DEF IdentityTypes
    <2>4. \A v, w \in 1 .. m : v # w => vehicles'[v] \cap vehicles'[w] = {}
        BY <1>16, <1>17, <1>21, <2>1
    <2>5. \A u \in vehicles[best] : ~ new[u].rejected /\ ~ (new[u].score < Floor)
        BY <1>23 DEF Conflicting
    <2>6. ASSUME NEW v \in 1 .. m, NEW u \in vehicles'[v], NEW t \in vehicles'[v], u < t
          PROVE  ~ rows'[<<u, t>>].seen.rejected /\ rows'[<<u, t>>].seen.score >= Floor
        <3>1. CASE t = n + 1
            <4>1. v = best /\ u \in vehicles[best] /\ u \in earlier
                BY <1>2, <1>16, <1>17, <2>1, <2>6, <3>1
            <4>2. rows'[<<u, t>>] = [facts |-> facts[u], seen |-> new[u]]
                BY <1>8, <1>10, <3>1, <4>1
            <4>3. rows'[<<u, t>>].seen = new[u]
                BY <4>2
            <4>4. new[u].score \in Int /\ Floor \in Int
                BY <1>6, <1>11, <4>1, ScoresAreInts
            <4>5. ~ new[u].rejected /\ ~ (new[u].score < Floor)
                BY <2>5, <4>1
            <4>6. new[u].score >= Floor
                BY <4>4, <4>5
            <4> QED
                BY <4>3, <4>5, <4>6
        <3>2. CASE t # n + 1
            <4>1. u # n + 1
                BY <1>2, <1>16, <1>17, <2>1, <2>6, <3>2
            <4>2. u \in vehicles[v] /\ t \in vehicles[v]
                BY <2>1, <2>6, <3>2, <4>1
            <4> QED
                BY <1>20, <2>6, <4>2
        <3> QED
            BY <3>1, <3>2
    <2> QED
        BY <1>14, <2>1, <2>3, <2>4, <2>6 DEF MembersAgree
<1> QED
    BY <1>5, <1>22, <1>23, PlaceIsFair

(* Every step keeps it.                                                    *)
LEMMA IdentityStep ==
    ASSUME IdentityInv, [IdentityNext]_identityVars
    PROVE  IdentityInv'
<1>1. CASE PlaceTrack
    BY <1>1, PlaceKeeps
<1>2. CASE SkipTrack
    <2>1. PICK n \in Nat : n = Len(reads) /\ DOMAIN reads = 1 .. n
        BY DEF IdentityInv, IdentityTypes
    <2>2. UNCHANGED <<rows, vehicles, decisions>> /\ skipped' = skipped \cup {n + 1}
        BY <1>2, <2>1 DEF SkipTrack
    <2>3. /\ reads' \in Seq(Plates) /\ Taken' = n + 1
          /\ \A u \in 1 .. n : reads'[u] = reads[u]
        BY <1>2, <2>1 DEF SkipTrack, IdentityInv, IdentityTypes, Plates, Taken
    <2>4. skipped \subseteq 1 .. n
        BY <2>1 DEF IdentityInv, IdentityTypes, Taken
    <2>5. (1 .. Taken') \ skipped' = (1 .. n) \ skipped /\ skipped' \subseteq 1 .. Taken'
        <3>1. PICK S : S = skipped
            OBVIOUS
        <3>2. /\ 1 .. n + 1 = (1 .. n) \cup {n + 1} /\ n + 1 \notin 1 .. n
              /\ S \subseteq 1 .. n
            BY <2>4, <3>1
        <3>3. Taken' = n + 1 /\ skipped' = S \cup {n + 1}
            BY <2>2, <2>3, <3>1
        <3>4. /\ (1 .. n + 1) \ (S \cup {n + 1}) = (1 .. n) \ S
              /\ S \cup {n + 1} \subseteq 1 .. n + 1
            BY <3>2, Zenon
        <3> QED
            BY <3>1, <3>3, <3>4
    <2>6. IdentityTypes'
        <3>1. vehicles' \in Seq(SUBSET ((1 .. Taken') \ skipped'))
            BY <2>1, <2>2, <2>5 DEF IdentityInv, IdentityTypes, Taken
        <3>2. DOMAIN rows' \subseteq (1 .. Taken') \X (1 .. Taken')
            BY <2>1, <2>2, <2>3 DEF IdentityInv, IdentityTypes, Taken
        <3> QED
            BY <2>2, <2>3, <2>5, <3>1, <3>2 DEF IdentityInv, IdentityTypes
    <2>7. RowsAreOfPairs'
        <3>1. SUFFICES ASSUME NEW u \in (1 .. n) \ skipped, NEW t \in (1 .. n) \ skipped, u < t
                       PROVE  /\ <<u, t>> \in DOMAIN rows
                              /\ rows[<<u, t>>].seen
                                    = Row(rows[<<u, t>>].facts, Relation(reads'[u], reads'[t]))
            BY <2>2, <2>5 DEF RowsAreOfPairs
        <3> QED
            BY <2>1, <2>3, <3>1 DEF IdentityInv, RowsAreOfPairs, Taken
    <2>8. MembersAgree'
        BY <2>2 DEF IdentityInv, MembersAgree
    <2> QED
        BY <2>6, <2>7, <2>8 DEF IdentityInv
<1>3. CASE UNCHANGED identityVars
    BY <1>3 DEF identityVars, IdentityInv, IdentityTypes, RowsAreOfPairs, MembersAgree, Taken
<1> QED
    BY <1>1, <1>2, <1>3 DEF IdentityNext

(* The members of a vehicle were accepted pair by pair (_score_pair,       *)
(* _build_vehicles).                                                       *)
THEOREM IdentityInvariant == IdentitySpec => []IdentityInv
<1>1. IdentityInit => IdentityInv
    BY DEF IdentityInit, IdentityInv, IdentityTypes, RowsAreOfPairs, MembersAgree, Taken
<1>2. IdentityInv /\ [IdentityNext]_identityVars => IdentityInv'
    BY IdentityStep
<1> QED
    BY <1>1, <1>2, PTL DEF IdentitySpec

(* What the row of two members of a vehicle says.                          *)
LEMMA MembersWereAccepted ==
    ASSUME IdentityInv, NEW v \in DOMAIN vehicles,
           NEW u \in vehicles[v], NEW t \in vehicles[v], u < t
    PROVE  /\ ~ rows[<<u, t>>].seen.rejected /\ rows[<<u, t>>].seen.score >= Floor
           /\ rows[<<u, t>>].facts \in PairFacts
           /\ reads[u] \in Plates /\ reads[t] \in Plates
           /\ ~ Row(rows[<<u, t>>].facts, Relation(reads[u], reads[t])).rejected
<1>1. u \in (1 .. Taken) \ skipped /\ t \in (1 .. Taken) \ skipped
    BY DEF IdentityInv, IdentityTypes
<1>2. reads[u] \in Plates /\ reads[t] \in Plates
    BY <1>1 DEF IdentityInv, IdentityTypes, Taken
<1> QED
    BY <1>1, <1>2 DEF IdentityInv, IdentityTypes, RowsAreOfPairs, MembersAgree

(* Every two tracks of a vehicle were accepted and score at least the      *)
(* floor, no good plates of theirs contradict each other where a           *)
(* contradiction is vetoed, and no track is in two vehicles, in whatever   *)
(* order the tracks came (_build_vehicles).                                *)
THEOREM VehiclesAgreeTheorem == IdentitySpec => []VehiclesAgree
<1>1. IdentityInv => VehiclesAgree
    <2>1. SUFFICES ASSUME IdentityInv PROVE VehiclesAgree
        OBVIOUS
    <2>2. ASSUME NEW v \in DOMAIN vehicles, NEW u \in vehicles[v], NEW t \in vehicles[v], u < t
          PROVE  /\ ~rows[<<u, t>>].seen.rejected
                 /\ rows[<<u, t>>].seen.score >= Floor
                 /\ PlateAssistance /\ ContradictionVeto =>
                        Relation(reads[u], reads[t]) # "STRONG_NEGATIVE"
        BY <2>1, <2>2, MembersWereAccepted, AcceptedRows
    <2> QED
        BY <2>1, <2>2 DEF VehiclesAgree, IdentityInv, MembersAgree
<1> QED
    BY <1>1, IdentityInvariant, PTL

(* A vehicle never holds tracks of two cameras, of conflicting classes or  *)
(* in sight as two, and a pair that failed another gate only with the same *)
(* good plate (_apply_plate_to_pair, _plate_override_blocked).             *)
THEOREM PlatesOutweighTheorem == IdentitySpec => []PlatesOutweighOnlyGaps
<1>1. IdentityInv => PlatesOutweighOnlyGaps
    <2>1. SUFFICES ASSUME IdentityInv, NEW v \in DOMAIN vehicles,
                          NEW u \in vehicles[v], NEW t \in vehicles[v], u < t
                   PROVE  LET f == rows[<<u, t>>].facts
                          IN /\ f.fails \cap {"camera", "class"} = {}
                             /\ f.overlap # "distinct"
                             /\ f.fails # {} => /\ reads[u] = reads[t]
                                                /\ reads[u].quality = "HIGH"
        BY DEF PlatesOutweighOnlyGaps
    <2> QED
        BY <2>1, MembersWereAccepted, AcceptedRows
<1> QED
    BY <1>1, IdentityInvariant, PTL

-----------------------------------------------------------------------------
(* TrackReconciliation                                                     *)

Total == Len(ordered)
VehicleCount == Len(joins) - tallies.accepted

ReconTypes ==
    /\ ordered \in Seq(Tracklets)
    /\ \A m, n \in 1 .. Total : m < n => ordered[m].first <= ordered[n].first
    /\ joins \in Seq(Nat) /\ vehicleOf \in Seq(Nat)
    /\ Len(joins) = Len(vehicleOf) /\ Len(joins) <= Total
    /\ tallies \in [accepted : Nat, ambiguous : Nat, unmatched : Nat]

(* Every link was the best of its time, and leads to an earlier track.     *)
LinksAreBest ==
    \A n \in 1 .. Len(joins) : joins[n] # 0 =>
        /\ joins[n] \in Viable(n) /\ joins[n] < n
        /\ \A o \in Viable(n) \ {joins[n]} :
              ScoreAt(n, o) <= ScoreAt(n, joins[n]) - MinimumMargin

(* Vehicles are numbered one after another, and each track is counted.     *)
VehiclesAreNumbered ==
    /\ \A n \in 1 .. Len(joins) : vehicleOf[n] \in 1 .. VehicleCount
    /\ \A v \in 1 .. VehicleCount : \E n \in 1 .. Len(joins) : vehicleOf[n] = v
    /\ Len(joins) = tallies.accepted + tallies.ambiguous + tallies.unmatched

(* Where the links of each track lead back to, and that it is the vehicle. *)
LeadsBack(g) ==
    \A n \in 1 .. Len(joins) : g[n] = IF joins[n] = 0 THEN n ELSE g[joins[n]]
LinksMakeVehicles ==
    \E g \in [1 .. Len(joins) -> 1 .. Len(joins)] :
        /\ LeadsBack(g)
        /\ \A m, n \in 1 .. Len(joins) : vehicleOf[m] = vehicleOf[n] <=> g[m] = g[n]

ReconInv == ReconTypes /\ LinksAreBest /\ VehiclesAreNumbered /\ LinksMakeVehicles

-----------------------------------------------------------------------------
(* Scores                                                                  *)

(* The score of a match is a natural number.                               *)
LEMMA ScoreRange ==
    ASSUME NEW a \in Tracklets, NEW b \in Tracklets
    PROVE  MatchScore(a, b) \in Nat
<1> USE ReconciliationAssumption DEF ReconciliationAssumption
<1>1. ASSUME NEW t \in Tracklets PROVE Velocity(t) \in Int
    <2>1. /\ t.first \in Int /\ t.last \in Int /\ t.to \in Int /\ t.from \in Int
          /\ t.first <= t.last
        OBVIOUS
    <2>2. CASE t.last = t.first
        BY <2>2 DEF Velocity
    <2>3. CASE t.last # t.first
        <3>1. PICK d \in Nat : d = t.last - t.first /\ d > 0
            BY <2>1, <2>3
        <3>2. PICK s \in Int : s = t.to - t.from
            BY <2>1
        <3>3. s \div d \in Int
            BY <3>1, <3>2
        <3> QED
            BY <2>3, <3>1, <3>2, <3>3 DEF Velocity, Shift
    <2> QED
        BY <2>2, <2>3
<1>2. MotionScore(a, b) \in Nat
    <2>1. PICK s \in Nat : s = Magnitude(Velocity(a))
        BY <1>1 DEF Magnitude
    <2>2. PICK t \in Nat : t = Magnitude(Velocity(b))
        BY <1>1 DEF Magnitude
    <2>3. MotionScore(a, b) = IF s < 1 \/ t < 1 THEN 60
                              ELSE (100 * Smaller(s, t)) \div (s + t - Smaller(s, t))
        BY <2>1, <2>2 DEF MotionScore
    <2>4. PICK w \in Nat : w = Smaller(s, t) /\ (w = s \/ w = t)
        BY DEF Smaller
    <2>5. CASE s < 1 \/ t < 1
        BY <2>3, <2>5
    <2>6. CASE ~ (s < 1 \/ t < 1)
        <3>1. PICK d \in Nat : d = s + t - w /\ d > 0
            BY <2>4, <2>6
        <3>2. PICK x \in Nat : x = 100 * w
            BY <2>4
        <3>3. x \div d \in Nat
            BY <3>1, <3>2
        <3>4. MotionScore(a, b) = x \div d
            BY <2>3, <2>4, <2>6, <3>1, <3>2
        <3> QED
            BY <3>3, <3>4
    <2> QED
        BY <2>5, <2>6
<1>3. Nearness(Distance(a, b)) \in Nat
    BY NearnessAssumption DEF NearnessAssumption
<1>4. DirectionScore(a, b) \in Nat /\ ClassScore(a, b) \in Nat /\ ColourScore(a, b) \in Nat
    BY DEF DirectionScore, ClassScore, ColourScore
<1>5. ASSUME NEW w \in Nat, NEW x \in Nat PROVE w * x \in Nat
    BY <1>5
<1>6. PICK n \in Nat : n = WeightMotion * MotionScore(a, b) + WeightPosition * Nearness(Distance(a, b))
     + WeightDirection * DirectionScore(a, b) + WeightColour * ColourScore(a, b)
     + WeightClass * ClassScore(a, b)
    <2>1. /\ WeightMotion * MotionScore(a, b) \in Nat
          /\ WeightPosition * Nearness(Distance(a, b)) \in Nat
          /\ WeightDirection * DirectionScore(a, b) \in Nat
          /\ WeightColour * ColourScore(a, b) \in Nat
          /\ WeightClass * ClassScore(a, b) \in Nat
        BY <1>2, <1>3, <1>4, <1>5
    <2> QED
        BY <2>1
<1>7. MatchScore(a, b) = n \div 100
    BY <1>6 DEF MatchScore
<1>8. n \div 100 \in Nat
    OBVIOUS
<1> QED
    BY <1>7, <1>8

(* The greatest of some natural numbers.                                   *)
LEMMA MaxOfNats ==
    ASSUME NEW S \in SUBSET Nat, S # {}, IsFiniteSet(S)
    PROVE  Max(S) \in S /\ \A x \in S : x <= Max(S)
<1> DEFINE R == {p \in S \X S : p[1] > p[2]}
<1>1. \A x, y \in S : <<x, y>> \in R <=> x > y
    OBVIOUS
<1> HIDE DEF R
<1>2. /\ \A x \in S : <<x, x>> \notin R
      /\ \A x, y, z \in S : <<x, y>> \in R /\ <<y, z>> \in R => <<x, z>> \in R
    BY <1>1
<1>3. PICK m \in S : \A y \in S : <<y, m>> \notin R
    BY <1>2, MinimalElement, Zenon
<1>4. \A y \in S : m >= y
    <2>1. ASSUME NEW y \in S PROVE m >= y
        <3>1. ~ (y > m)
            BY <1>1, <1>3
        <3>2. y \in Nat /\ m \in Nat
            OBVIOUS
        <3> QED
            BY <3>1, <3>2
    <2> QED
        BY <2>1
<1>5. Max(S) \in S /\ \A y \in S : Max(S) >= y
    BY <1>4 DEF Max
<1> QED
    BY <1>5

(* The best of the viable tracks exists, and so does the second score.     *)
LEMMA BestIsBest ==
    ASSUME ReconTypes, NEW n \in 1 .. Total, Viable(n) # {}
    PROVE  /\ BestOf(n) \in Viable(n)
           /\ \A o \in Viable(n) \ {BestOf(n)} : ScoreAt(n, o) <= SecondScore(n)
           /\ SecondScore(n) \in Nat
           /\ \A o \in Viable(n) : ScoreAt(n, o) \in Nat
<1>1. PICK V : V = Viable(n)
    OBVIOUS
<1>2. PICK N \in Nat : N = Total
    BY DEF ReconTypes, Total
<1>3. V \subseteq 1 .. N
    BY <1>1, <1>2 DEF Viable, Earlier, ReconTypes, Total
<1>4. PICK s : s = [o \in 1 .. N |-> ScoreAt(n, o)]
    OBVIOUS
<1>5. \A o \in 1 .. N : s[o] \in Nat /\ ScoreAt(n, o) = s[o]
    <2>1. ASSUME NEW o \in 1 .. N PROVE ScoreAt(n, o) \in Nat
        <3>1. ordered[o] \in Tracklets /\ ordered[n] \in Tracklets
            BY <1>2 DEF ReconTypes, Total
        <3> QED
            BY <3>1, ScoreRange DEF ScoreAt
    <2> QED
        BY <1>4, <2>1
<1>6. IsFiniteSet(1 .. N)
    <2>1. 1 \in Int /\ N \in Int
        OBVIOUS
    <2> QED
        BY <2>1, FS_Interval
<1>7. IsFiniteSet(V)
    BY <1>3, <1>6, FS_Subset
<1>8. \E o \in V : \A p \in V : s[p] < s[o] \/ (s[p] = s[o] /\ o <= p)
    <2> DEFINE R == {q \in V \X V : s[q[1]] > s[q[2]] \/ (s[q[1]] = s[q[2]] /\ q[1] < q[2])}
    <2>1. \A x, y \in V : <<x, y>> \in R <=> s[x] > s[y] \/ (s[x] = s[y] /\ x < y)
        OBVIOUS
    <2> HIDE DEF R
    <2>2. \A x \in V : x \in Nat /\ s[x] \in Nat
        BY <1>3, <1>5
    <2>3. /\ \A x \in V : <<x, x>> \notin R
          /\ \A x, y, z \in V : <<x, y>> \in R /\ <<y, z>> \in R => <<x, z>> \in R
        BY <2>1, <2>2
    <2>4. V # {}
        BY <1>1
    <2>5. PICK o \in V : \A p \in V : <<p, o>> \notin R
        BY <1>7, <2>3, <2>4, MinimalElement, Zenon
    <2>6. ASSUME NEW p \in V PROVE s[p] < s[o] \/ (s[p] = s[o] /\ o <= p)
        <3>1. ~ (s[p] > s[o] \/ (s[p] = s[o] /\ p < o))
            BY <2>1, <2>5
        <3>2. p \in Nat /\ o \in Nat /\ s[p] \in Nat /\ s[o] \in Nat
            BY <2>2
        <3> QED
            BY <3>1, <3>2
    <2> QED
        BY <2>6
<1>9. \E o \in Viable(n) : \A p \in Viable(n) :
          \/ ScoreAt(n, p) < ScoreAt(n, o)
          \/ ScoreAt(n, p) = ScoreAt(n, o) /\ o <= p
    <2>1. PICK o \in V : \A p \in V : s[p] < s[o] \/ (s[p] = s[o] /\ o <= p)
        BY <1>8
    <2>2. \A p \in V : /\ ScoreAt(n, p) = s[p] /\ ScoreAt(n, o) = s[o]
        BY <1>3, <1>5
    <2>3. \A p \in V : \/ ScoreAt(n, p) < ScoreAt(n, o)
                       \/ ScoreAt(n, p) = ScoreAt(n, o) /\ o <= p
        BY <2>1, <2>2
    <2> QED
        BY <1>1, <2>3
<1>10. BestOf(n) \in Viable(n)
    BY <1>9 DEF BestOf
<1>11. PICK b \in V : b = BestOf(n)
    BY <1>1, <1>10
<1>12. PICK T : T = {s[p] : p \in V \ {b}}
    OBVIOUS
<1>13. T = {ScoreAt(n, p) : p \in Viable(n) \ {BestOf(n)}}
    BY <1>1, <1>3, <1>5, <1>11, <1>12
<1>14. T \subseteq Nat /\ IsFiniteSet(T)
    <2>1. IsFiniteSet(V \ {b})
        BY <1>7, FS_Subset
    <2>2. \A x \in V \ {b} : s[x] \in T
        BY <1>12
    <2>3. \A y \in T : \E x \in V \ {b} : s[x] = y
        BY <1>12
    <2>4. IsFiniteSet(T)
        BY <2>1, <2>2, <2>3, FewValues, Zenon
    <2> QED
        BY <1>3, <1>5, <1>12, <2>4
<1>15. PICK U : U = {0} \cup T
    OBVIOUS
<1>16. U \in SUBSET Nat /\ U # {} /\ IsFiniteSet(U)
    <2>1. IsFiniteSet(T \cup {0})
        BY <1>14, FS_AddElement
    <2>2. U = T \cup {0}
        BY <1>15
    <2> QED
        BY <1>14, <1>15, <2>1, <2>2
<1>17. SecondScore(n) = Max(U)
    BY <1>13, <1>15 DEF SecondScore
<1>18. Max(U) \in U /\ \A x \in U : x <= Max(U)
    BY <1>16, MaxOfNats
<1>19. \A o \in V \ {b} : s[o] \in U
    BY <1>12, <1>15
<1> QED
    BY <1>1, <1>3, <1>5, <1>10, <1>11, <1>16, <1>17, <1>18, <1>19

-----------------------------------------------------------------------------

(* A best track starts before the one it is the best for.                  *)
LEMMA BestIsEarlier ==
    ASSUME ReconTypes, NEW n \in 1 .. Total, NEW b \in Viable(n)
    PROVE  b \in 1 .. Total /\ b < n
<1>1. PICK N \in Nat : N = Total
    BY DEF ReconTypes, Total
<1>2. b \in 1 .. N /\ ordered[b].first < ordered[n].first
    BY <1>1 DEF Viable, Earlier, ReconTypes, Total
<1>3. ordered[b].first \in Int /\ ordered[n].first \in Int
    <2>1. ordered[b] \in Tracklets /\ ordered[n] \in Tracklets
        BY <1>1, <1>2 DEF ReconTypes, Total
    <2> QED
        BY <2>1, ReconciliationAssumption DEF ReconciliationAssumption
<1>4. n < b => ordered[n].first <= ordered[b].first
    BY <1>1, <1>2 DEF ReconTypes
<1>5. n # b
    BY <1>2, <1>3
<1> QED
    BY <1>1, <1>2, <1>3, <1>4, <1>5

(* What appending to the two sequences of decisions keeps.                 *)
LEMMA DecisionsAppend ==
    ASSUME ReconTypes, NEW j \in Nat, NEW v \in Nat,
           joins' = Append(joins, j), vehicleOf' = Append(vehicleOf, v),
           Now \in DOMAIN ordered, ordered' = ordered
    PROVE  \E L \in Nat :
              /\ L = Len(joins) /\ L + 1 = Now /\ Len(joins') = L + 1 /\ Len(vehicleOf') = L + 1
              /\ Len(vehicleOf) = L
              /\ joins' \in Seq(Nat) /\ vehicleOf' \in Seq(Nat)
              /\ joins'[L + 1] = j /\ vehicleOf'[L + 1] = v
              /\ \A n \in 1 .. L : /\ joins'[n] = joins[n] /\ vehicleOf'[n] = vehicleOf[n]
                                   /\ joins[n] \in Nat /\ vehicleOf[n] \in Nat
              /\ L + 1 \in 1 .. Total /\ Total' = Total
<1>1. PICK L \in Nat : L = Len(joins)
    BY DEF ReconTypes
<1>2. joins \in Seq(Nat) /\ vehicleOf \in Seq(Nat) /\ Len(vehicleOf) = L
    BY <1>1 DEF ReconTypes
<1>3. /\ Len(joins') = L + 1 /\ joins' \in Seq(Nat) /\ joins'[L + 1] = j
      /\ \A n \in 1 .. L : joins'[n] = joins[n] /\ joins[n] \in Nat
    BY <1>1, <1>2
<1>4. /\ Len(vehicleOf') = L + 1 /\ vehicleOf' \in Seq(Nat) /\ vehicleOf'[L + 1] = v
      /\ \A n \in 1 .. L : vehicleOf'[n] = vehicleOf[n] /\ vehicleOf[n] \in Nat
    <2>1. /\ Append(vehicleOf, v) \in Seq(Nat)
          /\ Len(Append(vehicleOf, v)) = L + 1
          /\ \A n \in 1 .. L : Append(vehicleOf, v)[n] = vehicleOf[n]
          /\ Append(vehicleOf, v)[L + 1] = v
        BY <1>2, AppendFacts
    <2>2. \A n \in 1 .. L : vehicleOf[n] \in Nat
        BY <1>2
    <2> QED
        BY <2>1, <2>2
<1>5. L + 1 \in 1 .. Total /\ L + 1 = Now /\ Total' = Total
    BY <1>1 DEF Now, ReconTypes, Total
<1> QED
    BY <1>1, <1>2, <1>3, <1>4, <1>5

(* A track that joins an earlier one keeps it.                             *)
LEMMA JoinKeeps ==
    ASSUME ReconInv, JoinVehicle
    PROVE  ReconInv'
<1> USE DEF ReconInv
<1>1. PICK b : b = BestOf(Now)
    OBVIOUS
<1>2. Now \in 1 .. Total /\ Viable(Now) # {} /\ ScoreAt(Now, b) - SecondScore(Now) >= MinimumMargin
    BY <1>1 DEF JoinVehicle, Clear, Confident, ReconTypes, Total
<1>3. /\ b \in Viable(Now)
      /\ \A o \in Viable(Now) \ {b} : ScoreAt(Now, o) <= SecondScore(Now)
      /\ SecondScore(Now) \in Nat
      /\ \A o \in Viable(Now) : ScoreAt(Now, o) \in Nat
    BY <1>1, <1>2, BestIsBest
<1>4. MinimumMargin \in Nat
    BY ReconciliationAssumption DEF ReconciliationAssumption
<1>5. \A o \in Viable(Now) \ {b} : ScoreAt(Now, o) <= ScoreAt(Now, b) - MinimumMargin
    BY <1>2, <1>3, <1>4
<1>6. b < Now /\ b \in 1 .. Total
    BY <1>2, <1>3, BestIsEarlier
<1>7. b \in Nat /\ b # 0 /\ b \in 1 .. Len(joins)
    BY <1>6 DEF Now, ReconTypes
<1>8. vehicleOf[b] \in Nat
    BY <1>7 DEF ReconTypes
<1>9. /\ joins' = Append(joins, b) /\ vehicleOf' = Append(vehicleOf, vehicleOf[b])
      /\ Now \in DOMAIN ordered /\ ordered' = ordered
    BY <1>1 DEF JoinVehicle
<1>10. PICK L \in Nat :
          /\ L = Len(joins) /\ L + 1 = Now /\ Len(joins') = L + 1 /\ Len(vehicleOf') = L + 1
          /\ Len(vehicleOf) = L
          /\ joins' \in Seq(Nat) /\ vehicleOf' \in Seq(Nat)
          /\ joins'[L + 1] = b /\ vehicleOf'[L + 1] = vehicleOf[b]
          /\ \A n \in 1 .. L : /\ joins'[n] = joins[n] /\ vehicleOf'[n] = vehicleOf[n]
                               /\ joins[n] \in Nat /\ vehicleOf[n] \in Nat
          /\ L + 1 \in 1 .. Total /\ Total' = Total
    BY <1>7, <1>8, <1>9, DecisionsAppend
<1>10a. \A n \in 1 .. L : /\ joins'[n] = joins[n] /\ vehicleOf'[n] = vehicleOf[n]
                           /\ joins[n] \in Nat /\ vehicleOf[n] \in Nat
    BY <1>10
<1>10b. joins'[L + 1] = b /\ vehicleOf'[L + 1] = vehicleOf[b]
    BY <1>10
<1>10c. L = Len(joins) /\ L + 1 = Now /\ Len(joins') = L + 1
    BY <1>10
<1>10d. \A n \in 1 .. L + 1 : n # L + 1 => n \in 1 .. L
    OBVIOUS
<1>10e. \A n \in 1 .. L : n \in 1 .. L + 1 /\ n # L + 1
    OBVIOUS
<1>10f. b \in 1 .. L
    BY <1>7, <1>10c
<1>11. /\ tallies' \in [accepted : Nat, ambiguous : Nat, unmatched : Nat]
       /\ tallies'.accepted = tallies.accepted + 1 /\ tallies'.ambiguous = tallies.ambiguous
       /\ tallies'.unmatched = tallies.unmatched
    BY DEF JoinVehicle, ReconTypes
<1>12. ReconTypes'
    BY <1>9, <1>10, <1>11 DEF ReconTypes, Total
<1>13. \A n : Viable(n)' = Viable(n) /\ \A o : ScoreAt(n, o)' = ScoreAt(n, o)
    BY <1>9 DEF Viable, Earlier, ScoreAt
<1>14. LinksAreBest'
    <2>1. SUFFICES ASSUME NEW n \in 1 .. L + 1, joins'[n] # 0
                   PROVE  /\ joins'[n] \in Viable(n) /\ joins'[n] < n
                          /\ \A o \in Viable(n) \ {joins'[n]} :
                                ScoreAt(n, o) <= ScoreAt(n, joins'[n]) - MinimumMargin
        BY <1>9, <1>10 DEF LinksAreBest, Viable, Earlier, ScoreAt
    <2>2. CASE n = L + 1
        BY <1>3, <1>5, <1>6, <1>10, <2>2
    <2>3. CASE n # L + 1
        <3>1. n \in 1 .. L
            BY <1>10d, <2>3
        <3> QED
            BY <1>10a, <1>10c, <2>1, <3>1 DEF LinksAreBest
    <2> QED
        BY <2>2, <2>3
<1>15. PICK K : K = VehicleCount
    OBVIOUS
<1>16. VehicleCount' = K
    <2>1. tallies.accepted \in Nat
        BY DEF ReconTypes
    <2> QED
        BY <1>10c, <1>11, <1>15, <2>1 DEF VehicleCount
<1>17. VehiclesAreNumbered'
    <2>1. \A n \in 1 .. L + 1 : vehicleOf'[n] \in 1 .. K
        <3>1. \A n \in 1 .. L : vehicleOf[n] \in 1 .. K
            BY <1>10c, <1>15 DEF VehiclesAreNumbered
        <3> QED
            BY <1>10a, <1>10b, <1>10d, <1>10f, <3>1
    <2>2. \A v \in 1 .. K : \E n \in 1 .. L + 1 : vehicleOf'[n] = v
        <3>1. SUFFICES ASSUME NEW v \in 1 .. K PROVE \E n \in 1 .. L + 1 : vehicleOf'[n] = v
            OBVIOUS
        <3>2. PICK n \in 1 .. L : vehicleOf[n] = v
            BY <1>10c, <1>15 DEF VehiclesAreNumbered
        <3>3. n \in 1 .. L + 1 /\ vehicleOf'[n] = v
            BY <1>10a, <1>10e, <3>2
        <3> QED
            BY <3>3
    <2>3. L + 1 = tallies'.accepted + tallies'.ambiguous + tallies'.unmatched
        BY <1>10c, <1>11 DEF VehiclesAreNumbered, ReconTypes
    <2> QED
        BY <1>10c, <1>16, <2>1, <2>2, <2>3 DEF VehiclesAreNumbered
<1>18. LinksMakeVehicles'
    <2>1. PICK g \in [1 .. Len(joins) -> 1 .. Len(joins)] :
              /\ LeadsBack(g)
              /\ \A m, n \in 1 .. Len(joins) : vehicleOf[m] = vehicleOf[n] <=> g[m] = g[n]
        BY DEF LinksMakeVehicles
    <2>2. /\ \A n \in 1 .. L : g[n] \in 1 .. L /\ g[n] = IF joins[n] = 0 THEN n ELSE g[joins[n]]
          /\ \A m, n \in 1 .. L : vehicleOf[m] = vehicleOf[n] <=> g[m] = g[n]
        BY <1>10c, <2>1 DEF LeadsBack
    <2>3. PICK h : h = [n \in 1 .. L + 1 |-> IF n = L + 1 THEN g[b] ELSE g[n]]
        OBVIOUS
    <2>4. h \in [1 .. L + 1 -> 1 .. L + 1] /\ h[L + 1] = g[b] /\ \A n \in 1 .. L : h[n] = g[n]
        <3>1. \A n \in 1 .. L : g[n] \in 1 .. L + 1
            BY <1>10e, <2>2
        <3>2. L + 1 \in 1 .. L + 1
            OBVIOUS
        <3> QED
            BY <1>10d, <1>10e, <1>10f, <2>3, <3>1, <3>2
    <2>5. \A n \in 1 .. L + 1 : h[n] = IF joins'[n] = 0 THEN n ELSE h[joins'[n]]
        <3>1. SUFFICES ASSUME NEW n \in 1 .. L + 1
                       PROVE  h[n] = IF joins'[n] = 0 THEN n ELSE h[joins'[n]]
            OBVIOUS
        <3>2. CASE n = L + 1
            BY <1>7, <1>10b, <1>10f, <2>4, <3>2
        <3>3. CASE n # L + 1
            <4>1. n \in 1 .. L /\ joins'[n] = joins[n]
                BY <1>10a, <1>10d, <3>3
            <4>2. g[n] = IF joins[n] = 0 THEN n ELSE g[joins[n]]
                BY <2>2, <4>1
            <4>3. joins[n] # 0 => joins[n] \in 1 .. L
                <5>1. joins[n] \in Nat /\ (joins[n] # 0 => joins[n] < n)
                    BY <1>10a, <1>10c, <4>1 DEF LinksAreBest
                <5> QED
                    BY <4>1, <5>1
            <4> QED
                BY <2>4, <4>1, <4>2, <4>3
        <3> QED
            BY <3>2, <3>3
    <2>6. \A m, n \in 1 .. L + 1 : vehicleOf'[m] = vehicleOf'[n] <=> h[m] = h[n]
        <3>1. \A n \in 1 .. L : (vehicleOf'[n] = vehicleOf'[L + 1]) <=> (h[n] = h[L + 1])
            BY <1>10a, <1>10b, <1>10f, <2>2, <2>4
        <3>2. \A m, n \in 1 .. L : vehicleOf'[m] = vehicleOf'[n] <=> h[m] = h[n]
            BY <1>10a, <2>2, <2>4
        <3> QED
            BY <1>10d, <3>1, <3>2
    <2>7. h \in [1 .. Len(joins') -> 1 .. Len(joins')]
        BY <1>10c, <2>4
    <2>8. /\ \A n \in 1 .. Len(joins') : h[n] = IF joins'[n] = 0 THEN n ELSE h[joins'[n]]
          /\ \A m, n \in 1 .. Len(joins') : vehicleOf'[m] = vehicleOf'[n] <=> h[m] = h[n]
        BY <1>10c, <2>5, <2>6
    <2> QED
        BY <2>7, <2>8 DEF LinksMakeVehicles, LeadsBack
<1> QED
    BY <1>12, <1>14, <1>17, <1>18

(* A track that becomes a vehicle of its own keeps it.                     *)
LEMMA NewVehicleKeeps ==
    ASSUME ReconInv, NewVehicle
    PROVE  ReconInv'
<1> USE DEF ReconInv
<1>1. PICK K \in Nat : K = VehicleCount /\ Max({0} \cup Range(vehicleOf)) = K
    <2>1. PICK L \in Nat : L = Len(joins) /\ L = Len(vehicleOf)
        BY DEF ReconTypes
    <2>2. L = tallies.accepted + tallies.ambiguous + tallies.unmatched
          /\ tallies.accepted \in Nat /\ tallies.ambiguous \in Nat /\ tallies.unmatched \in Nat
        BY <2>1 DEF VehiclesAreNumbered, ReconTypes
    <2>3. PICK k \in Nat : k = VehicleCount
        BY <2>1, <2>2 DEF VehicleCount
    <2>4. DOMAIN vehicleOf = 1 .. L
        BY <2>1 DEF ReconTypes
    <2>5. PICK R : R = Range(vehicleOf)
        OBVIOUS
    <2>6. R = 1 .. k
        <3>1. \A n \in 1 .. L : vehicleOf[n] \in 1 .. k
            BY <2>1, <2>3 DEF VehiclesAreNumbered
        <3>2. \A v \in 1 .. k : \E n \in 1 .. L : vehicleOf[n] = v
            BY <2>1, <2>3 DEF VehiclesAreNumbered
        <3>3. R = {vehicleOf[n] : n \in 1 .. L}
            BY <2>4, <2>5 DEF Range
        <3> QED
            BY <3>1, <3>2, <3>3
    <2>7. {0} \cup R = 0 .. k
        BY <2>6
    <2>8. Max(0 .. k) = k
        <3>1. k \in 0 .. k /\ \A x \in 0 .. k : k >= x
            OBVIOUS
        <3>2. \A x \in 0 .. k : (\A y \in 0 .. k : x >= y) => x = k
            OBVIOUS
        <3> QED
            BY <3>1, <3>2 DEF Max
    <2> QED
        BY <2>3, <2>5, <2>7, <2>8
<1>2. /\ joins' = Append(joins, 0) /\ vehicleOf' = Append(vehicleOf, K + 1)
      /\ Now \in DOMAIN ordered /\ ordered' = ordered
    <2>1. vehicleOf' = Append(vehicleOf, 1 + Max({0} \cup Range(vehicleOf)))
        BY DEF NewVehicle
    <2>2. 1 + Max({0} \cup Range(vehicleOf)) = K + 1
        BY <1>1
    <2>3. joins' = Append(joins, 0) /\ Now \in DOMAIN ordered /\ ordered' = ordered
        BY DEF NewVehicle
    <2> QED
        BY <2>1, <2>2, <2>3, Zenon
<1>3. PICK L \in Nat :
          /\ L = Len(joins) /\ L + 1 = Now /\ Len(joins') = L + 1 /\ Len(vehicleOf') = L + 1
          /\ Len(vehicleOf) = L
          /\ joins' \in Seq(Nat) /\ vehicleOf' \in Seq(Nat)
          /\ joins'[L + 1] = 0 /\ vehicleOf'[L + 1] = K + 1
          /\ \A n \in 1 .. L : /\ joins'[n] = joins[n] /\ vehicleOf'[n] = vehicleOf[n]
                               /\ joins[n] \in Nat /\ vehicleOf[n] \in Nat
          /\ L + 1 \in 1 .. Total /\ Total' = Total
    <2>1. PICK v \in Nat : v = K + 1
        OBVIOUS
    <2>2. PICK j \in Nat : j = 0
        OBVIOUS
    <2>3. vehicleOf' = Append(vehicleOf, v) /\ joins' = Append(joins, j)
        BY <1>2, <2>1, <2>2, Zenon
    <2>4. Now \in DOMAIN ordered /\ ordered' = ordered
        BY <1>2
    <2> HIDE DEF ReconInv
    <2>5. ReconTypes
        BY DEF ReconInv
    <2>6. \E L \in Nat :
          /\ L = Len(joins) /\ L + 1 = Now /\ Len(joins') = L + 1 /\ Len(vehicleOf') = L + 1
          /\ Len(vehicleOf) = L
          /\ joins' \in Seq(Nat) /\ vehicleOf' \in Seq(Nat)
          /\ joins'[L + 1] = j /\ vehicleOf'[L + 1] = v
          /\ \A n \in 1 .. L : /\ joins'[n] = joins[n] /\ vehicleOf'[n] = vehicleOf[n]
                               /\ joins[n] \in Nat /\ vehicleOf[n] \in Nat
          /\ L + 1 \in 1 .. Total /\ Total' = Total
        BY <2>3, <2>4, <2>5, DecisionsAppend, ZenonT(60)
    <2> QED
        BY <2>1, <2>2, <2>6, Zenon
<1>4. \A n \in 1 .. L : /\ joins'[n] = joins[n] /\ vehicleOf'[n] = vehicleOf[n]
                        /\ joins[n] \in Nat /\ vehicleOf[n] \in Nat
    BY <1>3
<1>5. joins'[L + 1] = 0 /\ vehicleOf'[L + 1] = K + 1
    BY <1>3
<1>6. L = Len(joins) /\ L + 1 = Now /\ Len(joins') = L + 1
    BY <1>3
<1>7. \A n \in 1 .. L + 1 : n # L + 1 => n \in 1 .. L
    OBVIOUS
<1>8. \A n \in 1 .. L : n \in 1 .. L + 1 /\ n # L + 1
    OBVIOUS
<1>9. /\ tallies' \in [accepted : Nat, ambiguous : Nat, unmatched : Nat]
      /\ tallies'.accepted = tallies.accepted
      /\ tallies'.ambiguous + tallies'.unmatched = tallies.ambiguous + tallies.unmatched + 1
    <2>1. /\ tallies.accepted \in Nat /\ tallies.ambiguous \in Nat /\ tallies.unmatched \in Nat
          /\ tallies \in [accepted : Nat, ambiguous : Nat, unmatched : Nat]
        BY DEF ReconTypes
    <2>2. CASE Confident(Now)
        <3>1. tallies' = [tallies EXCEPT !.ambiguous = @ + 1]
            BY <2>2 DEF NewVehicle
        <3> QED
            BY <2>1, <3>1
    <2>3. CASE ~ Confident(Now)
        <3>1. tallies' = [tallies EXCEPT !.unmatched = @ + 1]
            BY <2>3 DEF NewVehicle
        <3> QED
            BY <2>1, <3>1
    <2> QED
        BY <2>2, <2>3
<1>10. ReconTypes'
    BY <1>2, <1>3, <1>9 DEF ReconTypes, Total
<1>11. LinksAreBest'
    <2>1. SUFFICES ASSUME NEW n \in 1 .. L + 1, joins'[n] # 0
                   PROVE  /\ joins'[n] \in Viable(n) /\ joins'[n] < n
                          /\ \A o \in Viable(n) \ {joins'[n]} :
                                ScoreAt(n, o) <= ScoreAt(n, joins'[n]) - MinimumMargin
        BY <1>2, <1>3 DEF LinksAreBest, Viable, Earlier, ScoreAt
    <2>2. n \in 1 .. L
        BY <1>5, <1>7, <2>1
    <2> QED
        BY <1>4, <1>6, <2>1, <2>2 DEF LinksAreBest
<1>12. VehicleCount' = K + 1
    <2>1. tallies.accepted \in Nat
        BY DEF ReconTypes
    <2> QED
        BY <1>1, <1>6, <1>9, <2>1 DEF VehicleCount
<1>13. \A n \in 1 .. L : vehicleOf[n] \in 1 .. K
    BY <1>1, <1>6 DEF VehiclesAreNumbered
<1>14. VehiclesAreNumbered'
    <2>1. \A n \in 1 .. L + 1 : vehicleOf'[n] \in 1 .. K + 1
        <3>1. \A n \in 1 .. L : vehicleOf'[n] \in 1 .. K + 1
            BY <1>4, <1>13
        <3> QED
            BY <1>5, <1>7, <3>1
    <2>2. \A v \in 1 .. K + 1 : \E n \in 1 .. L + 1 : vehicleOf'[n] = v
        <3>1. SUFFICES ASSUME NEW v \in 1 .. K + 1 PROVE \E n \in 1 .. L + 1 : vehicleOf'[n] = v
            OBVIOUS
        <3>2. CASE v = K + 1
            BY <1>5, <3>2
        <3>3. CASE v # K + 1
            <4>1. v \in 1 .. K
                BY <3>3
            <4>2. PICK n \in 1 .. L : vehicleOf[n] = v
                BY <1>1, <1>6, <4>1 DEF VehiclesAreNumbered
            <4>3. n \in 1 .. L + 1 /\ vehicleOf'[n] = v
                BY <1>4, <1>8, <4>2
            <4> QED
                BY <4>3
        <3> QED
            BY <3>2, <3>3
    <2>3. L + 1 = tallies'.accepted + tallies'.ambiguous + tallies'.unmatched
        <3>1. L = tallies.accepted + tallies.ambiguous + tallies.unmatched
            BY <1>6 DEF VehiclesAreNumbered
        <3>2. /\ tallies.accepted \in Nat /\ tallies.ambiguous \in Nat /\ tallies.unmatched \in Nat
              /\ tallies'.ambiguous \in Nat /\ tallies'.unmatched \in Nat
            BY <1>9 DEF ReconTypes
        <3> QED
            BY <1>9, <3>1, <3>2
    <2> QED
        BY <1>6, <1>12, <2>1, <2>2, <2>3 DEF VehiclesAreNumbered
<1>15. LinksMakeVehicles'
    <2>1. PICK g \in [1 .. Len(joins) -> 1 .. Len(joins)] :
              /\ LeadsBack(g)
              /\ \A m, n \in 1 .. Len(joins) : vehicleOf[m] = vehicleOf[n] <=> g[m] = g[n]
        BY DEF LinksMakeVehicles
    <2>2. /\ \A n \in 1 .. L : g[n] \in 1 .. L /\ g[n] = IF joins[n] = 0 THEN n ELSE g[joins[n]]
          /\ \A m, n \in 1 .. L : vehicleOf[m] = vehicleOf[n] <=> g[m] = g[n]
        BY <1>6, <2>1 DEF LeadsBack
    <2>3. PICK h : h = [n \in 1 .. L + 1 |-> IF n = L + 1 THEN L + 1 ELSE g[n]]
        OBVIOUS
    <2>4. h \in [1 .. L + 1 -> 1 .. L + 1] /\ h[L + 1] = L + 1 /\ \A n \in 1 .. L : h[n] = g[n]
        <3>1. \A n \in 1 .. L : g[n] \in 1 .. L + 1
            BY <1>8, <2>2
        <3>2. L + 1 \in 1 .. L + 1
            OBVIOUS
        <3> QED
            BY <1>7, <1>8, <2>3, <3>1, <3>2
    <2>5. \A n \in 1 .. L + 1 : h[n] = IF joins'[n] = 0 THEN n ELSE h[joins'[n]]
        <3>1. SUFFICES ASSUME NEW n \in 1 .. L + 1
                       PROVE  h[n] = IF joins'[n] = 0 THEN n ELSE h[joins'[n]]
            OBVIOUS
        <3>2. CASE n = L + 1
            BY <1>5, <2>4, <3>2
        <3>3. CASE n # L + 1
            <4>1. n \in 1 .. L /\ joins'[n] = joins[n]
                BY <1>4, <1>7, <3>3
            <4>2. g[n] = IF joins[n] = 0 THEN n ELSE g[joins[n]]
                BY <2>2, <4>1
            <4>3. joins[n] # 0 => joins[n] \in 1 .. L
                <5>1. joins[n] \in Nat /\ (joins[n] # 0 => joins[n] < n)
                    BY <1>4, <1>6, <4>1 DEF LinksAreBest
                <5> QED
                    BY <4>1, <5>1
            <4> QED
                BY <2>4, <4>1, <4>2, <4>3
        <3> QED
            BY <3>2, <3>3
    <2>6. \A m, n \in 1 .. L + 1 : vehicleOf'[m] = vehicleOf'[n] <=> h[m] = h[n]
        <3>1. \A n \in 1 .. L : vehicleOf'[n] # vehicleOf'[L + 1] /\ h[n] # h[L + 1]
            <4>1. \A n \in 1 .. L : vehicleOf[n] # K + 1
                BY <1>13
            <4>2. \A n \in 1 .. L : g[n] # L + 1
                BY <1>8, <2>2
            <4> QED
                BY <1>4, <1>5, <2>4, <4>1, <4>2
        <3>2. \A m, n \in 1 .. L : vehicleOf'[m] = vehicleOf'[n] <=> h[m] = h[n]
            BY <1>4, <2>2, <2>4
        <3> QED
            BY <1>7, <3>1, <3>2
    <2>7. h \in [1 .. Len(joins') -> 1 .. Len(joins')]
        BY <1>6, <2>4
    <2>8. /\ \A n \in 1 .. Len(joins') : h[n] = IF joins'[n] = 0 THEN n ELSE h[joins'[n]]
          /\ \A m, n \in 1 .. Len(joins') : vehicleOf'[m] = vehicleOf'[n] <=> h[m] = h[n]
        BY <1>6, <2>5, <2>6
    <2> QED
        BY <2>7, <2>8 DEF LinksMakeVehicles, LeadsBack
<1> QED
    BY <1>10, <1>11, <1>14, <1>15

(* It holds when nothing has been decided.                                 *)
LEMMA ReconStart ==
    ASSUME ReconInit
    PROVE  ReconInv
<1>1. PICK S \in SUBSET Tracklets :
         /\ IsFiniteSet(S)
         /\ ordered \in SetToSeqs({t \in S : t.status = "COMPLETED"})
    BY DEF ReconInit
<1>2. PICK T : T = {t \in S : t.status = "COMPLETED"}
    OBVIOUS
<1>3. T \subseteq Tracklets /\ T \subseteq S
    BY <1>2
<1>4. Cardinality(T) \in Nat
    BY <1>1, <1>3, FS_Subset, FS_CardinalityType
<1>5. PICK c \in Nat : c = Cardinality(T)
    BY <1>4
<1>6. ordered \in [1 .. c -> T]
    <2>1. ordered \in SetToSeqs(T)
        BY <1>1, <1>2
    <2> QED
        BY <1>5, <2>1 DEF SetToSeqs
<1>7. ordered \in [1 .. c -> Tracklets]
    BY <1>3, <1>6
<1>8. ordered \in Seq(Tracklets) /\ Total = c /\ DOMAIN ordered = 1 .. c
    BY <1>7, IsASeq DEF Total
<1>9. ASSUME NEW m \in 1 .. Total, NEW n \in 1 .. Total, m < n
      PROVE  ordered[m].first <= ordered[n].first
    <2>1. Before(ordered[m], ordered[n])
        BY <1>8, <1>9 DEF ReconInit
    <2>2. ordered[m].first \in Int /\ ordered[n].first \in Int
        <3>1. ordered[m] \in Tracklets /\ ordered[n] \in Tracklets
            BY <1>7, <1>8
        <3> QED
            BY <3>1, ReconciliationAssumption DEF ReconciliationAssumption
    <2> QED
        BY <2>1, <2>2 DEF Before
<1>10. /\ joins = <<>> /\ vehicleOf = <<>>
       /\ tallies = [accepted |-> 0, ambiguous |-> 0, unmatched |-> 0]
    BY DEF ReconInit
<1>11. Len(joins) = 0
    BY <1>10
<1>12. ReconTypes
    BY <1>8, <1>9, <1>10 DEF ReconTypes, Total
<1>13. LinksAreBest /\ VehiclesAreNumbered
    BY <1>10, <1>11 DEF LinksAreBest, VehiclesAreNumbered, VehicleCount
<1>14. LinksMakeVehicles
    <2>1. PICK g : g = [n \in 1 .. 0 |-> n]
        OBVIOUS
    <2>2. g \in [1 .. 0 -> 1 .. 0]
        BY <2>1
    <2>3. g \in [1 .. Len(joins) -> 1 .. Len(joins)]
        BY <1>11, <2>2, Zenon
    <2>4. \A n \in 1 .. Len(joins) : FALSE
        BY <1>11
    <2> QED
        BY <2>3, <2>4, Zenon DEF LinksMakeVehicles, LeadsBack
<1> QED
    BY <1>12, <1>13, <1>14 DEF ReconInv

(* Every step keeps it.                                                    *)
LEMMA ReconStep ==
    ASSUME ReconInv, [ReconNext]_reconVars
    PROVE  ReconInv'
<1>1. CASE UNCHANGED reconVars
    <2>1. ordered' = ordered /\ vehicleOf' = vehicleOf /\ joins' = joins /\ tallies' = tallies
        BY <1>1 DEF reconVars
    <2>2. ReconTypes' /\ VehiclesAreNumbered'
        BY <2>1 DEF ReconInv, ReconTypes, VehiclesAreNumbered, Total, VehicleCount
    <2>3. LinksAreBest'
        BY <2>1 DEF ReconInv, LinksAreBest, Viable, Earlier, ScoreAt
    <2>4. LinksMakeVehicles'
        <3>1. PICK g \in [1 .. Len(joins) -> 1 .. Len(joins)] :
                  /\ LeadsBack(g)
                  /\ \A m, n \in 1 .. Len(joins) : vehicleOf[m] = vehicleOf[n] <=> g[m] = g[n]
            BY DEF ReconInv, LinksMakeVehicles
        <3>2. g \in [1 .. Len(joins') -> 1 .. Len(joins')]
            BY <2>1, Zenon
        <3>3. /\ \A n \in 1 .. Len(joins') : g[n] = IF joins'[n] = 0 THEN n ELSE g[joins'[n]]
              /\ \A m, n \in 1 .. Len(joins') : vehicleOf'[m] = vehicleOf'[n] <=> g[m] = g[n]
            BY <2>1, <3>1 DEF LeadsBack
        <3> QED
            BY <3>2, <3>3 DEF LinksMakeVehicles, LeadsBack
    <2> QED
        BY <2>2, <2>3, <2>4 DEF ReconInv
<1> QED
    BY <1>1, JoinKeeps, NewVehicleKeeps DEF ReconNext

(* The links lead to earlier tracks, each the best of its time, and the    *)
(* vehicles are numbered without a gap (reconcile_tracklets).              *)
THEOREM ReconInvariant == ReconSpec => []ReconInv
<1> QED
    BY ReconStart, ReconStep, PTL DEF ReconSpec

(* What the links lead back to is defined, and there is one such function. *)
LEMMA OneOrigin ==
    ASSUME ReconInv, NEW g, LeadsBack(g), NEW h, LeadsBack(h)
    PROVE  \A n \in 1 .. Len(joins) : g[n] = h[n]
<1>1. PICK L \in Nat : L = Len(joins)
    BY DEF ReconInv, ReconTypes
<1>2. PICK D : D = {n \in 1 .. L : g[n] # h[n]}
    OBVIOUS
<1>3. ASSUME D # {} PROVE FALSE
    <2>1. D \in SUBSET Nat
        BY <1>2
    <2>2. PICK m \in D : \A n \in D : m <= n
        BY <1>3, <2>1, LeastNat
    <2>3. m \in 1 .. L /\ g[m] # h[m]
        BY <1>2
    <2>4. /\ g[m] = IF joins[m] = 0 THEN m ELSE g[joins[m]]
          /\ h[m] = IF joins[m] = 0 THEN m ELSE h[joins[m]]
        BY <1>1, <2>3 DEF LeadsBack
    <2>5. joins[m] # 0 /\ g[joins[m]] # h[joins[m]]
        BY <2>3, <2>4
    <2>6. joins[m] \in Nat /\ joins[m] < m
        BY <1>1, <2>3, <2>5 DEF ReconInv, ReconTypes, LinksAreBest
    <2>7. joins[m] \in 1 .. L
        BY <2>3, <2>5, <2>6
    <2>8. joins[m] \in D
        BY <1>2, <2>5, <2>7
    <2>9. m <= joins[m]
        BY <2>2, <2>8
    <2> QED
        BY <2>3, <2>6, <2>9
<1> QED
    BY <1>1, <1>2, <1>3

(* A track joins only an earlier one of its camera that ended before it    *)
(* and is better by the margin than every other, the tracks of a vehicle   *)
(* are those whose links lead back to one, and the report adds up          *)
(* (reconcile_tracklets).                                                  *)
THEOREM LinksAreClearTheorem == ReconSpec => []LinksAreClear
<1>1. ASSUME ReconInv PROVE LinksAreClear
    <2> DEFINE Origin[n \in DOMAIN joins] == IF joins[n] = 0 THEN n ELSE Origin[joins[n]]
    <2>1. PICK L \in Nat : L = Len(joins) /\ DOMAIN joins = 1 .. L /\ DOMAIN vehicleOf = 1 .. L
        BY <1>1 DEF ReconInv, ReconTypes
    <2>2. PICK g \in [1 .. Len(joins) -> 1 .. Len(joins)] :
              /\ LeadsBack(g)
              /\ \A m, n \in 1 .. Len(joins) : vehicleOf[m] = vehicleOf[n] <=> g[m] = g[n]
        BY <1>1 DEF ReconInv, LinksMakeVehicles
    <2>3. g = [n \in DOMAIN joins |-> IF joins[n] = 0 THEN n ELSE g[joins[n]]]
        BY <2>1, <2>2 DEF LeadsBack
    <2>4. Origin = [n \in DOMAIN joins |-> IF joins[n] = 0 THEN n ELSE Origin[joins[n]]]
        BY <2>3
    <2> HIDE DEF Origin
    <2>5. LeadsBack(Origin)
        BY <2>1, <2>4 DEF LeadsBack
    <2>6. \A n \in 1 .. Len(joins) : Origin[n] = g[n]
        BY <1>1, <2>2, <2>5, OneOrigin
    <2>7. \A m, n \in DOMAIN joins : vehicleOf[m] = vehicleOf[n] <=> Origin[m] = Origin[n]
        BY <2>1, <2>2, <2>6
    <2>8. ASSUME NEW n \in DOMAIN joins, joins[n] # 0
          PROVE  LET old == ordered[joins[n]] new == ordered[n]
                 IN  /\ old.camera = new.camera /\ old.last < new.first
                     /\ old.class = new.class \/ "UNKNOWN" \in {old.class, new.class}
                     /\ \A o \in Earlier(n) \ {joins[n]} :
                          \/ Rejected(ordered[o], new)
                          \/ ScoreAt(n, o) <= ScoreAt(n, joins[n]) - MinimumMargin
        <3>1. /\ joins[n] \in Viable(n)
              /\ \A o \in Viable(n) \ {joins[n]} :
                    ScoreAt(n, o) <= ScoreAt(n, joins[n]) - MinimumMargin
            BY <1>1, <2>1, <2>8 DEF ReconInv, LinksAreBest
        <3>2. PICK old : old = ordered[joins[n]]
            OBVIOUS
        <3>3. PICK new : new = ordered[n]
            OBVIOUS
        <3>4. ~ Rejected(old, new)
            BY <3>1, <3>2, <3>3 DEF Viable
        <3>5. old \in Tracklets /\ new \in Tracklets
            <4>1. joins[n] \in DOMAIN ordered /\ n \in DOMAIN ordered
                BY <1>1, <2>1, <3>1 DEF ReconInv, ReconTypes, Viable, Earlier, Total
            <4> QED
                BY <1>1, <3>2, <3>3, <4>1 DEF ReconInv, ReconTypes
        <3>6. old.last \in Int /\ new.first \in Int
            BY <3>5, ReconciliationAssumption DEF ReconciliationAssumption
        <3>7. old.camera = new.camera /\ ~ (Gap(old, new) <= 0) /\ ~ ClassesConflict(old, new)
            BY <3>4 DEF Rejected
        <3>8. old.last < new.first
            BY <3>6, <3>7 DEF Gap
        <3>9. old.class = new.class \/ "UNKNOWN" \in {old.class, new.class}
            BY <3>7 DEF ClassesConflict
        <3>10. ASSUME NEW o \in Earlier(n) \ {joins[n]}
               PROVE  Rejected(ordered[o], new)
                      \/ ScoreAt(n, o) <= ScoreAt(n, joins[n]) - MinimumMargin
            <4>1. ~ Rejected(ordered[o], new) => o \in Viable(n)
                BY <3>3 DEF Viable
            <4> QED
                BY <3>1, <4>1
        <3> QED
            BY <3>2, <3>3, <3>7, <3>8, <3>9, <3>10, Zenon
    <2>9. Cardinality(Range(vehicleOf)) = Len(joins) - tallies.accepted
          /\ Len(joins) = tallies.accepted + tallies.ambiguous + tallies.unmatched
        <3>1. PICK k : k = VehicleCount
            OBVIOUS
        <3>2. /\ L = tallies.accepted + tallies.ambiguous + tallies.unmatched
              /\ tallies.accepted \in Nat /\ tallies.ambiguous \in Nat /\ tallies.unmatched \in Nat
            BY <1>1, <2>1 DEF ReconInv, VehiclesAreNumbered, ReconTypes
        <3>3. k \in Nat /\ k = L - tallies.accepted
            BY <2>1, <3>1, <3>2 DEF VehicleCount
        <3>4. Range(vehicleOf) = 1 .. k
            <4>1. \A n \in 1 .. L : vehicleOf[n] \in 1 .. k
                BY <1>1, <2>1, <3>1 DEF ReconInv, VehiclesAreNumbered
            <4>2. \A v \in 1 .. k : \E n \in 1 .. L : vehicleOf[n] = v
                BY <1>1, <2>1, <3>1 DEF ReconInv, VehiclesAreNumbered
            <4>3. Range(vehicleOf) = {vehicleOf[n] : n \in 1 .. L}
                BY <2>1 DEF Range
            <4> QED
                BY <4>1, <4>2, <4>3
        <3>5. Cardinality(1 .. k) = k
            <4>1. 1 \in Int /\ k \in Int /\ (1 > k => k = 0) /\ k - 1 + 1 = k
                BY <3>3
            <4> QED
                BY <4>1, FS_Interval
        <3> QED
            BY <2>1, <3>2, <3>3, <3>4, <3>5
    <2> QED
        BY <2>7, <2>8, <2>9, Zenon DEF LinksAreClear, Origin
<1> QED
    BY <1>1, ReconInvariant, PTL

-----------------------------------------------------------------------------
(* RunImport                                                               *)

NamesIn(tracks) == {NameOf(tracks, n) : n \in DOMAIN tracks}
ObservationRows(f) == {[name |-> TheRef(f.tracks, o), frame |-> o.frame] : o \in f.observations}

(* A grouping is of the completed tracks, and of all of them.              *)
GroupsCompleted(f) ==
    f.vehicles = <<>> \/
    /\ \A v \in DOMAIN f.vehicles : f.vehicles[v] \subseteq CompletedIds(f.tracks)
    /\ \A id \in CompletedIds(f.tracks) : \E v \in DOMAIN f.vehicles : id \in f.vehicles[v]

ImportShapes ==
    /\ runFiles = [tracks |-> runFiles.tracks, observations |-> runFiles.observations,
                   enrichment |-> runFiles.enrichment, vehicles |-> runFiles.vehicles,
                   outside |-> runFiles.outside]
    /\ stored = [tracks |-> stored.tracks, observations |-> stored.observations,
                 predictions |-> stored.predictions, members |-> stored.members,
                 outside |-> stored.outside]
    /\ last = [files |-> last.files, outcome |-> last.outcome]
    /\ runFiles.tracks \in Seq(TrackRows)
    /\ runFiles.observations \subseteq Observations

(* What is stored is of this run's tracks and observations.                *)
StoredIsOfRun ==
    /\ \A r \in stored.tracks : r.name \in NamesIn(runFiles.tracks)
    /\ \A r \in stored.observations : r \in ObservationRows(runFiles)

LastImportHolds ==
    last.outcome = "imported" =>
        last.files = runFiles /\ stored = Payload(runFiles) /\ ~ Errors(runFiles)

ImportInv == ImportShapes /\ GroupsCompleted(runFiles) /\ StoredIsOfRun /\ LastImportHolds

-----------------------------------------------------------------------------

(* There are finitely many completed tracks.                               *)
LEMMA CompletedAreFew ==
    ASSUME NEW tracks \in Seq(TrackRows)
    PROVE  IsFiniteSet(CompletedIds(tracks))
<1>1. PICK N \in Nat : N = Len(tracks) /\ DOMAIN tracks = 1 .. N
    OBVIOUS
<1>2. PICK D : D = {n \in 1 .. N : tracks[n].status = "COMPLETED"}
    OBVIOUS
<1>3. IsFiniteSet(D)
    <2>1. 1 \in Int /\ N \in Int
        OBVIOUS
    <2>2. IsFiniteSet(1 .. N)
        BY <2>1, FS_Interval
    <2> QED
        BY <1>2, <2>2, FS_Subset
<1>4. PICK T : T = CompletedIds(tracks)
    OBVIOUS
<1>5. T = {tracks[n].id : n \in D}
    BY <1>1, <1>2, <1>4 DEF CompletedIds, ToSet
<1>6. PICK g : g = [n \in D |-> tracks[n].id]
    OBVIOUS
<1>7. (\A n \in D : g[n] \in T) /\ \A y \in T : \E n \in D : g[n] = y
    BY <1>5, <1>6
<1>8. IsFiniteSet(T)
    BY <1>3, <1>7, FewValues, Zenon
<1> QED
    BY <1>4, <1>8

(* Both groupings put every completed track into a vehicle.                *)
LEMMA GroupingsAreFull ==
    ASSUME NEW S, IsFiniteSet(S), NEW groups, groups \in {<<S>>, SetToSeq({{id} : id \in S})}
    PROVE  /\ \A v \in DOMAIN groups : groups[v] \subseteq S
           /\ \A id \in S : \E v \in DOMAIN groups : id \in groups[v]
<1>1. CASE groups = <<S>>
    <2>1. DOMAIN groups = {1} /\ groups[1] = S
        BY <1>1
    <2> QED
        BY <2>1
<1>2. CASE groups = SetToSeq({{id} : id \in S})
    <2>1. PICK T : T = {{id} : id \in S}
        OBVIOUS
    <2>2. IsFiniteSet(T)
        <3>1. PICK g : g = [id \in S |-> {id}]
            OBVIOUS
        <3>2. (\A id \in S : g[id] \in T) /\ \A y \in T : \E id \in S : g[id] = y
            BY <2>1, <3>1
        <3> QED
            BY <3>2, FewValues, Zenon
    <2>3. PICK n \in Nat : n = Cardinality(T) /\ ExistsBijection(1 .. n, T)
        BY <2>2, FS_NatBijection, FS_CardinalityType
    <2>4. PICK b \in Bijection(1 .. n, T) : TRUE
        BY <2>3 DEF ExistsBijection
    <2>5. b \in [1 .. n -> T] /\ IsInjective(b)
        BY <2>4 DEF Bijection, Injection
    <2>6. SetToSeq(T) = CHOOSE f \in [1 .. n -> T] : IsInjective(f)
        BY <2>3 DEF SetToSeq
    <2>7. SetToSeq(T) \in [1 .. n -> T] /\ IsInjective(SetToSeq(T))
        BY <2>5, <2>6
    <2>8. PICK q : q = groups
        OBVIOUS
    <2>9. q \in [1 .. n -> T] /\ IsInjective(q)
        BY <1>2, <2>1, <2>7, <2>8
    <2>10. IsFiniteSet(1 .. n) /\ Cardinality(1 .. n) = n
        <3>1. 1 \in Int /\ n \in Int /\ (1 > n => n = 0) /\ n - 1 + 1 = n
            BY <2>3
        <3> QED
            BY <3>1, FS_Interval
    <2>11. \A t \in T : \E v \in 1 .. n : q[v] = t
        <3>1. PICK R : R = {q[v] : v \in 1 .. n}
            OBVIOUS
        <3>2. R \subseteq T
            BY <2>9, <3>1
        <3>3. q \in Bijection(1 .. n, R)
            BY <2>9, <3>1 DEF Bijection, Injection, Surjection
        <3>4. Cardinality(R) = n
            BY <2>10, <3>3, FS_Bijection DEF ExistsBijection
        <3>5. R = T
            BY <2>2, <2>3, <3>2, <3>4, FS_Subset
        <3> QED
            BY <3>1, <3>5
    <2>12. DOMAIN q = 1 .. n
        BY <2>9
    <2>13. \A v \in DOMAIN q : q[v] \subseteq S
        BY <2>1, <2>9, <2>12
    <2>14. \A id \in S : \E v \in DOMAIN q : id \in q[v]
        <3>1. ASSUME NEW id \in S PROVE \E v \in DOMAIN q : id \in q[v]
            <4>1. {id} \in T
                BY <2>1
            <4>2. PICK v \in 1 .. n : q[v] = {id}
                BY <2>11, <4>1
            <4> QED
                BY <2>12, <4>2
        <3> QED
            BY <3>1
    <2> QED
        BY <2>8, <2>13, <2>14
<1> QED
    BY <1>1, <1>2

(* Processing the run again keeps it.                                      *)
LEMMA RebuildKeeps ==
    ASSUME ImportInv, Rebuild
    PROVE  ImportInv'
<1> USE DEF ImportInv
<1>1. PICK enrichment, groups :
          /\ groups \in {<<CompletedIds(runFiles.tracks)>>,
                           SetToSeq({{id} : id \in CompletedIds(runFiles.tracks)})}
          /\ runFiles' = [runFiles EXCEPT !.enrichment = enrichment, !.vehicles = groups]
    BY DEF Rebuild
<1>2. runFiles' = [tracks |-> runFiles.tracks, observations |-> runFiles.observations,
                   enrichment |-> enrichment, vehicles |-> groups, outside |-> runFiles.outside]
    BY <1>1 DEF ImportShapes
<1>3. /\ runFiles'.tracks = runFiles.tracks /\ runFiles'.observations = runFiles.observations
      /\ runFiles'.vehicles = groups
    BY <1>2
<1>4. last' = [files |-> last.files, outcome |-> "none"] /\ stored' = stored
    BY DEF Rebuild, ImportShapes
<1>5. ImportShapes'
    BY <1>2, <1>3, <1>4 DEF ImportShapes
<1>6. GroupsCompleted(runFiles)'
    <2>1. IsFiniteSet(CompletedIds(runFiles.tracks))
        BY CompletedAreFew DEF ImportShapes
    <2>2. PICK S : S = CompletedIds(runFiles.tracks)
        OBVIOUS
    <2>3. /\ \A v \in DOMAIN groups : groups[v] \subseteq S
          /\ \A id \in S : \E v \in DOMAIN groups : id \in groups[v]
        BY <1>1, <2>1, <2>2, GroupingsAreFull
    <2> QED
        BY <1>3, <2>2, <2>3 DEF GroupsCompleted
<1>7. StoredIsOfRun'
    BY <1>3, <1>4 DEF StoredIsOfRun, NamesIn, ObservationRows
<1>8. LastImportHolds'
    BY <1>4 DEF LastImportHolds
<1> QED
    BY <1>5, <1>6, <1>7, <1>8

(* What the payload has of the files of a run.                             *)
LEMMA PayloadIsOfRun ==
    ASSUME NEW f, NEW new, new = Payload(f)
    PROVE  /\ new.observations = ObservationRows(f)
           /\ \A r \in new.tracks : r.name \in NamesIn(f.tracks)
           /\ \A name \in NamesIn(f.tracks) : \E r \in new.tracks : r.name = name
           /\ new = [tracks |-> new.tracks, observations |-> new.observations,
                     predictions |-> new.predictions, members |-> new.members,
                     outside |-> new.outside]
<1>1. PICK named : named = {[name |-> NameOf(f.tracks, n), status |-> f.tracks[n].status,
                  colour |-> ColourOf(f, NameOf(f.tracks, n))] : n \in DOMAIN f.tracks}
    OBVIOUS
<1>2. PICK obs : obs = ObservationRows(f)
    OBVIOUS
<1>3. PICK predictions, members, outside :
          new = [tracks |-> named, observations |-> obs, predictions |-> predictions,
                 members |-> members, outside |-> outside]
    BY <1>1, <1>2 DEF Payload, ObservationRows
<1>4. \A r \in named : r.name \in NamesIn(f.tracks)
    BY <1>1 DEF NamesIn
<1>5. ASSUME NEW name \in NamesIn(f.tracks) PROVE \E r \in named : r.name = name
    <2>1. PICK n \in DOMAIN f.tracks : name = NameOf(f.tracks, n)
        BY DEF NamesIn
    <2>2. PICK r : r = [name |-> NameOf(f.tracks, n), status |-> f.tracks[n].status,
                        colour |-> ColourOf(f, NameOf(f.tracks, n))]
        OBVIOUS
    <2>3. r \in named /\ r.name = name
        BY <1>1, <2>1, <2>2
    <2> QED
        BY <2>3
<1> QED
    BY <1>2, <1>3, <1>4, <1>5

(* An import keeps it, whatever was stored before.                         *)
LEMMA ImportKeeps ==
    ASSUME ImportInv, NEW replace \in BOOLEAN, Import(replace)
    PROVE  ImportInv'
<1> USE DEF ImportInv
<1>1. runFiles' = runFiles
    BY DEF Import
<1>2. CASE Errors(runFiles) \/ Collides(runFiles, replace)
    <2>1. last' = [files |-> runFiles, outcome |-> "refused"] /\ stored' = stored
        BY <1>2 DEF Import
    <2> QED
        BY <1>1, <2>1 DEF ImportShapes, StoredIsOfRun, LastImportHolds
<1>3. CASE ~ (Errors(runFiles) \/ Collides(runFiles, replace))
    <2>1. PICK new : new = Payload(runFiles)
        OBVIOUS
    <2>2. PICK old : old = Rebuilt(IF replace THEN NoRun ELSE stored)
        OBVIOUS
    <2>3. /\ stored' = [tracks |-> Upsert(old.tracks, new.tracks),
                        observations |-> old.observations \cup new.observations,
                        predictions |-> old.predictions \cup new.predictions,
                        members |-> Upsert(old.members, new.members),
                        outside |-> new.outside]
          /\ last' = [files |-> runFiles, outcome |-> "imported"]
        BY <1>3, <2>1, <2>2 DEF Import
    <2>4. /\ old.predictions = {} /\ old.members = {}
          /\ \A r \in old.tracks : r.name \in NamesIn(runFiles.tracks)
          /\ old.observations \subseteq ObservationRows(runFiles)
        <3>1. CASE replace
            BY <2>2, <3>1 DEF Rebuilt, NoRun
        <3>2. CASE ~ replace
            <4>1. old = [tracks |-> stored.tracks, observations |-> stored.observations,
                         predictions |-> {}, members |-> {}, outside |-> stored.outside]
                BY <2>2, <3>2 DEF Rebuilt, ImportShapes
            <4> QED
                BY <4>1 DEF StoredIsOfRun
        <3> QED
            BY <3>1, <3>2
    <2>5. /\ new.observations = ObservationRows(runFiles)
          /\ \A r \in new.tracks : r.name \in NamesIn(runFiles.tracks)
          /\ \A name \in NamesIn(runFiles.tracks) : \E r \in new.tracks : r.name = name
          /\ new = [tracks |-> new.tracks, observations |-> new.observations,
                    predictions |-> new.predictions, members |-> new.members,
                    outside |-> new.outside]
        BY <2>1, PayloadIsOfRun
    <2>6. Upsert(old.tracks, new.tracks) = new.tracks /\ Upsert(old.members, new.members) = new.members
        BY <2>4, <2>5 DEF Upsert
    <2>7. stored' = new
        BY <2>3, <2>4, <2>5, <2>6
    <2>8. StoredIsOfRun'
        BY <1>1, <2>5, <2>7 DEF StoredIsOfRun, NamesIn, ObservationRows
    <2>9. LastImportHolds'
        BY <1>1, <1>3, <2>1, <2>3, <2>7 DEF LastImportHolds
    <2>10. ImportShapes'
        BY <1>1, <2>3 DEF ImportShapes
    <2> QED
        BY <1>1, <2>8, <2>9, <2>10
<1> QED
    BY <1>2, <1>3

(* After an import the rows are the payload of the files that it read      *)
(* (insert_reference_run).                                                 *)
THEOREM ImportInvariant == ImportSpec => []ImportInv
<1>1. ImportInit => ImportInv
    <2>1. SUFFICES ASSUME ImportInit PROVE ImportInv
        OBVIOUS
    <2>2. PICK tracks \in UNION {[1..n -> TrackRows] : n \in 1..MaxRows},
               observations \in SUBSET Observations, outside \in 0..MaxOutside :
              runFiles = [tracks |-> tracks, observations |-> observations,
                          enrichment |-> <<>>, vehicles |-> <<>>, outside |-> outside]
        BY <2>1 DEF ImportInit
    <2>3. tracks \in Seq(TrackRows)
        <3>1. PICK n \in 1 .. MaxRows : tracks \in [1 .. n -> TrackRows]
            BY <2>2
        <3>2. n \in Nat
            BY <3>1, ImportAssumption DEF ImportAssumption
        <3> QED
            BY <3>1, <3>2, IsASeq
    <2>4. runFiles.tracks = tracks /\ runFiles.vehicles = <<>>
        BY <2>2
    <2>5. stored = NoRun /\ last = [files |-> <<>>, outcome |-> "none"]
        BY <2>1 DEF ImportInit
    <2>6. ImportShapes
        BY <2>2, <2>3, <2>5 DEF ImportShapes, NoRun
    <2>7. GroupsCompleted(runFiles) /\ LastImportHolds
        BY <2>4, <2>5 DEF GroupsCompleted, LastImportHolds
    <2>8. StoredIsOfRun
        BY <2>5 DEF StoredIsOfRun, NoRun
    <2> QED
        BY <2>6, <2>7, <2>8 DEF ImportInv
<1>2. ImportInv /\ [ImportNext]_importVars => ImportInv'
    <2>1. ASSUME ImportInv, UNCHANGED importVars PROVE ImportInv'
        <3>1. runFiles' = runFiles /\ stored' = stored /\ last' = last
            BY <2>1 DEF importVars
        <3> QED
            BY <2>1, <3>1 DEF ImportInv, ImportShapes, StoredIsOfRun, LastImportHolds
    <2> QED
        BY <2>1, RebuildKeeps, ImportKeeps DEF ImportNext
<1> QED
    BY <1>1, <1>2, PTL DEF ImportSpec

-----------------------------------------------------------------------------

(* No two tracks have one name in the database.                            *)
LEMMA NamesAreUnique ==
    ASSUME NEW tracks \in Seq(TrackRows), NEW m \in DOMAIN tracks, NEW n \in DOMAIN tracks,
           NameOf(tracks, m) = NameOf(tracks, n)
    PROVE  m = n
<1>1. PICK N \in Nat : DOMAIN tracks = 1 .. N
    OBVIOUS
<1>2. PICK id, k : NameOf(tracks, m) = <<id, k>> /\ NameOf(tracks, n) = <<id, k>>
    BY DEF NameOf
<1>3. /\ id = tracks[m].id
      /\ k = m \/ (k = 0 /\ (Occurrences(tracks, id) = {m} \/ Completed(tracks, id) = {m}))
    BY <1>2 DEF NameOf
<1>4. /\ id = tracks[n].id
      /\ k = n \/ (k = 0 /\ (Occurrences(tracks, id) = {n} \/ Completed(tracks, id) = {n}))
    BY <1>2 DEF NameOf
<1>5. m \in Occurrences(tracks, id) /\ n \in Occurrences(tracks, id)
    BY <1>3, <1>4 DEF Occurrences
<1>6. Completed(tracks, id) \subseteq Occurrences(tracks, id)
    BY DEF Completed
<1>7. m # 0 /\ n # 0
    BY <1>1
<1> QED
    BY <1>3, <1>4, <1>5, <1>6, <1>7

(* There are as many names as tracks.                                      *)
LEMMA NamesCount ==
    ASSUME NEW tracks \in Seq(TrackRows)
    PROVE  Cardinality(NamesIn(tracks)) = Len(tracks)
<1>1. PICK N \in Nat : N = Len(tracks) /\ DOMAIN tracks = 1 .. N
    OBVIOUS
<1>2. PICK T : T = NamesIn(tracks)
    OBVIOUS
<1>3. PICK b : b = [n \in 1 .. N |-> NameOf(tracks, n)]
    OBVIOUS
<1>4. b \in [1 .. N -> T] /\ \A t \in T : \E n \in 1 .. N : b[n] = t
    BY <1>1, <1>2, <1>3 DEF NamesIn
<1>5. \A m, n \in 1 .. N : b[m] = b[n] => m = n
    BY <1>1, <1>3, NamesAreUnique
<1>6. b \in Bijection(1 .. N, T)
    BY <1>4, <1>5 DEF Bijection, Injection, Surjection, IsInjective
<1>7. IsFiniteSet(1 .. N) /\ Cardinality(1 .. N) = N
    <2>1. 1 \in Int /\ N \in Int /\ (1 > N => N = 0) /\ N - 1 + 1 = N
        BY <1>1
    <2> QED
        BY <2>1, FS_Interval
<1>8. Cardinality(T) = N
    BY <1>6, <1>7, FS_Bijection DEF ExistsBijection
<1> QED
    BY <1>1, <1>2, <1>8

(* However often a run is imported, replaced or processed again in         *)
(* between, its rows are those of its files, and no two tracks share a row *)
(* (insert_reference_run, _upsert_table, _delete_rebuilt_children).        *)
THEOREM RowsFollowFilesTheorem == ImportSpec => []RowsFollowFiles
<1>1. ImportInv => RowsFollowFiles
    <2>1. SUFFICES ASSUME ImportInv, last.outcome = "imported"
                   PROVE  RowsFollowFiles
        BY DEF RowsFollowFiles
    <2>2. last.files = runFiles /\ stored = Payload(runFiles) /\ runFiles.tracks \in Seq(TrackRows)
        BY <2>1 DEF ImportInv, LastImportHolds, ImportShapes
    <2>3. /\ \A r \in stored.tracks : r.name \in NamesIn(runFiles.tracks)
          /\ \A name \in NamesIn(runFiles.tracks) : \E r \in stored.tracks : r.name = name
        BY <2>2, PayloadIsOfRun
    <2>4. {r.name : r \in stored.tracks} = NamesIn(runFiles.tracks)
        BY <2>3
    <2>5. Cardinality({r.name : r \in stored.tracks}) = Len(last.files.tracks)
        BY <2>2, <2>4, NamesCount
    <2> QED
        BY <2>2, <2>5 DEF RowsFollowFiles
<1> QED
    BY <1>1, ImportInvariant, PTL

-----------------------------------------------------------------------------

(* No two completed tracks have one id, or the import is refused.          *)
LEMMA OneCompleted ==
    ASSUME NEW f, f.tracks \in Seq(TrackRows), ~ Errors(f),
           NEW n \in DOMAIN f.tracks, f.tracks[n].status = "COMPLETED"
    PROVE  /\ Completed(f.tracks, f.tracks[n].id) = {n}
           /\ f.tracks[n].id \in CompletedIds(f.tracks)
<1>1. PICK id : id = f.tracks[n].id
    OBVIOUS
<1>2. id \in CompletedIds(f.tracks)
    BY <1>1 DEF CompletedIds, ToSet
<1>3. PICK S : S = Completed(f.tracks, id)
    OBVIOUS
<1>4. n \in S
    BY <1>1, <1>3 DEF Completed, Occurrences
<1>5. ~ (Cardinality(S) > 1)
    BY <1>2, <1>3 DEF Errors
<1>6. IsFiniteSet(S)
    <2>1. PICK N \in Nat : DOMAIN f.tracks = 1 .. N
        OBVIOUS
    <2>2. 1 \in Int /\ N \in Int
        BY <2>1
    <2>3. IsFiniteSet(1 .. N)
        BY <2>2, FS_Interval
    <2>4. S \subseteq 1 .. N
        BY <1>3, <2>1 DEF Completed, Occurrences
    <2> QED
        BY <2>3, <2>4, FS_Subset
<1>7. ASSUME NEW m \in S, m # n PROVE FALSE
    <2>2. IsFiniteSet({n}) /\ Cardinality({n}) = 1
        BY FS_Singleton
    <2>3. PICK T : T = {n}
        OBVIOUS
    <2>4. PICK U : U = T \cup {m}
        OBVIOUS
    <2>5. IsFiniteSet(T) /\ m \notin T /\ Cardinality(T) = 1
        BY <1>7, <2>2, <2>3
    <2>6. Cardinality(U) = IF m \in T THEN Cardinality(T) ELSE Cardinality(T) + 1
        BY <2>4, <2>5, FS_AddElement, Zenon
    <2>7. U \subseteq S
        BY <1>4, <2>3, <2>4
    <2>8. Cardinality(U) <= Cardinality(S)
        BY <1>6, <2>7, FS_Subset
    <2>9. Cardinality(S) \in Nat
        BY <1>6, FS_CardinalityType
    <2> QED
        BY <1>5, <2>5, <2>6, <2>8, <2>9
<1> QED
    BY <1>1, <1>2, <1>3, <1>4, <1>7

(* The only track of its id that the frame is in is the one meant.         *)
LEMMA TheOneInRange ==
    ASSUME NEW tracks \in Seq(TrackRows), NEW id, NEW frame \in Nat,
           NEW n \in Occurrences(tracks, id),
           tracks[n].first <= frame, frame <= tracks[n].last,
           \A m \in Occurrences(tracks, id) \ {n} :
               frame \notin tracks[m].first .. tracks[m].last
    PROVE  TracksMeant(tracks, id, frame) = {NameOf(tracks, n)}
<1>1. PICK candidates : candidates = Occurrences(tracks, id)
    OBVIOUS
<1>2. PICK inRange : inRange = {m \in candidates : tracks[m].first <= frame /\ frame <= tracks[m].last}
    OBVIOUS
<1>3. \A m \in candidates : tracks[m].first \in Nat /\ tracks[m].last \in Nat
    BY <1>1, ImportAssumption DEF Occurrences, ImportAssumption
<1>4. inRange = {n}
    BY <1>1, <1>2, <1>3
<1>5. Only(inRange) # {}
    <2>1. Cardinality({n}) = 1
        BY FS_Singleton
    <2> QED
        BY <1>4, <2>1 DEF Only
<1>6. PICK choice : choice = IF Only(candidates) # {} THEN candidates
                  ELSE IF Only(inRange) # {} THEN inRange
                  ELSE IF Only(Completed(tracks, id)) # {} THEN Completed(tracks, id)
                  ELSE {m \in candidates : \A k \in candidates : m <= k}
    OBVIOUS
<1>7. TracksMeant(tracks, id, frame) = {NameOf(tracks, m) : m \in choice}
    BY <1>1, <1>2, <1>6 DEF TracksMeant
<1>8. choice = {n}
    <2>1. CASE Only(candidates) # {}
        <3>1. Cardinality(candidates) = 1
            BY <2>1 DEF Only
        <3>2. PICK x : candidates = {x}
            <4>1. IsFiniteSet(candidates)
                <5>1. PICK N \in Nat : DOMAIN tracks = 1 .. N
                    OBVIOUS
                <5>2. 1 \in Int /\ N \in Int
                    BY <5>1
                <5>3. IsFiniteSet(1 .. N)
                    BY <5>2, FS_Interval
                <5>4. candidates \subseteq 1 .. N
                    BY <1>1, <5>1 DEF Occurrences
                <5> QED
                    BY <5>3, <5>4, FS_Subset
            <4> QED
                BY <3>1, <4>1, FS_Singleton
        <3>3. candidates = {n}
            BY <1>1, <3>2
        <3> QED
            BY <1>6, <2>1, <3>3
    <2>2. CASE ~ (Only(candidates) # {})
        BY <1>4, <1>5, <1>6, <2>2
    <2> QED
        BY <2>1, <2>2
<1> QED
    BY <1>7, <1>8

(* The members of vehicles are completed tracks.                           *)
LEMMA MembersAreCompleted ==
    ASSUME NEW f, f.tracks \in Seq(TrackRows), GroupsCompleted(f),
           NEW m \in Members(f)
    PROVE  \E n \in DOMAIN f.tracks :
               f.tracks[n].status = "COMPLETED" /\ m.name = NameOf(f.tracks, n)
<1>1. PICK n \in DOMAIN f.tracks :
          /\ m.name = NameOf(f.tracks, n) /\ m.name[2] = 0
          /\ \E v \in DOMAIN f.vehicles : m.name[1] \in f.vehicles[v]
    BY DEF Members
<1>2. PICK id : id = f.tracks[n].id
    OBVIOUS
<1>3. m.name = <<id, 0>> /\ (Occurrences(f.tracks, id) = {n} \/ Completed(f.tracks, id) = {n})
    <2>1. PICK N \in Nat : DOMAIN f.tracks = 1 .. N
        OBVIOUS
    <2>2. n # 0
        BY <2>1
    <2> QED
        BY <1>1, <1>2, <2>2 DEF NameOf
<1>4. id \in CompletedIds(f.tracks)
    <2>1. PICK v \in DOMAIN f.vehicles : id \in f.vehicles[v]
        BY <1>1, <1>3
    <2>2. f.vehicles # <<>>
        BY <2>1
    <2> QED
        BY <2>1, <2>2 DEF GroupsCompleted
<1>5. PICK k \in DOMAIN f.tracks : f.tracks[k].id = id /\ f.tracks[k].status = "COMPLETED"
    BY <1>4 DEF CompletedIds, ToSet
<1>6. k \in Completed(f.tracks, id) /\ Completed(f.tracks, id) \subseteq Occurrences(f.tracks, id)
    BY <1>5 DEF Completed, Occurrences
<1>7. k = n
    BY <1>3, <1>6
<1> QED
    BY <1>1, <1>5, <1>7

(* Every completed track is a member.                                      *)
LEMMA CompletedAreMembers ==
    ASSUME NEW f, f.tracks \in Seq(TrackRows), ~ Errors(f), GroupsCompleted(f),
           f.vehicles # <<>>,
           NEW n \in DOMAIN f.tracks, f.tracks[n].status = "COMPLETED"
    PROVE  \E m \in Members(f) : m.name = NameOf(f.tracks, n)
<1>1. PICK id : id = f.tracks[n].id
    OBVIOUS
<1>2. Completed(f.tracks, id) = {n} /\ id \in CompletedIds(f.tracks)
    BY <1>1, OneCompleted
<1>3. NameOf(f.tracks, n) = <<id, 0>>
    BY <1>1, <1>2 DEF NameOf
<1>4. PICK v \in DOMAIN f.vehicles : id \in f.vehicles[v]
    BY <1>2 DEF GroupsCompleted
<1>5. PICK name : name = NameOf(f.tracks, n)
    OBVIOUS
<1>6. name[1] = id /\ name[2] = 0 /\ name \in {NameOf(f.tracks, k) : k \in DOMAIN f.tracks}
    BY <1>3, <1>5
<1>7. PICK m : m = [name |-> name, vehicle |->
                       CHOOSE w \in {u \in DOMAIN f.vehicles : name[1] \in f.vehicles[u]} :
                          \A u \in {x \in DOMAIN f.vehicles : name[1] \in f.vehicles[x]} : u <= w]
    OBVIOUS
<1>8. v \in {u \in DOMAIN f.vehicles : name[1] \in f.vehicles[u]}
    BY <1>4, <1>6
<1>9. m \in Members(f) /\ m.name = name
    BY <1>6, <1>7, <1>8 DEF Members
<1> QED
    BY <1>5, <1>9

(* A vehicle's members are the completed tracks, all of them, and an       *)
(* observation in the range of one track of its id is stored with that     *)
(* one, although ids are used again (_resolve_track_ref).                  *)
THEOREM RecordsFindTheirTracksTheorem == ImportSpec => []RecordsFindTheirTracks
<1>1. ImportInv => RecordsFindTheirTracks
    <2>1. SUFFICES ASSUME ImportInv, last.outcome = "imported"
                   PROVE  RecordsFindTheirTracks
        BY DEF RecordsFindTheirTracks
    <2>2. PICK f : f = runFiles
        OBVIOUS
    <2>3. /\ last.files = f /\ stored = Payload(f) /\ f.tracks \in Seq(TrackRows)
          /\ f.observations \subseteq Observations /\ ~ Errors(f) /\ GroupsCompleted(f)
        BY <2>1, <2>2 DEF ImportInv, LastImportHolds, ImportShapes
    <2>4. PICK completed : completed = {r.name : r \in {q \in stored.tracks : q.status = "COMPLETED"}}
        OBVIOUS
    <2>5. completed = {NameOf(f.tracks, n) : n \in {k \in DOMAIN f.tracks : f.tracks[k].status = "COMPLETED"}}
        <3>1. PICK named : named = {[name |-> NameOf(f.tracks, n), status |-> f.tracks[n].status,
                  colour |-> ColourOf(f, NameOf(f.tracks, n))] : n \in DOMAIN f.tracks}
            OBVIOUS
        <3>2. stored.tracks = named
            BY <2>3, <3>1 DEF Payload
        <3>3. ASSUME NEW n \in DOMAIN f.tracks, f.tracks[n].status = "COMPLETED"
              PROVE  NameOf(f.tracks, n) \in completed
            <4>1. PICK r : r = [name |-> NameOf(f.tracks, n), status |-> f.tracks[n].status,
                                colour |-> ColourOf(f, NameOf(f.tracks, n))]
                OBVIOUS
            <4>2. r \in named
                BY <3>1, <4>1
            <4>3. r.name = NameOf(f.tracks, n) /\ r.status = "COMPLETED"
                BY <3>3, <4>1
            <4> QED
                BY <2>4, <3>2, <4>2, <4>3
        <3>4. ASSUME NEW name \in completed
              PROVE  \E n \in DOMAIN f.tracks : f.tracks[n].status = "COMPLETED" /\ name = NameOf(f.tracks, n)
            <4>1. PICK r \in named : r.status = "COMPLETED" /\ name = r.name
                BY <2>4, <3>2
            <4> QED
                BY <3>1, <4>1
        <3> QED
            BY <3>3, <3>4
    <2>6. stored.members = Members(f)
        BY <2>3 DEF Payload
    <2>7. {m.name : m \in stored.members} \subseteq completed
        BY <2>3, <2>5, <2>6, MembersAreCompleted
    <2>8. f.vehicles # <<>> => completed \subseteq {m.name : m \in stored.members}
        BY <2>3, <2>5, <2>6, CompletedAreMembers
    <2>9. ASSUME NEW o \in f.observations, NEW n \in Occurrences(f.tracks, o.id),
                 f.tracks[n].first <= o.frame, o.frame <= f.tracks[n].last,
                 \A m \in Occurrences(f.tracks, o.id) \ {n} :
                    o.frame \notin f.tracks[m].first .. f.tracks[m].last
          PROVE  [name |-> NameOf(f.tracks, n), frame |-> o.frame] \in stored.observations
        <3>1. o.frame \in Nat
            BY <2>3, ImportAssumption DEF ImportAssumption
        <3>2. TracksMeant(f.tracks, o.id, o.frame) = {NameOf(f.tracks, n)}
            BY <2>3, <2>9, <3>1, TheOneInRange
        <3>3. TheRef(f.tracks, o) = NameOf(f.tracks, n)
            BY <3>2 DEF TheRef
        <3>4. stored.observations = ObservationRows(f)
            BY <2>3, PayloadIsOfRun
        <3> QED
            BY <3>3, <3>4 DEF ObservationRows
    <2> QED
        BY <2>3, <2>4, <2>7, <2>8, <2>9 DEF RecordsFindTheirTracks
<1> QED
    BY <1>1, ImportInvariant, PTL

-----------------------------------------------------------------------------
(* RunRecords                                                              *)

(* A run that has rows is finished, and the finished runs are those of the *)
(* order of finishing, once each.                                          *)
RunsAreReal ==
    /\ folders \in Seq([stage : {"started", "finished"}, holds : Recordings, tried : BOOLEAN])
    /\ finishes \in Seq(DOMAIN folders)
    /\ imported \subseteq DOMAIN folders
    /\ \A r \in imported : (folders[r].stage = "finished")
    /\ \A r \in DOMAIN folders : (folders[r].stage = "finished") => \E i \in DOMAIN finishes : finishes[i] = r
    /\ \A i \in DOMAIN finishes : (folders[finishes[i]].stage = "finished")
    /\ \A i, j \in DOMAIN finishes : finishes[i] = finishes[j] => i = j

-----------------------------------------------------------------------------

(* A run that starts keeps it.                                             *)
LEMMA StartKeepsRuns ==
    ASSUME RunsAreReal, StartRun
    PROVE  RunsAreReal'
<1>1. PICK c \in Recordings :
          folders' = Append(folders, [stage |-> "started", holds |-> c, tried |-> FALSE])
    BY DEF StartRun
<1>2. PICK F : F = [stage : {"started", "finished"}, holds : Recordings, tried : BOOLEAN]
    OBVIOUS
<1>3. PICK e : e = [stage |-> "started", holds |-> c, tried |-> FALSE]
    OBVIOUS
<1>4. e \in F /\ e.stage = "started" /\ folders \in Seq(F) /\ folders' = Append(folders, e)
    BY <1>1, <1>2, <1>3 DEF RunsAreReal
<1>5. PICK N \in Nat : N = Len(folders) /\ DOMAIN folders = 1 .. N
    BY <1>4
<1>6. /\ folders' \in Seq(F) /\ DOMAIN folders' = 1 .. N + 1
      /\ \A r \in 1 .. N : folders'[r] = folders[r]
      /\ folders'[N + 1].stage = "started"
    BY <1>4, <1>5
<1>7. finishes' = finishes /\ imported' = imported
    BY DEF StartRun
<1>8. \A r \in 1 .. N : (folders'[r].stage = "finished") <=> (folders[r].stage = "finished")
    BY <1>6 DEF Finished
<1>9. ~ (folders'[N + 1].stage = "finished")
    BY <1>6 DEF Finished
<1>10. finishes \in Seq(1 .. N) /\ imported \subseteq 1 .. N
    BY <1>5 DEF RunsAreReal
<1>11. \A i \in DOMAIN finishes : finishes[i] \in 1 .. N
    BY <1>10
<1>12. finishes' \in Seq(DOMAIN folders')
    BY <1>6, <1>7, <1>10
<1>13. \A r \in DOMAIN folders' : (folders'[r].stage = "finished") => \E i \in DOMAIN finishes' : finishes'[i] = r
    BY <1>5, <1>6, <1>7, <1>8, <1>9 DEF RunsAreReal
<1>14. \A i \in DOMAIN finishes' : folders'[finishes'[i]].stage = "finished"
    <2>1. ASSUME NEW i \in DOMAIN finishes PROVE folders'[finishes[i]].stage = "finished"
        BY <1>8, <1>11 DEF RunsAreReal
    <2> QED
        BY <1>7, <2>1
<1>15. \A r \in imported' : (folders'[r].stage = "finished")
    BY <1>7, <1>8, <1>10 DEF RunsAreReal
<1> QED
    BY <1>2, <1>6, <1>7, <1>10, <1>12, <1>13, <1>14, <1>15 DEF RunsAreReal

(* A run that finishes keeps it.                                           *)
LEMMA FinishKeepsRuns ==
    ASSUME RunsAreReal, NEW r \in DOMAIN folders, FinishRun(r)
    PROVE  RunsAreReal'
<1>1. /\ ~ (folders[r].stage = "finished") /\ folders' = [folders EXCEPT ![r].stage = "finished"]
      /\ finishes' = Append(finishes, r) /\ imported' = imported
    BY DEF FinishRun, Finished
<1>2. PICK F : F = [stage : {"started", "finished"}, holds : Recordings, tried : BOOLEAN]
    OBVIOUS
<1>3. folders \in Seq(F)
    BY <1>2 DEF RunsAreReal
<1>4. PICK N \in Nat : N = Len(folders) /\ DOMAIN folders = 1 .. N
    BY <1>3
<1>5. PICK e : e = [folders[r] EXCEPT !.stage = "finished"]
    OBVIOUS
<1>6. e \in F /\ e.stage = "finished"
    <2>1. PICK f \in F : f = folders[r]
        BY <1>3
    <2>2. e = [f EXCEPT !.stage = "finished"]
        BY <1>5, <2>1
    <2> QED
        BY <1>2, <2>2
<1>7. folders' = [folders EXCEPT ![r] = e]
    BY <1>1, <1>5
<1>8. /\ folders' \in Seq(F) /\ DOMAIN folders' = 1 .. N
      /\ \A q \in 1 .. N : folders'[q] = IF q = r THEN e ELSE folders[q]
    BY <1>3, <1>4, <1>6, <1>7
<1>9. (folders'[r].stage = "finished") /\ \A q \in 1 .. N : q # r => ((folders'[q].stage = "finished") <=> (folders[q].stage = "finished"))
    BY <1>4, <1>6, <1>8 DEF Finished
<1>10. finishes \in Seq(1 .. N)
    BY <1>4 DEF RunsAreReal
<1>11. PICK M \in Nat : M = Len(finishes) /\ DOMAIN finishes = 1 .. M
    BY <1>10
<1>12. /\ finishes' \in Seq(1 .. N) /\ DOMAIN finishes' = 1 .. M + 1
       /\ \A i \in 1 .. M : finishes'[i] = finishes[i] /\ finishes[i] \in 1 .. N
       /\ finishes'[M + 1] = r
    BY <1>1, <1>4, <1>10, <1>11
<1>13. \A i \in 1 .. M : (folders[finishes[i]].stage = "finished") /\ finishes[i] # r
    BY <1>1, <1>11 DEF RunsAreReal
<1>14. \A i \in DOMAIN finishes' : folders'[finishes'[i]].stage = "finished"
    <2>1. ASSUME NEW i \in 1 .. M PROVE folders'[finishes'[i]].stage = "finished"
        <3>1. PICK q \in 1 .. N : q = finishes[i] /\ q = finishes'[i]
            BY <1>12, <2>1
        <3>2. (folders'[q].stage = "finished")
            BY <1>9, <1>13, <3>1
        <3> QED
            BY <3>1, <3>2
    <2>2. folders'[finishes'[M + 1]].stage = "finished"
        BY <1>9, <1>12
    <2> QED
        BY <1>12, <2>1, <2>2
<1>15. ASSUME NEW q \in DOMAIN folders', (folders'[q].stage = "finished")
       PROVE  \E i \in DOMAIN finishes' : finishes'[i] = q
    <2>1. CASE q = r
        BY <1>12, <2>1
    <2>2. CASE q # r
        <3>1. q \in DOMAIN folders /\ (folders[q].stage = "finished")
            BY <1>4, <1>8, <1>9, <1>15, <2>2
        <3>2. PICK i \in 1 .. M : finishes[i] = q
            BY <1>11, <3>1 DEF RunsAreReal
        <3> QED
            BY <1>12, <3>2
    <2> QED
        BY <2>1, <2>2
<1>16. \A i, j \in DOMAIN finishes' : finishes'[i] = finishes'[j] => i = j
    <2>1. \A i, j \in 1 .. M : finishes'[i] = finishes'[j] => i = j
        BY <1>11, <1>12 DEF RunsAreReal
    <2>2. \A i \in 1 .. M : finishes'[i] # finishes'[M + 1]
        BY <1>12, <1>13
    <2>3. DOMAIN finishes' = 1 .. M \cup {M + 1}
        BY <1>12
    <2> QED
        BY <2>1, <2>2, <2>3
<1>17. \A q \in imported' : (folders'[q].stage = "finished")
    BY <1>1, <1>4, <1>9 DEF RunsAreReal
<1>18. finishes' \in Seq(DOMAIN folders') /\ imported' \subseteq DOMAIN folders'
    BY <1>1, <1>4, <1>8, <1>12 DEF RunsAreReal
<1> QED
    BY <1>2, <1>8, <1>14, <1>15, <1>16, <1>17, <1>18 DEF RunsAreReal

(* An experiment that is kept beside a run keeps it.                       *)
LEMMA ExperimentKeepsRuns ==
    ASSUME RunsAreReal, NEW r \in DOMAIN folders, Experiment(r)
    PROVE  RunsAreReal'
<1>1. /\ folders' = [folders EXCEPT ![r].tried = TRUE]
      /\ finishes' = finishes /\ imported' = imported
    BY DEF Experiment
<1>2. PICK F : F = [stage : {"started", "finished"}, holds : Recordings, tried : BOOLEAN]
    OBVIOUS
<1>3. folders \in Seq(F)
    BY <1>2 DEF RunsAreReal
<1>4. PICK N \in Nat : N = Len(folders) /\ DOMAIN folders = 1 .. N
    BY <1>3
<1>5. PICK e : e = [folders[r] EXCEPT !.tried = TRUE]
    OBVIOUS
<1>6. e \in F /\ e.stage = folders[r].stage
    <2>1. PICK f \in F : f = folders[r]
        BY <1>3
    <2>2. e = [f EXCEPT !.tried = TRUE]
        BY <1>5, <2>1
    <2>3. e \in F /\ e.stage = f.stage
        BY <1>2, <2>2
    <2> QED
        BY <2>1, <2>3
<1>7. folders' = [folders EXCEPT ![r] = e]
    BY <1>1, <1>5
<1>8. /\ folders' \in Seq(F) /\ DOMAIN folders' = 1 .. N
      /\ \A q \in 1 .. N : folders'[q] = IF q = r THEN e ELSE folders[q]
    BY <1>3, <1>4, <1>6, <1>7
<1>9. \A q \in 1 .. N : (folders'[q].stage = "finished") <=> (folders[q].stage = "finished")
    BY <1>6, <1>8 DEF Finished
<1>10. \A i \in DOMAIN finishes : finishes[i] \in 1 .. N
    BY <1>4 DEF RunsAreReal
<1>11. \A i \in DOMAIN finishes' : folders'[finishes'[i]].stage = "finished"
    <2>1. ASSUME NEW i \in DOMAIN finishes PROVE folders'[finishes[i]].stage = "finished"
        BY <1>9, <1>10 DEF RunsAreReal
    <2> QED
        BY <1>1, <2>1
<1>12. \A q \in DOMAIN folders' : (folders'[q].stage = "finished") => \E i \in DOMAIN finishes' : finishes'[i] = q
    BY <1>1, <1>4, <1>8, <1>9 DEF RunsAreReal
<1>13. \A q \in imported' : (folders'[q].stage = "finished")
    BY <1>1, <1>4, <1>9 DEF RunsAreReal
<1> QED
    BY <1>1, <1>2, <1>4, <1>8, <1>11, <1>12, <1>13 DEF RunsAreReal

(* The runs that have rows are finished, and in the order of finishing     *)
(* once each (import_completed_run, latest_run_id).                        *)
THEOREM RunsInvariant == RecordsSpec => []RunsAreReal
<1>1. RecordsInit => RunsAreReal
    BY DEF RecordsInit, RunsAreReal
<1>2. RunsAreReal /\ [RecordsNext]_recordVars => RunsAreReal'
    <2>1. ASSUME RunsAreReal, folders' = folders, finishes' = finishes, imported' = imported
          PROVE  RunsAreReal'
        BY <2>1 DEF RunsAreReal, Finished
    <2>2. ASSUME RunsAreReal, NEW r \in DOMAIN folders, ImportRows(r) PROVE RunsAreReal'
        <3>1. /\ folders' = folders /\ finishes' = finishes /\ imported' = imported \cup {r}
              /\ (folders[r].stage = "finished")
            BY <2>2 DEF ImportRows, Finished
        <3> QED
            BY <2>2, <3>1 DEF RunsAreReal, Finished
    <2>3. ASSUME RunsAreReal, RecordsNext PROVE RunsAreReal'
        <3>1. CASE StartRun
            BY <2>3, <3>1, StartKeepsRuns
        <3>2. CASE ShowTrack
            BY <2>1, <2>3, <3>2 DEF ShowTrack
        <3>3. CASE \E r \in DOMAIN folders : FinishRun(r) \/ ImportRows(r) \/ Experiment(r)
            BY <2>2, <2>3, <3>3, FinishKeepsRuns, ExperimentKeepsRuns
        <3>4. CASE \E q \in RecordQuestions : Ask(q)
            BY <2>1, <2>3, <3>4 DEF Ask
        <3>5. CASE \E path \in RecordPaths : ShowMedia(path)
            BY <2>1, <2>3, <3>5 DEF ShowMedia
        <3>6. CASE \E case \in PlateCases : ShowPlate(case)
            BY <2>1, <2>3, <3>6 DEF ShowPlate
        <3> QED
            BY <2>3, <3>1, <3>2, <3>3, <3>4, <3>5, <3>6 DEF RecordsNext
    <2>4. ASSUME RunsAreReal, UNCHANGED recordVars PROVE RunsAreReal'
        BY <2>1, <2>4 DEF recordVars
    <2> QED
        BY <2>3, <2>4
<1> QED
    BY <1>1, <1>2, PTL DEF RecordsSpec

-----------------------------------------------------------------------------

(* A run with rows has one place in the order of finishing.                *)
LEMMA PlaceIsUnique ==
    ASSUME RunsAreReal, NEW r \in imported
    PROVE  PlaceOf(r) \in DOMAIN finishes /\ finishes[PlaceOf(r)] = r
<1>1. \E i \in DOMAIN finishes : finishes[i] = r
    BY DEF RunsAreReal, Finished
<1> QED
    BY <1>1 DEF PlaceOf

(* No question but one about all runs is about more than one.              *)
LEMMA OneRunAsked ==
    ASSUME RunsAreReal, NEW run, run # All
    PROVE  /\ FilesAsked(run) \subseteq DOMAIN folders /\ RowsAsked(run) \subseteq DOMAIN folders
           /\ \A q, r \in FilesAsked(run) : q = r
           /\ \A q, r \in RowsAsked(run) : q = r
<1>1. PICK N \in Nat : DOMAIN folders = 1 .. N
    BY DEF RunsAreReal
<1>2. imported \subseteq DOMAIN folders
    BY DEF RunsAreReal
<1>3. /\ FilesAsked(run) = IF run = Latest THEN Newest(DOMAIN folders) ELSE {run} \cap DOMAIN folders
      /\ RowsAsked(run) = IF run = Latest THEN LastFinished(imported) ELSE {run} \cap imported
    BY DEF FilesAsked, RowsAsked
<1>4. /\ Newest(DOMAIN folders) \subseteq DOMAIN folders
      /\ \A q, r \in Newest(DOMAIN folders) : q = r
    BY <1>1 DEF Newest
<1>5. /\ LastFinished(imported) \subseteq imported
      /\ \A q, r \in LastFinished(imported) : q = r
    <2>1. LastFinished(imported) \subseteq imported
        BY DEF LastFinished
    <2>2. ASSUME NEW q \in LastFinished(imported), NEW r \in LastFinished(imported) PROVE q = r
        <3>1. q \in imported /\ r \in imported
            BY <2>1
        <3>2. /\ PlaceOf(q) \in DOMAIN finishes /\ finishes[PlaceOf(q)] = q
              /\ PlaceOf(r) \in DOMAIN finishes /\ finishes[PlaceOf(r)] = r
            BY <3>1, PlaceIsUnique
        <3>3. DOMAIN finishes \subseteq Nat
            BY DEF RunsAreReal
        <3>4. PlaceOf(q) <= PlaceOf(r) /\ PlaceOf(r) <= PlaceOf(q)
            BY <3>1 DEF LastFinished
        <3>5. PlaceOf(q) = PlaceOf(r)
            BY <3>2, <3>3, <3>4
        <3> QED
            BY <3>2, <3>5
    <2> QED
        BY <2>1, <2>2
<1> QED
    BY <1>2, <1>3, <1>4, <1>5

(* A question about a settled run is asked of that run in both.            *)
LEMMA SettledRun ==
    ASSUME RunsAreReal, NEW run, Settled(run)
    PROVE  /\ run # All
           /\ \E r \in imported : FilesAsked(run) = {r} /\ RowsAsked(run) = {r}
<1>1. PICK N \in Nat : N = Len(folders) /\ DOMAIN folders = 1 .. N
    BY DEF RunsAreReal
<1>2. imported \subseteq 1 .. N
    BY <1>1 DEF RunsAreReal
<1>3. run # All
    <2>1. Latest # 0
        BY RecordsAssumption DEF Latest, RecordsAssumption
    <2>2. 0 \notin imported
        BY <1>2
    <2> QED
        BY <2>1, <2>2 DEF Settled, All
<1>4. CASE run # Latest
    <2>1. run \in imported /\ run \in DOMAIN folders
        BY <1>1, <1>2, <1>4 DEF Settled
    <2>2. FilesAsked(run) = {run} \cap DOMAIN folders /\ RowsAsked(run) = {run} \cap imported
        BY <1>3, <1>4 DEF FilesAsked, RowsAsked
    <2> QED
        BY <1>3, <2>1, <2>2
<1>5. CASE run = Latest
    <2>1. finishes # <<>> /\ Last(finishes) = N /\ N \in imported
        BY <1>1, <1>5 DEF Settled
    <2>2. PICK M \in Nat : M = Len(finishes) /\ DOMAIN finishes = 1 .. M
        BY DEF RunsAreReal
    <2>3. M \in DOMAIN finishes /\ finishes[M] = N
        <3>1. M # 0
            BY <2>1, <2>2 DEF RunsAreReal
        <3> QED
            BY <2>1, <2>2, <3>1 DEF Last
    <2>4. PlaceOf(N) = M
        BY <2>1, <2>3, PlaceIsUnique DEF RunsAreReal
    <2>5. \A q \in imported : PlaceOf(q) <= PlaceOf(N)
        BY <2>2, <2>4, PlaceIsUnique
    <2>6. N \in LastFinished(imported)
        BY <2>1, <2>5 DEF LastFinished
    <2>7. N \in Newest(DOMAIN folders)
        BY <1>1, <1>2, <2>1 DEF Newest
    <2>8. N \in FilesAsked(run) /\ N \in RowsAsked(run)
        BY <1>3, <1>5, <2>6, <2>7 DEF FilesAsked, RowsAsked
    <2>9. FilesAsked(run) = {N} /\ RowsAsked(run) = {N}
        <3>1. /\ \A q, r \in FilesAsked(run) : q = r
              /\ \A q, r \in RowsAsked(run) : q = r
            BY <1>3, OneRunAsked
        <3> QED
            BY <2>8, <3>1
    <2> QED
        BY <1>3, <2>1, <2>9
<1> QED
    BY <1>4, <1>5

-----------------------------------------------------------------------------

(* The fields that both repositories read of a track.                      *)
LEMMA TrackFields ==
    ASSUME NEW t
    PROVE  /\ FileTrack(t).id = t.id /\ RowTrack(t).id = t.id
           /\ FileTrack(t).status = t.status /\ RowTrack(t).status = t.status
           /\ FileTrack(t).colour = t.colour /\ RowTrack(t).colour = t.colour
           /\ FileTrack(t).first = t.first /\ RowTrack(t).first = t.first
           /\ FileTrack(t).last = t.last /\ RowTrack(t).last = t.last
           /\ FileTrack(t).class = IF t.enriched THEN Coalesced(t.class) ELSE t.class
           /\ RowTrack(t).class = Coalesced(t.class)
BY DEF FileTrack, RowTrack

(* The tracks that the files hold, and when they are listed.               *)
LEMMA FileTracksAre ==
    ASSUME NEW q
    PROVE  /\ \A x \in FileTracks(q) : \E r \in FilesAsked(q.run) : \E t \in TracksIn(r) :
                  /\ x = [run |-> r, track |-> FileTrack(t)] /\ InQuestion(FileTrack(t), q)
                  /\ Wanted(FileTrack(t).class, q.class) /\ Wanted(FileTrack(t).colour, q.colour)
           /\ \A r \in FilesAsked(q.run) : \A t \in TracksIn(r) :
                  /\ InQuestion(FileTrack(t), q) /\ Wanted(FileTrack(t).class, q.class)
                  /\ Wanted(FileTrack(t).colour, q.colour)
                  => [run |-> r, track |-> FileTrack(t)] \in FileTracks(q)
<1>1. ASSUME NEW x \in FileTracks(q)
      PROVE  \E r \in FilesAsked(q.run) : \E t \in TracksIn(r) :
                  /\ x = [run |-> r, track |-> FileTrack(t)] /\ InQuestion(FileTrack(t), q)
                  /\ Wanted(FileTrack(t).class, q.class) /\ Wanted(FileTrack(t).colour, q.colour)
    <2>1. PICK r \in FilesAsked(q.run) : \E t \in TracksIn(r) : x = [run |-> r, track |-> FileTrack(t)]
        BY DEF FileTracks
    <2>2. PICK t \in TracksIn(r) : x = [run |-> r, track |-> FileTrack(t)]
        BY <2>1
    <2>3. InQuestion(x.track, q) /\ Wanted(x.track.class, q.class) /\ Wanted(x.track.colour, q.colour)
        BY DEF FileTracks
    <2>4. x.track = FileTrack(t)
        BY <2>2
    <2> QED
        BY <2>2, <2>3, <2>4
<1>2. ASSUME NEW r \in FilesAsked(q.run), NEW t \in TracksIn(r),
             InQuestion(FileTrack(t), q), Wanted(FileTrack(t).class, q.class),
             Wanted(FileTrack(t).colour, q.colour)
      PROVE  [run |-> r, track |-> FileTrack(t)] \in FileTracks(q)
    <2>1. PICK x : x = [run |-> r, track |-> FileTrack(t)]
        OBVIOUS
    <2>2. x.track = FileTrack(t)
        BY <2>1
    <2>3. x \in UNION {{[run |-> p, track |-> FileTrack(u)] : u \in TracksIn(p)} : p \in FilesAsked(q.run)}
        BY <2>1
    <2> QED
        BY <1>2, <2>1, <2>2, <2>3 DEF FileTracks
<1> QED
    BY <1>1, <1>2

(* The tracks that the rows hold, and when they are listed.                *)
LEMMA RowTracksAre ==
    ASSUME NEW q
    PROVE  /\ \A x \in RowTracks(q) : \E r \in RowsAsked(q.run) : \E t \in TracksIn(r) :
                  /\ x = [run |-> r, track |-> RowTrack(t)] /\ InQuestion(RowTrack(t), q)
                  /\ Wanted(RowTrack(t).class, q.class) /\ Wanted(Coalesced(RowTrack(t).colour), q.colour)
           /\ \A r \in RowsAsked(q.run) : \A t \in TracksIn(r) :
                  /\ InQuestion(RowTrack(t), q) /\ Wanted(RowTrack(t).class, q.class)
                  /\ Wanted(Coalesced(RowTrack(t).colour), q.colour)
                  => [run |-> r, track |-> RowTrack(t)] \in RowTracks(q)
<1>1. ASSUME NEW x \in RowTracks(q)
      PROVE  \E r \in RowsAsked(q.run) : \E t \in TracksIn(r) :
                  /\ x = [run |-> r, track |-> RowTrack(t)] /\ InQuestion(RowTrack(t), q)
                  /\ Wanted(RowTrack(t).class, q.class) /\ Wanted(Coalesced(RowTrack(t).colour), q.colour)
    <2>1. PICK r \in RowsAsked(q.run) : \E t \in TracksIn(r) : x = [run |-> r, track |-> RowTrack(t)]
        BY DEF RowTracks
    <2>2. PICK t \in TracksIn(r) : x = [run |-> r, track |-> RowTrack(t)]
        BY <2>1
    <2>3. InQuestion(x.track, q) /\ Wanted(x.track.class, q.class) /\ Wanted(Coalesced(x.track.colour), q.colour)
        BY DEF RowTracks
    <2>4. x.track = RowTrack(t)
        BY <2>2
    <2> QED
        BY <2>2, <2>3, <2>4
<1>2. ASSUME NEW r \in RowsAsked(q.run), NEW t \in TracksIn(r),
             InQuestion(RowTrack(t), q), Wanted(RowTrack(t).class, q.class),
             Wanted(Coalesced(RowTrack(t).colour), q.colour)
      PROVE  [run |-> r, track |-> RowTrack(t)] \in RowTracks(q)
    <2>1. PICK x : x = [run |-> r, track |-> RowTrack(t)]
        OBVIOUS
    <2>2. x.track = RowTrack(t)
        BY <2>1
    <2>3. x \in UNION {{[run |-> p, track |-> RowTrack(u)] : u \in TracksIn(p)} : p \in RowsAsked(q.run)}
        BY <2>1
    <2> QED
        BY <1>2, <2>1, <2>2, <2>3 DEF RowTracks
<1> QED
    BY <1>1, <1>2

Listed(found) == {<<x.run, x.track.id, x.track.colour>> : x \in found}

(* Neither reading of a track changes whether it is asked for.             *)
LEMMA SameQuestion ==
    ASSUME NEW q, NEW t
    PROVE  InQuestion(FileTrack(t), q) <=> InQuestion(RowTrack(t), q)
<1>1. PICK a, b : a = FileTrack(t) /\ b = RowTrack(t)
    OBVIOUS
<1>2. a.id = b.id /\ a.first = b.first /\ a.last = b.last
    BY <1>1, TrackFields
<1>3. InQuestion(a, q) <=> InQuestion(b, q)
    BY <1>2 DEF InQuestion
<1> QED
    BY <1>1, <1>3

(* A question that names no value which is not there lists the same tracks.*)
LEMMA TracksAgree ==
    ASSUME NEW q, NEW r, FilesAsked(q.run) = {r}, RowsAsked(q.run) = {r},
           {q.class, q.colour} \cap {"UNKNOWN", "none"} = {}
    PROVE  Listed(FileTracks(q)) = Listed(RowTracks(q))
<1>1. \A t : InQuestion(FileTrack(t), q) <=> InQuestion(RowTrack(t), q)
    BY SameQuestion
<1>2. \A t : Wanted(FileTrack(t).class, q.class) <=> Wanted(RowTrack(t).class, q.class)
    BY TrackFields DEF Wanted, Coalesced
<1>3. \A t : Wanted(FileTrack(t).colour, q.colour) <=> Wanted(Coalesced(RowTrack(t).colour), q.colour)
    BY TrackFields DEF Wanted, Coalesced
<1>4. ASSUME NEW e \in Listed(FileTracks(q)) PROVE e \in Listed(RowTracks(q))
    <2>1. PICK x \in FileTracks(q) : e = <<x.run, x.track.id, x.track.colour>>
        BY DEF Listed
    <2>2. PICK t \in TracksIn(r) :
              /\ x = [run |-> r, track |-> FileTrack(t)] /\ InQuestion(FileTrack(t), q)
              /\ Wanted(FileTrack(t).class, q.class) /\ Wanted(FileTrack(t).colour, q.colour)
        BY FileTracksAre
    <2>3. PICK y : y = [run |-> r, track |-> RowTrack(t)]
        OBVIOUS
    <2>4. y \in RowTracks(q)
        BY <1>1, <1>2, <1>3, <2>2, <2>3, RowTracksAre
    <2>5. e = <<y.run, y.track.id, y.track.colour>>
        BY <2>1, <2>2, <2>3, TrackFields
    <2> QED
        BY <2>4, <2>5 DEF Listed
<1>5. ASSUME NEW e \in Listed(RowTracks(q)) PROVE e \in Listed(FileTracks(q))
    <2>1. PICK x \in RowTracks(q) : e = <<x.run, x.track.id, x.track.colour>>
        BY DEF Listed
    <2>2. PICK t \in TracksIn(r) :
              /\ x = [run |-> r, track |-> RowTrack(t)] /\ InQuestion(RowTrack(t), q)
              /\ Wanted(RowTrack(t).class, q.class) /\ Wanted(Coalesced(RowTrack(t).colour), q.colour)
        BY RowTracksAre
    <2>3. PICK y : y = [run |-> r, track |-> FileTrack(t)]
        OBVIOUS
    <2>4. y \in FileTracks(q)
        BY <1>1, <1>2, <1>3, <2>2, <2>3, FileTracksAre
    <2>5. e = <<y.run, y.track.id, y.track.colour>>
        BY <2>1, <2>2, <2>3, TrackFields
    <2> QED
        BY <2>4, <2>5 DEF Listed
<1> QED
    BY <1>4, <1>5

(* A track is looked for by its number alone.                              *)
LEMMA TrackAgrees ==
    ASSUME RunsAreReal, NEW q \in RecordQuestions, NEW r \in DOMAIN folders,
           FilesAsked(q.run) = {r}, RowsAsked(q.run) = {r}
    PROVE  Listed(FileTrackOf(q)) = Listed(RowTrackOf(q))
<1>1. PICK s : s = TrackQuestion(q)
    OBVIOUS
<1>2. s.run = q.run /\ s.class = "any" /\ s.colour = "any"
    BY <1>1, RecordsAssumption DEF TrackQuestion, RecordsAssumption
<1>3. FilesAsked(s.run) = {r} /\ RowsAsked(s.run) = {r} /\ {s.class, s.colour} \cap {"UNKNOWN", "none"} = {}
    BY <1>2
<1>4. Listed(FileTracks(s)) = Listed(RowTracks(s))
    BY <1>3, TracksAgree
<1>5. r <= r
    BY DEF RunsAreReal
<1>6. FirstFound(FileTracks(s)) = FileTracks(s)
    <2>1. \A x \in FileTracks(s) : x.run = r
        BY <1>3, FileTracksAre
    <2> QED
        BY <1>5, <2>1 DEF FirstFound
<1>7. FirstFound(RowTracks(s)) = RowTracks(s)
    <2>1. \A x \in RowTracks(s) : x.run = r
        BY <1>3, RowTracksAre
    <2> QED
        BY <1>5, <2>1 DEF FirstFound
<1> QED
    BY <1>1, <1>4, <1>6, <1>7 DEF FileTrackOf, RowTrackOf

(* The vehicles that the files hold, and when they are listed.             *)
LEMMA FileVehiclesAre ==
    ASSUME NEW q
    PROVE  /\ \A x \in FileVehicles(q) : \E r \in FilesAsked(q.run) : \E v \in VehiclesIn(r) :
                  /\ x = [run |-> r, vehicle |-> v]
                  /\ Wanted(v.class, q.class) /\ Wanted(v.colour, q.colour)
                  /\ q.plate = "any" \/ v.plate = PlainText(q.plate)
           /\ \A r \in FilesAsked(q.run) : \A v \in VehiclesIn(r) :
                  /\ Wanted(v.class, q.class) /\ Wanted(v.colour, q.colour)
                  /\ q.plate = "any" \/ v.plate = PlainText(q.plate)
                  => [run |-> r, vehicle |-> v] \in FileVehicles(q)
<1>1. ASSUME NEW x \in FileVehicles(q)
      PROVE  \E r \in FilesAsked(q.run) : \E v \in VehiclesIn(r) :
                  /\ x = [run |-> r, vehicle |-> v]
                  /\ Wanted(v.class, q.class) /\ Wanted(v.colour, q.colour)
                  /\ q.plate = "any" \/ v.plate = PlainText(q.plate)
    <2>1. PICK r \in FilesAsked(q.run) : \E v \in VehiclesIn(r) : x = [run |-> r, vehicle |-> v]
        BY DEF FileVehicles
    <2>2. PICK v \in VehiclesIn(r) : x = [run |-> r, vehicle |-> v]
        BY <2>1
    <2>3. /\ Wanted(x.vehicle.class, q.class) /\ Wanted(x.vehicle.colour, q.colour)
          /\ q.plate = "any" \/ x.vehicle.plate = PlainText(q.plate)
        BY DEF FileVehicles
    <2>4. x.vehicle = v
        BY <2>2
    <2> QED
        BY <2>2, <2>3, <2>4
<1>2. ASSUME NEW r \in FilesAsked(q.run), NEW v \in VehiclesIn(r),
             Wanted(v.class, q.class), Wanted(v.colour, q.colour),
             q.plate = "any" \/ v.plate = PlainText(q.plate)
      PROVE  [run |-> r, vehicle |-> v] \in FileVehicles(q)
    <2>1. PICK x : x = [run |-> r, vehicle |-> v]
        OBVIOUS
    <2>2. x.vehicle = v
        BY <2>1
    <2>3. x \in UNION {{[run |-> p, vehicle |-> w] : w \in VehiclesIn(p)} : p \in FilesAsked(q.run)}
        BY <2>1
    <2> QED
        BY <1>2, <2>1, <2>2, <2>3 DEF FileVehicles
<1> QED
    BY <1>1, <1>2

(* The vehicles that the rows hold, and when they are listed.              *)
LEMMA RowVehiclesAre ==
    ASSUME NEW q
    PROVE  /\ \A x \in RowVehicles(q) : \E r \in RowsAsked(q.run) : \E v \in VehiclesIn(r) :
                  /\ x = [run |-> r, vehicle |-> v]
                  /\ Wanted(Coalesced(v.class), q.class) /\ Wanted(Coalesced(v.colour), q.colour)
                  /\ q.plate \in {"any", "blank"} \/ v.plate = q.plate
           /\ \A r \in RowsAsked(q.run) : \A v \in VehiclesIn(r) :
                  /\ Wanted(Coalesced(v.class), q.class) /\ Wanted(Coalesced(v.colour), q.colour)
                  /\ q.plate \in {"any", "blank"} \/ v.plate = q.plate
                  => [run |-> r, vehicle |-> v] \in RowVehicles(q)
<1>1. ASSUME NEW x \in RowVehicles(q)
      PROVE  \E r \in RowsAsked(q.run) : \E v \in VehiclesIn(r) :
                  /\ x = [run |-> r, vehicle |-> v]
                  /\ Wanted(Coalesced(v.class), q.class) /\ Wanted(Coalesced(v.colour), q.colour)
                  /\ q.plate \in {"any", "blank"} \/ v.plate = q.plate
    <2>1. PICK r \in RowsAsked(q.run) : \E v \in VehiclesIn(r) : x = [run |-> r, vehicle |-> v]
        BY DEF RowVehicles
    <2>2. PICK v \in VehiclesIn(r) : x = [run |-> r, vehicle |-> v]
        BY <2>1
    <2>3. /\ Wanted(Coalesced(x.vehicle.class), q.class) /\ Wanted(Coalesced(x.vehicle.colour), q.colour)
          /\ q.plate \in {"any", "blank"} \/ x.vehicle.plate = q.plate
        BY DEF RowVehicles
    <2>4. x.vehicle = v
        BY <2>2
    <2> QED
        BY <2>2, <2>3, <2>4
<1>2. ASSUME NEW r \in RowsAsked(q.run), NEW v \in VehiclesIn(r),
             Wanted(Coalesced(v.class), q.class), Wanted(Coalesced(v.colour), q.colour),
             q.plate \in {"any", "blank"} \/ v.plate = q.plate
      PROVE  [run |-> r, vehicle |-> v] \in RowVehicles(q)
    <2>1. PICK x : x = [run |-> r, vehicle |-> v]
        OBVIOUS
    <2>2. x.vehicle = v
        BY <2>1
    <2>3. x \in UNION {{[run |-> p, vehicle |-> w] : w \in VehiclesIn(p)} : p \in RowsAsked(q.run)}
        BY <2>1
    <2> QED
        BY <1>2, <2>1, <2>2, <2>3 DEF RowVehicles
<1> QED
    BY <1>1, <1>2

(* A question that names no value which is not there lists the same        *)
(* vehicles.                                                               *)
LEMMA VehiclesReadAlike ==
    ASSUME NEW q, NEW r, FilesAsked(q.run) = {r}, RowsAsked(q.run) = {r}, Known(q)
    PROVE  FileVehicles(q) = RowVehicles(q)
<1>1. \A v : /\ Wanted(v.class, q.class) <=> Wanted(Coalesced(v.class), q.class)
             /\ Wanted(v.colour, q.colour) <=> Wanted(Coalesced(v.colour), q.colour)
             /\ (q.plate = "any" \/ v.plate = PlainText(q.plate)) <=>
                (q.plate \in {"any", "blank"} \/ v.plate = q.plate)
    BY DEF Known, Wanted, Coalesced, PlainText
<1>2. ASSUME NEW x \in FileVehicles(q) PROVE x \in RowVehicles(q)
    <2>1. PICK v \in VehiclesIn(r) :
                  /\ x = [run |-> r, vehicle |-> v]
                  /\ Wanted(v.class, q.class) /\ Wanted(v.colour, q.colour)
                  /\ q.plate = "any" \/ v.plate = PlainText(q.plate)
        BY FileVehiclesAre
    <2> QED
        BY <1>1, <2>1, RowVehiclesAre
<1>3. ASSUME NEW x \in RowVehicles(q) PROVE x \in FileVehicles(q)
    <2>1. PICK v \in VehiclesIn(r) :
                  /\ x = [run |-> r, vehicle |-> v]
                  /\ Wanted(Coalesced(v.class), q.class) /\ Wanted(Coalesced(v.colour), q.colour)
                  /\ q.plate \in {"any", "blank"} \/ v.plate = q.plate
        BY RowVehiclesAre
    <2> QED
        BY <1>1, <2>1, FileVehiclesAre
<1> QED
    BY <1>2, <1>3

(* Both count the same.                                                    *)
LEMMA RecordsAgree ==
    ASSUME NEW run, NEW r, FilesAsked(run) = {r}, RowsAsked(run) = {r}
    PROVE  FileRecords(run) = RowRecords(run)
<1>1. PICK q : q = Everything(run)
    OBVIOUS
<1>2. q.run = run /\ q.class = "any" /\ q.colour = "any" /\ q.plate = "any"
    BY <1>1 DEF Everything
<1>3. FilesAsked(q.run) = {r} /\ RowsAsked(q.run) = {r} /\ Known(q)
    BY <1>2 DEF Known
<1>4. FileVehicles(q) = RowVehicles(q)
    BY <1>3, VehiclesReadAlike
<1>5. PICK F : F = {<<x.run, x.track.id>> : x \in {y \in FileTracks(q) : y.track.status = "COMPLETED"}}
    OBVIOUS
<1>6. PICK R : R = {<<x.run, x.track.id>> : x \in {y \in RowTracks(q) : y.track.status = "COMPLETED"}}
    OBVIOUS
<1>7. \A t : /\ InQuestion(FileTrack(t), q) <=> InQuestion(RowTrack(t), q)
             /\ Wanted(FileTrack(t).class, q.class) /\ Wanted(RowTrack(t).class, q.class)
             /\ Wanted(FileTrack(t).colour, q.colour) /\ Wanted(Coalesced(RowTrack(t).colour), q.colour)
    BY <1>2, SameQuestion DEF Wanted
<1>8. ASSUME NEW e \in F PROVE e \in R
    <2>1. PICK x \in FileTracks(q) : e = <<x.run, x.track.id>> /\ x.track.status = "COMPLETED"
        BY <1>5
    <2>2. PICK t \in TracksIn(r) : x = [run |-> r, track |-> FileTrack(t)] /\ InQuestion(FileTrack(t), q)
        BY <1>3, FileTracksAre
    <2>3. PICK y : y = [run |-> r, track |-> RowTrack(t)]
        OBVIOUS
    <2>4. y \in RowTracks(q)
        BY <1>3, <1>7, <2>2, <2>3, RowTracksAre
    <2>5. e = <<y.run, y.track.id>> /\ y.track.status = "COMPLETED"
        <3>1. PICK a, b : a = FileTrack(t) /\ b = RowTrack(t)
            OBVIOUS
        <3>2. a.id = b.id /\ a.status = b.status
            BY <3>1, TrackFields
        <3>3. x.run = y.run /\ x.track = a /\ y.track = b
            BY <2>2, <2>3, <3>1
        <3> QED
            BY <2>1, <3>2, <3>3
    <2> QED
        BY <1>6, <2>4, <2>5
<1>9. ASSUME NEW e \in R PROVE e \in F
    <2>1. PICK x \in RowTracks(q) : e = <<x.run, x.track.id>> /\ x.track.status = "COMPLETED"
        BY <1>6
    <2>2. PICK t \in TracksIn(r) : x = [run |-> r, track |-> RowTrack(t)] /\ InQuestion(RowTrack(t), q)
        BY <1>3, RowTracksAre
    <2>3. PICK y : y = [run |-> r, track |-> FileTrack(t)]
        OBVIOUS
    <2>4. y \in FileTracks(q)
        BY <1>3, <1>7, <2>2, <2>3, FileTracksAre
    <2>5. e = <<y.run, y.track.id>> /\ y.track.status = "COMPLETED"
        <3>1. PICK a, b : a = RowTrack(t) /\ b = FileTrack(t)
            OBVIOUS
        <3>2. a.id = b.id /\ a.status = b.status
            BY <3>1, TrackFields
        <3>3. x.run = y.run /\ x.track = a /\ y.track = b
            BY <2>2, <2>3, <3>1
        <3> QED
            BY <2>1, <3>2, <3>3
    <2> QED
        BY <1>5, <2>4, <2>5
<1>10. F = R
    BY <1>8, <1>9
<1> QED
    BY <1>1, <1>4, <1>5, <1>6, <1>10 DEF FileRecords, RowRecords, RecordsOf

(* What a run recorded is one of the recordings.                           *)
LEMMA RunHolds ==
    ASSUME RunsAreReal, NEW r \in DOMAIN folders
    PROVE  folders[r].holds \in Recordings
<1>1. PICK F : F = [stage : {"started", "finished"}, holds : Recordings, tried : BOOLEAN]
    OBVIOUS
<1>2. folders \in Seq(F)
    BY <1>1 DEF RunsAreReal
<1>3. folders[r] \in F
    BY <1>2
<1> QED
    BY <1>1, <1>3

(* The cameras of a finished run are those with tracks, with frames, and   *)
(* those that were enabled.                                                *)
LEMMA CamerasAgree ==
    ASSUME RunsAreReal, NEW run, run # All, NEW r \in imported,
           FilesAsked(run) = {r}, RowsAsked(run) = {r}
    PROVE  FileCameras(run) = RowCameras(run)
<1>1. PICK cameras : cameras = folders[r].holds.cameras
    OBVIOUS
<1>2. r \in DOMAIN folders /\ Finished(r) /\ folders[r].holds \in Recordings
    BY RunHolds DEF RunsAreReal, Finished
<1>3. \A c \in TrackedCameras(r) : c \in DOMAIN cameras /\ cameras[c].frames
    BY <1>1, <1>2, RecordsAssumption DEF TrackedCameras, TracksIn, RecordsAssumption
<1>4. Newest({r}) = {r}
    BY <1>2 DEF Newest, RunsAreReal
<1>5. FileCameras(run) = TrackedCameras(r) \cup {c \in DOMAIN cameras : cameras[c].enabled = "true" \/ cameras[c].frames}
    BY <1>1, <1>2, <1>4 DEF FileCameras
<1>6. RowCameras(run) = {c \in {d \in DOMAIN cameras : cameras[d].enabled # "false" \/ cameras[d].frames} :
                           cameras[c].enabled = "true" \/ cameras[c].frames \/ c \in TrackedCameras(r)}
    BY <1>1 DEF RowCameras
<1> QED
    BY <1>3, <1>5, <1>6

(* Both search the same.                                                   *)
LEMMA SearchesAgree ==
    ASSUME RunsAreReal, NEW run, run # All, NEW r \in imported,
           FilesAsked(run) = {r}, RowsAsked(run) = {r}
    PROVE  FileSearch(run) = RowSearch(run)
<1>1. Finished(r)
    BY DEF RunsAreReal, Finished
<1>2. FileRecords(run) = RowRecords(run)
    BY RecordsAgree
<1>3. FileSearch(run) = [found |-> "run", records |-> FileRecords(run)]
    BY <1>1 DEF FileSearch
<1>4. RowSearch(run) = [found |-> "run", records |-> RowRecords(run)]
    BY DEF RowSearch
<1> QED
    BY <1>2, <1>3, <1>4

(* The parts of an answer.                                                 *)
LEMMA AnswerFields ==
    ASSUME NEW q
    PROVE  /\ AnswerTo(q).kind = "records" /\ AnswerTo(q).question = q
           /\ AnswerTo(q).files.cameras = FileCameras(q.run)
           /\ AnswerTo(q).rows.cameras = RowCameras(q.run)
           /\ AnswerTo(q).files.search = FileSearch(q.run)
           /\ AnswerTo(q).rows.search = RowSearch(q.run)
           /\ AnswerTo(q).files.track = FileTrackOf(q)
           /\ AnswerTo(q).rows.track = RowTrackOf(q)
           /\ AnswerTo(q).files.tracks = FileTracks(q)
           /\ AnswerTo(q).rows.tracks = RowTracks(q)
           /\ AnswerTo(q).files.vehicles = FileVehicles(q)
           /\ AnswerTo(q).rows.vehicles = RowVehicles(q)
           /\ AnswerTo(q).fileRuns = ApiRuns(FileRuns)
           /\ AnswerTo(q).rowRuns = ApiRuns(RowRuns)
           /\ AnswerTo(q).fileApi = ApiTracks(FileTracks(q), q)
           /\ AnswerTo(q).rowApi = ApiTracks(RowTracks(q), q)
           /\ AnswerTo(q).fileOne = ApiTrack(FileTrackOf(q), q)
           /\ AnswerTo(q).fileCameras = ApiCameras(FileCameras(q.run))
           /\ AnswerTo(q).filter =
                 ApiFilterCameras(FileVehicles(Everything(q.run)), FileTracks(Everything(q.run)))
BY DEF AnswerTo

(* A step that asks nothing leaves the answer or forgets it.               *)
LEMMA Replies ==
    ASSUME [RecordsNext]_recordVars
    PROVE  \/ UNCHANGED recordVars
           \/ replied' = NoAnswer
           \/ \E q \in RecordQuestions : Ask(q)
           \/ \E path \in RecordPaths : ShowMedia(path)
           \/ \E case \in PlateCases : ShowPlate(case)
BY DEF RecordsNext, StartRun, ShowTrack, FinishRun, ImportRows, Experiment

(* The files and the database answer a question about one finished and     *)
(* imported run alike, its tracks, vehicles, cameras and searches, unless  *)
(* it asks for a value that is not there (list_tracks, vehicle_search).    *)
THEOREM ReadersAgreeTheorem == RecordsSpec => []ReadersAgree
<1>1. RecordsInit => ReadersAgree
    BY DEF RecordsInit, ReadersAgree, NoAnswer
<1>2. RunsAreReal /\ ReadersAgree /\ [RecordsNext]_recordVars => ReadersAgree'
    <2>1. ASSUME RunsAreReal, NEW q \in RecordQuestions, Ask(q) PROVE ReadersAgree'
        <3>1. PICK a : a = AnswerTo(q)
            OBVIOUS
        <3>2. replied' = a /\ folders' = folders /\ finishes' = finishes /\ imported' = imported
            BY <2>1, <3>1 DEF Ask
        <3>3. a.question = q
            BY <3>1, AnswerFields
        <3>4. Settled(q.run)' <=> Settled(q.run)
            BY <3>2 DEF Settled
        <3>5. ASSUME Settled(q.run)
              PROVE  /\ a.files.cameras = a.rows.cameras
                     /\ a.files.search = a.rows.search
                     /\ Listed(a.files.track) = Listed(a.rows.track)
                     /\ Known(q) => /\ Listed(a.files.tracks) = Listed(a.rows.tracks)
                                    /\ a.files.vehicles = a.rows.vehicles
            <4>1. q.run # All
                BY <2>1, <3>5, SettledRun
            <4>2. PICK r \in imported : FilesAsked(q.run) = {r} /\ RowsAsked(q.run) = {r}
                BY <2>1, <3>5, SettledRun
            <4>3. r \in DOMAIN folders
                BY <2>1 DEF RunsAreReal
            <4>4. FileCameras(q.run) = RowCameras(q.run) /\ FileSearch(q.run) = RowSearch(q.run)
                BY <2>1, <4>1, <4>2, CamerasAgree, SearchesAgree
            <4>5. Listed(FileTrackOf(q)) = Listed(RowTrackOf(q))
                BY <2>1, <4>2, <4>3, TrackAgrees
            <4>6. Known(q) => /\ Listed(FileTracks(q)) = Listed(RowTracks(q))
                              /\ FileVehicles(q) = RowVehicles(q)
                BY <4>2, TracksAgree, VehiclesReadAlike DEF Known
            <4>7. /\ a.files.cameras = FileCameras(q.run) /\ a.rows.cameras = RowCameras(q.run)
                  /\ a.files.search = FileSearch(q.run) /\ a.rows.search = RowSearch(q.run)
                  /\ a.files.track = FileTrackOf(q) /\ a.rows.track = RowTrackOf(q)
                  /\ a.files.tracks = FileTracks(q) /\ a.rows.tracks = RowTracks(q)
                  /\ a.files.vehicles = FileVehicles(q) /\ a.rows.vehicles = RowVehicles(q)
                BY <3>1, AnswerFields
            <4> QED
                BY <4>4, <4>5, <4>6, <4>7
        <3> QED
            BY <3>2, <3>3, <3>4, <3>5 DEF ReadersAgree, Listed
    <2>2. ASSUME ReadersAgree, UNCHANGED recordVars PROVE ReadersAgree'
        <3>1. /\ replied' = replied /\ folders' = folders /\ finishes' = finishes
              /\ imported' = imported
            BY <2>2 DEF recordVars
        <3>2. \A run : Settled(run)' <=> Settled(run)
            BY <3>1 DEF Settled
        <3> QED
            BY <2>2, <3>1, <3>2 DEF ReadersAgree
    <2>3. ASSUME replied'.kind # "records" PROVE ReadersAgree'
        BY <2>3 DEF ReadersAgree
    <2>4. ASSUME NEW path \in RecordPaths, ShowMedia(path) PROVE ReadersAgree'
        BY <2>3, <2>4 DEF ShowMedia
    <2>5. ASSUME NEW case \in PlateCases, ShowPlate(case) PROVE ReadersAgree'
        BY <2>3, <2>5 DEF ShowPlate
    <2>6. ASSUME replied' = NoAnswer PROVE ReadersAgree'
        BY <2>3, <2>6 DEF NoAnswer
    <2> QED
        BY <2>1, <2>2, <2>4, <2>5, <2>6, Replies
<1> QED
    BY <1>1, <1>2, RunsInvariant, PTL DEF RecordsSpec

-----------------------------------------------------------------------------

(* Of the tracks that the repository knows those are listed which are not  *)
(* live, when all are of one run.                                          *)
LEMMA ListedUnlessLive ==
    ASSUME NEW persisted, NEW q, NEW r \in Nat, \A x \in persisted : x.run = r
    PROVE  {x.id : x \in {y \in ApiTracks(persisted, q) : ~ y.live}} =
           {x.track.id : x \in persisted} \ {t.id : t \in onAir.tracks}
<1>1. PICK live : live = {[run |-> onAir.run, id |-> t.id, live |-> TRUE] :
                    t \in {u \in onAir.tracks : /\ Wanted(u.class, q.class)
                                                /\ q.colour = "any"
                                                /\ Wanted(u.id[1], q.camera)
                                                /\ q.number = 0 \/ u.id[2] = q.number}}
    OBVIOUS
<1>2. PICK hidden : hidden = {t.id : t \in onAir.tracks}
    OBVIOUS
<1>3. PICK kept : kept = {y \in persisted : /\ y.track.id \notin hidden
                                   /\ \A z \in persisted : z.track.id = y.track.id => y.run <= z.run}
    OBVIOUS
<1>4. PICK others : others = {[run |-> x.run, id |-> x.track.id, live |-> FALSE] : x \in kept}
    OBVIOUS
<1>5. ApiTracks(persisted, q) = live \cup others
    BY <1>1, <1>2, <1>3, <1>4 DEF ApiTracks
<1>6. \A x \in live : x.live
    BY <1>1
<1>7. \A x \in others : ~ x.live
    BY <1>4
<1>8. {y \in ApiTracks(persisted, q) : ~ y.live} = others
    BY <1>5, <1>6, <1>7
<1>9. kept = {y \in persisted : y.track.id \notin hidden}
    BY <1>3
<1>10. {x.id : x \in others} = {x.track.id : x \in kept}
    <2>1. ASSUME NEW x \in others PROVE x.id \in {y.track.id : y \in kept}
        BY <1>4
    <2>2. ASSUME NEW y \in kept PROVE \E x \in others : x.id = y.track.id
        <3>1. PICK x : x = [run |-> y.run, id |-> y.track.id, live |-> FALSE]
            OBVIOUS
        <3> QED
            BY <1>4, <3>1
    <2> QED
        BY <2>1, <2>2
<1>11. {x.track.id : x \in kept} = {x.track.id : x \in persisted} \ hidden
    BY <1>9
<1> QED
    BY <1>2, <1>8, <1>10, <1>11

(* No run is listed twice.                                                 *)
LEMMA RunsAreListedOnce ==
    ASSUME NEW runs, NEW x \in ApiRuns(runs), NEW y \in ApiRuns(runs), x.run = y.run
    PROVE  x = y
<1>1. PICK known : known = {[run |-> c.run, live |-> FALSE] : c \in {d \in runs : d.run # onAir.run}}
    OBVIOUS
<1>2. ApiRuns(runs) = known \cup (IF onAir.run = 0 THEN {} ELSE {[run |-> onAir.run, live |-> TRUE]})
    BY <1>1 DEF ApiRuns
<1>3. \A z \in known : z.run # onAir.run /\ z = [run |-> z.run, live |-> FALSE]
    BY <1>1
<1>4. \A z \in ApiRuns(runs) :
          z \in known \/ z = [run |-> onAir.run, live |-> TRUE]
    BY <1>2
<1>5. \A z \in ApiRuns(runs) :
          \/ z.run # onAir.run /\ z = [run |-> z.run, live |-> FALSE]
          \/ z = [run |-> onAir.run, live |-> TRUE]
    BY <1>3, <1>4
<1>6. CASE x.run # onAir.run
    <2>1. x # [run |-> onAir.run, live |-> TRUE] /\ y # [run |-> onAir.run, live |-> TRUE]
        BY <1>6
    <2> QED
        BY <1>5, <2>1
<1>7. CASE x.run = onAir.run
    BY <1>5, <1>7
<1> QED
    BY <1>6, <1>7

(* The cameras that are offered as filters have tracks.                    *)
LEMMA FiltersAreOfTracks ==
    ASSUME RunsAreReal, NEW run
    PROVE  ApiFilterCameras(FileVehicles(Everything(run)), FileTracks(Everything(run)))
               \subseteq UNION {TrackedCameras(r) : r \in FilesAsked(run)}
<1>1. PICK q : q = Everything(run)
    OBVIOUS
<1>2. q.run = run
    BY <1>1 DEF Everything
<1>3. FilesAsked(run) \subseteq DOMAIN folders
    <2>1. CASE run = All
        <3>1. Latest # All
            BY RecordsAssumption DEF Latest, All, RecordsAssumption
        <3> QED
            BY <2>1, <3>1 DEF FilesAsked
    <2>2. CASE run # All
        BY <2>2, OneRunAsked
    <2> QED
        BY <2>1, <2>2
<1>4. ASSUME NEW c \in UNION {x.vehicle.cameras : x \in FileVehicles(q)}
      PROVE  c \in UNION {TrackedCameras(r) : r \in FilesAsked(run)}
    <2>1. PICK x \in FileVehicles(q) : c \in x.vehicle.cameras
        OBVIOUS
    <2>2. PICK r \in FilesAsked(run) : \E v \in VehiclesIn(r) : x = [run |-> r, vehicle |-> v]
        BY <1>2, FileVehiclesAre
    <2>3. PICK v \in VehiclesIn(r) : x = [run |-> r, vehicle |-> v]
        BY <2>2
    <2>4. c \in v.cameras
        BY <2>1, <2>3
    <2>5. folders[r].holds \in Recordings
        BY <1>3, RunHolds
    <2>6. Finished(r) /\ v \in folders[r].holds.vehicles /\ TracksIn(r) = folders[r].holds.tracks
        BY DEF VehiclesIn, TracksIn
    <2>7. c \in {t.id[1] : t \in TracksIn(r)}
        BY <2>4, <2>5, <2>6, RecordsAssumption DEF RecordsAssumption
    <2> QED
        BY <2>7 DEF TrackedCameras
<1>5. ASSUME NEW c \in {x.track.id[1] : x \in FileTracks(q)}
      PROVE  c \in UNION {TrackedCameras(r) : r \in FilesAsked(run)}
    <2>1. PICK x \in FileTracks(q) : c = x.track.id[1]
        OBVIOUS
    <2>2. PICK r \in FilesAsked(run) : \E t \in TracksIn(r) : x = [run |-> r, track |-> FileTrack(t)]
        BY <1>2, FileTracksAre
    <2>3. PICK t \in TracksIn(r) : x = [run |-> r, track |-> FileTrack(t)]
        BY <2>2
    <2>4. c = t.id[1]
        BY <2>1, <2>3, TrackFields
    <2> QED
        BY <2>4 DEF TrackedCameras
<1> QED
    BY <1>1, <1>4, <1>5 DEF ApiFilterCameras

(* What the API answers of one run is what the repository knows and is not *)
(* live, no run is listed twice, and the cameras offered as filters have   *)
(* tracks (list_runs, list_tracks, get_filter_options of api_app.py).      *)
THEOREM LiveOnlyAddsTheorem == RecordsSpec => []LiveOnlyAdds
<1>1. RecordsInit => LiveOnlyAdds
    BY DEF RecordsInit, LiveOnlyAdds, NoAnswer
<1>2. RunsAreReal /\ LiveOnlyAdds /\ [RecordsNext]_recordVars => LiveOnlyAdds'
    <2>1. ASSUME RunsAreReal, NEW q \in RecordQuestions, Ask(q) PROVE LiveOnlyAdds'
        <3>1. PICK a : a = AnswerTo(q)
            OBVIOUS
        <3>2. replied' = a /\ folders' = folders /\ onAir' = onAir
            BY <2>1, <3>1 DEF Ask
        <3>3. a.question = q
            BY <3>1, AnswerFields
        <3>4. /\ \A r : Finished(r)' <=> Finished(r)
              /\ \A r : TrackedCameras(r)' = TrackedCameras(r)
              /\ FilesAsked(q.run)' = FilesAsked(q.run)
            BY <3>2 DEF Finished, TrackedCameras, TracksIn, FilesAsked
        <3>5. ASSUME q.run # All
              PROVE  /\ {x.id : x \in {y \in a.fileApi : ~ y.live}} =
                            {x.track.id : x \in a.files.tracks} \ {t.id : t \in onAir.tracks}
                     /\ {x.id : x \in {y \in a.rowApi : ~ y.live}} =
                            {x.track.id : x \in a.rows.tracks} \ {t.id : t \in onAir.tracks}
            <4>1. /\ FilesAsked(q.run) \subseteq DOMAIN folders /\ RowsAsked(q.run) \subseteq DOMAIN folders
                  /\ \A p, r \in FilesAsked(q.run) : p = r
                  /\ \A p, r \in RowsAsked(q.run) : p = r
                BY <2>1, <3>5, OneRunAsked
            <4>2. DOMAIN folders \subseteq Nat
                BY <2>1 DEF RunsAreReal
            <4>3. \E r \in Nat : \A x \in FileTracks(q) : x.run = r
                <5>1. \A x \in FileTracks(q) : x.run \in FilesAsked(q.run)
                    BY FileTracksAre
                <5> QED
                    BY <4>1, <4>2, <5>1
            <4>4. \E r \in Nat : \A x \in RowTracks(q) : x.run = r
                <5>1. \A x \in RowTracks(q) : x.run \in RowsAsked(q.run)
                    BY RowTracksAre
                <5> QED
                    BY <4>1, <4>2, <5>1
            <4>5. {x.id : x \in {y \in ApiTracks(FileTracks(q), q) : ~ y.live}} =
                  {x.track.id : x \in FileTracks(q)} \ {t.id : t \in onAir.tracks}
                BY <4>3, ListedUnlessLive
            <4>6. {x.id : x \in {y \in ApiTracks(RowTracks(q), q) : ~ y.live}} =
                  {x.track.id : x \in RowTracks(q)} \ {t.id : t \in onAir.tracks}
                BY <4>4, ListedUnlessLive
            <4>7. /\ a.fileApi = ApiTracks(FileTracks(q), q) /\ a.rowApi = ApiTracks(RowTracks(q), q)
                  /\ a.files.tracks = FileTracks(q) /\ a.rows.tracks = RowTracks(q)
                BY <3>1, AnswerFields
            <4> QED
                BY <4>5, <4>6, <4>7
        <3>6. /\ \A x, y \in a.fileRuns : x.run = y.run => x = y
              /\ \A x, y \in a.rowRuns : x.run = y.run => x = y
            <4>1. a.fileRuns = ApiRuns(FileRuns) /\ a.rowRuns = ApiRuns(RowRuns)
                BY <3>1, AnswerFields
            <4> QED
                BY <4>1, RunsAreListedOnce
        <3>7. a.files.search.found = "run" => \A r \in FilesAsked(q.run) : Finished(r)
            <4>1. FileSearch(q.run).found = "run" => \A r \in FilesAsked(q.run) : Finished(r)
                BY DEF FileSearch
            <4> QED
                BY <3>1, <4>1, AnswerFields
        <3>8. a.fileOne = {} => a.files.track = {}
            <4>1. \A found : ApiTrack(found, q) = {} => found = {}
                BY DEF ApiTrack
            <4> QED
                BY <3>1, <4>1, AnswerFields
        <3>9. a.filter \subseteq UNION {TrackedCameras(r) : r \in FilesAsked(q.run)}
            <4>1. a.filter = ApiFilterCameras(FileVehicles(Everything(q.run)), FileTracks(Everything(q.run)))
                BY <3>1, AnswerFields
            <4>2. ApiFilterCameras(FileVehicles(Everything(q.run)), FileTracks(Everything(q.run)))
                      \subseteq UNION {TrackedCameras(r) : r \in FilesAsked(q.run)}
                BY <2>1, FiltersAreOfTracks
            <4> QED
                BY <4>1, <4>2
        <3>10. onAir.run = 0 => a.fileCameras = a.files.cameras
            <4>1. a.fileCameras = ApiCameras(FileCameras(q.run)) /\ a.files.cameras = FileCameras(q.run)
                BY <3>1, AnswerFields
            <4> QED
                BY <4>1 DEF ApiCameras
        <3>11. UNION {TrackedCameras(r)' : r \in FilesAsked(q.run)'} = UNION {TrackedCameras(r) : r \in FilesAsked(q.run)}
            BY <3>4
        <3> QED
            BY <3>2, <3>3, <3>4, <3>5, <3>6, <3>7, <3>8, <3>9, <3>10, <3>11 DEF LiveOnlyAdds
    <2>2. ASSUME LiveOnlyAdds, UNCHANGED recordVars PROVE LiveOnlyAdds'
        <3>1. replied' = replied /\ folders' = folders /\ onAir' = onAir
            BY <2>2 DEF recordVars
        <3>2. /\ \A r : Finished(r)' <=> Finished(r)
              /\ \A r : TrackedCameras(r)' = TrackedCameras(r)
              /\ \A run : FilesAsked(run)' = FilesAsked(run)
            BY <3>1 DEF Finished, TrackedCameras, TracksIn, FilesAsked
        <3> QED
            BY <2>2, <3>1, <3>2 DEF LiveOnlyAdds
    <2>3. ASSUME replied'.kind # "records" PROVE LiveOnlyAdds'
        BY <2>3 DEF LiveOnlyAdds
    <2>4. ASSUME NEW path \in RecordPaths, ShowMedia(path) PROVE LiveOnlyAdds'
        BY <2>3, <2>4 DEF ShowMedia
    <2>5. ASSUME NEW case \in PlateCases, ShowPlate(case) PROVE LiveOnlyAdds'
        BY <2>3, <2>5 DEF ShowPlate
    <2>6. ASSUME replied' = NoAnswer PROVE LiveOnlyAdds'
        BY <2>3, <2>6 DEF NoAnswer
    <2> QED
        BY <2>1, <2>2, <2>4, <2>5, <2>6, Replies
<1> QED
    BY <1>1, <1>2, RunsInvariant, PTL DEF RecordsSpec

-----------------------------------------------------------------------------

(* A sequence is its prefix and the rest of it.                            *)
LEMMA PrefixAndRest ==
    ASSUME NEW R, NEW s \in Seq(R), NEW T, NEW t \in Seq(T), IsPrefix(s, t)
    PROVE  /\ s \o SubSeq(t, Len(s) + 1, Len(t)) = t
           /\ ToSet(SubSeq(t, Len(s) + 1, Len(t))) \subseteq ToSet(t)
           /\ s # <<>> => t # <<>> /\ t[1] = s[1]
<1>0. PICK S : S = R \cup T
    OBVIOUS
<1>1. s \in Seq(S) /\ t \in Seq(S) /\ \E m \in Nat, n \in Nat : m = Len(s) /\ n = Len(t)
    BY <1>0
<1>1a. PICK m \in Nat, n \in Nat : m = Len(s) /\ n = Len(t)
    BY <1>1
<1>2. m <= n /\ SubSeq(s, 1, m) = SubSeq(t, 1, m)
    BY <1>1a DEF IsPrefix
<1>3. \A i \in 1 .. m : s[i] = t[i]
    <2>1. ASSUME NEW i \in 1 .. m PROVE s[i] = t[i]
        <3>1. SubSeq(s, 1, m)[i] = s[i] /\ SubSeq(t, 1, m)[i] = t[i]
            BY <1>1, <1>1a, <1>2
        <3> QED
            BY <1>2, <3>1
    <2> QED
        BY <2>1
<1>4. PICK u : u = SubSeq(t, m + 1, n)
    OBVIOUS
<1>5. u \in Seq(S) /\ Len(u) = n - m /\ \A i \in 1 .. n - m : u[i] = t[m + i]
    BY <1>1, <1>1a, <1>2, <1>4
<1>6. s \o u \in Seq(S) /\ Len(s \o u) = n
    BY <1>1, <1>1a, <1>2, <1>5
<1>7. \A i \in 1 .. n : (s \o u)[i] = t[i]
    BY <1>1, <1>1a, <1>2, <1>3, <1>5
<1>8. s \o u = t
    BY <1>1, <1>1a, <1>6, <1>7
<1>9. ToSet(u) \subseteq ToSet(t)
    BY <1>1, <1>1a, <1>2, <1>5 DEF ToSet
<1>10. s # <<>> => t # <<>> /\ t[1] = s[1]
    BY <1>1, <1>1a, <1>2, <1>3
<1> QED
    BY <1>1, <1>1a, <1>4, <1>8, <1>9, <1>10

(* The sequences that paths begin with.                                    *)
LEMMA ShortSequences ==
    ASSUME NEW a, NEW b, NEW c
    PROVE  /\ (\E R : <<a>> \in Seq(R)) /\ <<a>> # <<>>
           /\ (\E R : <<a, b>> \in Seq(R)) /\ <<a, b>> # <<>>
           /\ (\E R : <<a, b, c>> \in Seq(R)) /\ <<a, b, c>> # <<>>
<1>1. PICK R : a \in R /\ b \in R /\ c \in R
    <2>1. a \in {a, b, c} /\ b \in {a, b, c} /\ c \in {a, b, c}
        OBVIOUS
    <2> QED
        BY <2>1
<1>2. <<a>> \in Seq(R) /\ <<a, b>> \in Seq(R) /\ <<a, b, c>> \in Seq(R)
    BY <1>1
<1>3. <<a>> # <<>> /\ <<a, b>> # <<>> /\ <<a, b, c>> # <<>>
    OBVIOUS
<1> QED
    BY <1>2, <1>3

(* The folders that paths are resolved against, one name for each.         *)
LEMMA RootsAre ==
    /\ DOMAIN RowRoots \subseteq DOMAIN FileRoots
    /\ \A c \in DOMAIN RowRoots : FileRoots[c] = RowRoots[c]
    /\ \A c \in DOMAIN FileRoots : (\E R : FileRoots[c] \in Seq(R)) /\ FileRoots[c] # <<>>
    /\ \A c, d \in DOMAIN FileRoots : FileRoots[c][1] = FileRoots[d][1] => c = d
<1>1. PICK common, more : common = DOMAIN RowRoots /\ more = DOMAIN ExperimentRoots
    OBVIOUS
<1>2. /\ common = {"evidence", "florence_selected_crops", "track_crops", "body_type_selected_crops",
                 "tracked_frames", "detected_frames", "raw_frames"}
      /\ more = {"track_reconciliation_visual", "plate_assisted_contact_sheets"}
    BY <1>1 DEF RowRoots, ExperimentRoots
<1>3. /\ DOMAIN FileRoots = common \cup more
      /\ \A c \in common : FileRoots[c] = RowRoots[c]
      /\ \A c \in more : FileRoots[c] = ExperimentRoots[c]
    BY <1>1, <1>2 DEF FileRoots
<1>4. \A c \in common : (\E R : RowRoots[c] \in Seq(R)) /\ RowRoots[c] # <<>>
    <2>1. ASSUME NEW c \in common PROVE (\E R : RowRoots[c] \in Seq(R)) /\ RowRoots[c] # <<>>
        <3>1. RowRoots[c] = <<RowRoots[c][1]>>
            BY <1>2 DEF RowRoots
        <3> QED
            BY <3>1, ShortSequences
    <2> QED
        BY <2>1
<1>5. \A c \in more : (\E R : ExperimentRoots[c] \in Seq(R)) /\ ExperimentRoots[c] # <<>>
    <2>1. ASSUME NEW c \in more
          PROVE  (\E R : ExperimentRoots[c] \in Seq(R)) /\ ExperimentRoots[c] # <<>>
        <3>1. \/ ExperimentRoots[c] = <<ExperimentRoots[c][1], ExperimentRoots[c][2]>>
              \/ ExperimentRoots[c] =
                     <<ExperimentRoots[c][1], ExperimentRoots[c][2], ExperimentRoots[c][3]>>
            BY <1>2 DEF ExperimentRoots
        <3>2. PICK a, b, d : ExperimentRoots[c] = <<a, b>> \/ ExperimentRoots[c] = <<a, b, d>>
            BY <3>1
        <3>3. CASE ExperimentRoots[c] = <<a, b>>
            BY <3>3, ShortSequences
        <3>4. CASE ExperimentRoots[c] = <<a, b, d>>
            <4>1. (\E R : <<a, b, d>> \in Seq(R)) /\ <<a, b, d>> # <<>>
                BY ShortSequences
            <4> QED
                BY <3>4, <4>1, Zenon
        <3> QED
            BY <3>2, <3>3, <3>4
    <2> QED
        BY <2>1
<1>6. \A c, d \in common : RowRoots[c][1] = RowRoots[d][1] => c = d
    BY <1>2 DEF RowRoots
<1>7. \A c, d \in more : ExperimentRoots[c][1] = ExperimentRoots[d][1] => c = d
    BY <1>2 DEF ExperimentRoots
<1>8. \A c \in common, d \in more : RowRoots[c][1] # ExperimentRoots[d][1]
    BY <1>2 DEF RowRoots, ExperimentRoots
<1> QED
    BY <1>1, <1>3, <1>4, <1>5, <1>6, <1>7, <1>8

(* A reference to a file is by the only category whose root the file is    *)
(* below, and it leads back.                                               *)
LEMMA ReferencesLeadBack ==
    ASSUME NEW path \in RecordPaths
    PROVE  /\ \A x \in Reference(FileRoots, path) : FileAt(FileRoots, x) = {path}
           /\ \A x \in Reference(RowRoots, path) : FileAt(RowRoots, x) = {path}
           /\ Cardinality(Reference(FileRoots, path)) <= 1
           /\ Reference(RowRoots, path) \subseteq Reference(FileRoots, path)
<1>1. path \in Seq(STRING) /\ ToSet(path) \cap NotPlain = {}
    BY RecordsAssumption DEF RecordsAssumption
<1>2. ASSUME NEW roots, \A c \in DOMAIN roots : \E R : roots[c] \in Seq(R),
             NEW x \in Reference(roots, path)
      PROVE  FileAt(roots, x) = {path}
    <2>1. PICK c \in DOMAIN roots :
              /\ IsPrefix(roots[c], path)
              /\ x = [category |-> c, parts |-> SubSeq(path, Len(roots[c]) + 1, Len(path))]
        BY DEF Reference
    <2>2. PICK s : s = roots[c]
        OBVIOUS
    <2>3. PICK R : s \in Seq(R) /\ IsPrefix(s, path)
        BY <1>2, <2>1, <2>2
    <2>4. PICK u : u = SubSeq(path, Len(s) + 1, Len(path))
        OBVIOUS
    <2>5. s \o u = path /\ ToSet(u) \subseteq ToSet(path)
        BY <1>1, <2>3, <2>4, PrefixAndRest
    <2>6. x.category = c /\ x.parts = u
        BY <2>1, <2>2, <2>4
    <2>7. ToSet(u) \cap NotPlain = {}
        BY <1>1, <2>5
    <2> QED
        BY <2>2, <2>5, <2>6, <2>7 DEF FileAt
<1>3. \A c \in DOMAIN FileRoots : \E R : FileRoots[c] \in Seq(R)
    BY RootsAre
<1>4. \A c \in DOMAIN RowRoots : \E R : RowRoots[c] \in Seq(R)
    BY RootsAre
<1>5. PICK S : S = Reference(FileRoots, path)
    OBVIOUS
<1>6. \A x, y \in S : x = y
    <2>1. ASSUME NEW c \in DOMAIN FileRoots, IsPrefix(FileRoots[c], path)
          PROVE  FileRoots[c][1] = path[1]
        <3>1. PICK s : s = FileRoots[c]
            OBVIOUS
        <3>2. PICK R : s \in Seq(R) /\ s # <<>> /\ IsPrefix(s, path)
            BY <2>1, <3>1, RootsAre
        <3>3. path[1] = s[1]
            BY <1>1, <3>2, PrefixAndRest
        <3> QED
            BY <3>1, <3>3
    <2>2. \A c, d \in DOMAIN FileRoots :
              IsPrefix(FileRoots[c], path) /\ IsPrefix(FileRoots[d], path) => c = d
        BY <2>1, RootsAre
    <2> QED
        BY <1>5, <2>2 DEF Reference
<1>7. Cardinality(S) <= 1
    <2>1. CASE S = {}
        <3>1. Cardinality({}) = 0
            BY FS_EmptySet
        <3> QED
            BY <2>1, <3>1
    <2>2. CASE S # {}
        <3>1. PICK x : S = {x}
            BY <1>6, <2>2
        <3>2. Cardinality({x}) = 1
            BY FS_Singleton
        <3> QED
            BY <3>1, <3>2
    <2> QED
        BY <2>1, <2>2
<1>8. Reference(RowRoots, path) \subseteq Reference(FileRoots, path)
    <2>1. ASSUME NEW x \in Reference(RowRoots, path) PROVE x \in Reference(FileRoots, path)
        <3>1. PICK c \in DOMAIN RowRoots :
                  /\ IsPrefix(RowRoots[c], path)
                  /\ x = [category |-> c, parts |-> SubSeq(path, Len(RowRoots[c]) + 1, Len(path))]
            BY DEF Reference
        <3>2. c \in DOMAIN FileRoots /\ FileRoots[c] = RowRoots[c]
            BY RootsAre
        <3> QED
            BY <3>1, <3>2 DEF Reference
    <2> QED
        BY <2>1
<1> QED
    BY <1>2, <1>3, <1>4, <1>5, <1>7, <1>8

(* A link that either repository makes of a file leads back to this file   *)
(* and to no other (_path_to_media_reference, resolve_media_path).         *)
THEOREM LinksLeadBackTheorem == RecordsSpec => []LinksLeadBack
<1>1. RecordsInit => LinksLeadBack
    BY DEF RecordsInit, LinksLeadBack, NoAnswer
<1>2. LinksLeadBack /\ [RecordsNext]_recordVars => LinksLeadBack'
    <2>1. ASSUME replied'.kind # "media" PROVE LinksLeadBack'
        BY <2>1 DEF LinksLeadBack
    <2>2. ASSUME NEW path \in RecordPaths, ShowMedia(path) PROVE LinksLeadBack'
        <3>1. PICK a : a = [kind |-> "media", path |-> path,
                    files |-> Reference(FileRoots, path), rows |-> Reference(RowRoots, path)]
            OBVIOUS
        <3>2. replied' = a
            BY <2>2, <3>1 DEF ShowMedia
        <3>3. a.path = path /\ a.files = Reference(FileRoots, path) /\ a.rows = Reference(RowRoots, path)
            BY <3>1
        <3> QED
            BY <3>2, <3>3, ReferencesLeadBack DEF LinksLeadBack
    <2>3. ASSUME LinksLeadBack, UNCHANGED recordVars PROVE LinksLeadBack'
        BY <2>3 DEF LinksLeadBack, recordVars
    <2>4. ASSUME NEW q \in RecordQuestions, Ask(q) PROVE LinksLeadBack'
        <3>1. replied'.kind = "records"
            BY <2>4, AnswerFields DEF Ask
        <3> QED
            BY <2>1, <3>1
    <2>5. ASSUME NEW case \in PlateCases, ShowPlate(case) PROVE LinksLeadBack'
        BY <2>1, <2>5 DEF ShowPlate
    <2>6. ASSUME replied' = NoAnswer PROVE LinksLeadBack'
        BY <2>1, <2>6 DEF NoAnswer
    <2> QED
        BY <2>2, <2>3, <2>4, <2>5, <2>6, Replies
<1> QED
    BY <1>1, <1>2, PTL DEF RecordsSpec

-----------------------------------------------------------------------------

(* The most common text is one that was read, and there is one if any was  *)
(* read.                                                                   *)
LEMMA MostCommonIsRead ==
    ASSUME NEW members, members \in Seq(ToSet(members)),
           \A m \in ToSet(members) : m.text \in Nat
    PROVE  LET readings == {m.text : m \in ToSet(members)}
           IN /\ MostCommon(members) = 0 <=> readings \subseteq {0}
              /\ MostCommon(members) # 0 => MostCommon(members) \in readings
<1>1. PICK N \in Nat : DOMAIN members = 1 .. N
    OBVIOUS
<1>2. PICK texts : texts = {m.text : m \in ToSet(members)} \ {0}
    OBVIOUS
<1>3. texts \subseteq Nat /\ 0 \notin texts
    BY <1>2
<1>4. PICK count : count = [x \in texts |-> Cardinality({i \in DOMAIN members : members[i].text = x})]
    OBVIOUS
<1>5. IsFiniteSet(1 .. N) /\ Cardinality(1 .. N) = N
    <2>1. 1 \in Int /\ N \in Int /\ (1 > N => N = 0) /\ N - 1 + 1 = N
        OBVIOUS
    <2> QED
        BY <2>1, FS_Interval
<1>6. \A x \in texts : count[x] \in Nat /\ count[x] <= N
    <2>1. ASSUME NEW x \in texts PROVE count[x] \in Nat /\ count[x] <= N
        <3>1. PICK D : D = {i \in DOMAIN members : members[i].text = x}
            OBVIOUS
        <3>2. D \subseteq 1 .. N
            BY <1>1, <3>1
        <3>3. IsFiniteSet(D) /\ Cardinality(D) <= N
            BY <1>5, <3>2, FS_Subset
        <3>4. Cardinality(D) \in Nat
            BY <3>3, FS_CardinalityType
        <3> QED
            BY <1>4, <3>1, <3>3, <3>4
    <2> QED
        BY <2>1
<1> DEFINE best == {x \in {m.text : m \in ToSet(members)} \ {0} :
                     \A y \in {m.text : m \in ToSet(members)} \ {0} :
                     Cardinality({i \in DOMAIN members : members[i].text = y})
                         <= Cardinality({i \in DOMAIN members : members[i].text = x})}
<1>7. MostCommon(members) = IF best = {} THEN 0 ELSE CHOOSE x \in best : \A y \in best : x <= y
    BY Zenon DEF MostCommon
<1>8. best = {x \in texts : \A y \in texts : count[y] <= count[x]}
    BY <1>2, <1>4
<1> HIDE DEF best
<1>9. CASE texts = {}
    <2>1. best = {}
        BY <1>8, <1>9
    <2>2. MostCommon(members) = 0
        BY <1>7, <2>1
    <2> QED
        BY <1>2, <1>9, <2>2
<1>10. CASE texts # {}
    <2>1. PICK C : C = {count[x] : x \in texts}
        OBVIOUS
    <2>2. C \in SUBSET Nat /\ C # {} /\ \A n \in C : n <= N
        BY <1>6, <1>10, <2>1
    <2>3. PICK top \in C : \A n \in C : n <= top
        BY <2>2, GreatestNat
    <2>4. best # {}
        BY <1>8, <2>1, <2>3
    <2>5. best \in SUBSET Nat
        BY <1>3, <1>8
    <2>6. \E x \in best : \A y \in best : x <= y
        BY <2>4, <2>5, LeastNat
    <2>7. MostCommon(members) \in best
        BY <1>7, <2>4, <2>6
    <2>8. MostCommon(members) \in texts
        BY <1>8, <2>7
    <2> QED
        BY <1>2, <1>3, <1>10, <2>8
<1> QED
    BY <1>9, <1>10

(* The plate shown for a vehicle is one that a track of its own was read   *)
(* as, and exact only when read or merged so (_most_common_value,          *)
(* _plate_member_status).                                                  *)
THEOREM PlatesAreReadTheorem == RecordsSpec => []PlatesAreRead
<1>1. RecordsInit => PlatesAreRead
    BY DEF RecordsInit, PlatesAreRead, NoAnswer
<1>2. PlatesAreRead /\ [RecordsNext]_recordVars => PlatesAreRead'
    <2>1. ASSUME replied'.kind # "plate" PROVE PlatesAreRead'
        BY <2>1 DEF PlatesAreRead
    <2>2. ASSUME NEW case \in PlateCases, ShowPlate(case) PROVE PlatesAreRead'
        <3>1. PICK plate : plate = VehiclePlate(case)
            OBVIOUS
        <3>2. replied' = [kind |-> "plate", case |-> case, plate |-> plate]
            BY <2>2, <3>1 DEF ShowPlate
        <3>3. replied'.case = case /\ replied'.plate = plate
            BY <3>2
        <3>4. /\ case.members \in Seq(ToSet(case.members))
              /\ \A m \in ToSet(case.members) : m.text \in Nat
            BY RecordsAssumption DEF RecordsAssumption
        <3>5. plate.text = MostCommon(case.members)
            BY <3>1 DEF VehiclePlate
        <3>6. LET readings == {m.text : m \in ToSet(case.members)}
              IN /\ plate.text = 0 <=> readings \subseteq {0}
                 /\ plate.text # 0 => plate.text \in readings
            BY <3>4, <3>5, MostCommonIsRead
        <3>7. plate.status = "EXACT" =>
                 \/ \E m \in ToSet(case.members) : ReadingStatus(m) = "EXACT"
                 \/ "PLATE_EXACT_MATCH" \in case.reasons
            BY <3>1 DEF VehiclePlate
        <3> QED
            BY <3>3, <3>6, <3>7 DEF PlatesAreRead
    <2>3. ASSUME PlatesAreRead, UNCHANGED recordVars PROVE PlatesAreRead'
        BY <2>3 DEF PlatesAreRead, recordVars
    <2>4. ASSUME NEW q \in RecordQuestions, Ask(q) PROVE PlatesAreRead'
        <3>1. replied'.kind = "records"
            BY <2>4, AnswerFields DEF Ask
        <3> QED
            BY <2>1, <3>1
    <2>5. ASSUME NEW path \in RecordPaths, ShowMedia(path) PROVE PlatesAreRead'
        BY <2>1, <2>5 DEF ShowMedia
    <2>6. ASSUME replied' = NoAnswer PROVE PlatesAreRead'
        BY <2>1, <2>6 DEF NoAnswer
    <2> QED
        BY <2>2, <2>3, <2>4, <2>5, <2>6, Replies
<1> QED
    BY <1>1, <1>2, PTL DEF RecordsSpec

-----------------------------------------------------------------------------
(* ChatSession                                                             *)

(* The ids of an answer are of vehicles that match the question.           *)
LEMMA MatchingFacts ==
    ASSUME NEW q \in Questions
    PROVE  /\ MatchingIds(q) \in Seq(Vehicles)
           /\ \A i \in DOMAIN MatchingIds(q) : MatchingIds(q)[i] \in Selected(q)
<1> PICK S : S = Selected(q)
    OBVIOUS
<1> DEFINE R == {p \in S \X S : p[1] < p[2]}
           n == Cardinality(S)
<1>1. S \subseteq Vehicles /\ Vehicles \subseteq Nat /\ IsFiniteSet(Vehicles)
    <2>1. Selected(q) \subseteq Vehicles
        BY ChatAssumption DEF Selected, Questions, Vehicles
    <2>2. IsFiniteSet(Vehicles)
        BY ChatAssumption, FS_Interval DEF Vehicles
    <2> QED
        BY <2>1, <2>2 DEF Vehicles
<1>2. IsFiniteSet(S) /\ n \in Nat
    BY <1>1, FS_Subset, FS_CardinalityType
<1>3. \A x, y \in S : <<x, y>> \in R <=> x < y
    OBVIOUS
<1>4. /\ \A x \in S : <<x, x>> \notin R
      /\ \A x, y, z \in S : <<x, y>> \in R /\ <<y, z>> \in R => <<x, z>> \in R
      /\ \A x, y \in S : x # y => <<x, y>> \in R \/ <<y, x>> \in R
    <2>1. \A x, y, z \in S : x < y /\ y < z => x < z
        BY <1>1
    <2>2. \A x, y \in S : ~ x < x /\ (x # y => x < y \/ y < x)
        BY <1>1
    <2> HIDE DEF R
    <2> QED
        BY <1>3, <2>1, <2>2
<1> HIDE DEF R
<1>5. PICK z \in [1 .. n -> S] :
         /\ \A i, j \in 1 .. n : i # j => z[i] # z[j]
         /\ \A i, j \in 1 .. n : i < j => <<z[i], z[j]>> \in R
    BY <1>2, <1>4, SortingExists
<1>6. z \in SetToSeqs(S) /\ \A i, j \in DOMAIN z : i < j => z[i] < z[j]
    <2>1. \A i, j \in DOMAIN z : i < j => z[i] < z[j]
        BY <1>3, <1>5
    <2>2. z \in SetToSeqs(S)
        BY <1>5 DEF SetToSeqs
    <2> QED
        BY <2>1, <2>2
<1>7. MatchingIds(q) \in SetToSeqs(S)
    BY <1>6 DEF MatchingIds
<1>8. MatchingIds(q) \in [1 .. n -> S]
    BY <1>7 DEF SetToSeqs
<1>9. MatchingIds(q) \in [1 .. n -> Vehicles]
    BY <1>1, <1>8
<1> QED
    BY <1>2, <1>8, <1>9

(* What k of the ids from offset on, looked at one by one, leave of them.  *)
PageShows(page, ids, offset, filters, k) ==
    LET stop == Min2(offset + k, Len(ids))
    IN  /\ page \in Seq(Vehicles)
        /\ Len(page) <= stop - offset
        /\ \A i \in offset + 1 .. stop :
              ids[i] \in unresolved \/ ids[i] \notin LetThrough(filters) \/ ids[i] \in ToSet(page)
        /\ unresolved = {} /\ (\A i \in DOMAIN ids : ids[i] \in LetThrough(filters)) =>
              /\ Len(page) = stop - offset
              /\ \A i \in 1 .. Len(page) : page[i] = ids[offset + i]

(* One more id keeps that.                                                 *)
LEMMA ShowsNext ==
    ASSUME NEW ids \in Seq(Vehicles), NEW offset \in 0 .. Len(ids), NEW filters,
           NEW k \in Nat \ {0}, NEW page, PageShows(page, ids, offset, filters, k - 1), NEW next,
           next = IF offset + k <= Len(ids) /\ ids[offset + k] \notin unresolved
                     /\ ids[offset + k] \in LetThrough(filters)
                  THEN Append(page, ids[offset + k]) ELSE page
    PROVE  PageShows(next, ids, offset, filters, k)
<1> DEFINE old == Min2(offset + (k - 1), Len(ids))
           stop == Min2(offset + k, Len(ids))
           clean == unresolved = {} /\ \A i \in DOMAIN ids : ids[i] \in LetThrough(filters)
<1>1. /\ Len(ids) \in Nat /\ offset \in Nat /\ offset <= Len(ids) /\ k - 1 \in Nat
      /\ DOMAIN ids = 1 .. Len(ids) /\ \A i \in 1 .. Len(ids) : ids[i] \in Vehicles
    OBVIOUS
<1>2. /\ page \in Seq(Vehicles) /\ Len(page) \in Nat /\ Len(page) <= old - offset
      /\ \A i \in offset + 1 .. old :
            ids[i] \in unresolved \/ ids[i] \notin LetThrough(filters) \/ ids[i] \in ToSet(page)
      /\ clean => Len(page) = old - offset /\ \A i \in 1 .. Len(page) : page[i] = ids[offset + i]
    BY DEF PageShows
<1>3. CASE ~ offset + k <= Len(ids)
    <2>1. old = Len(ids) /\ stop = Len(ids)
        <3>1. offset + k \in Nat /\ offset + (k - 1) \in Nat /\ ~ offset + (k - 1) < Len(ids)
              /\ ~ offset + k < Len(ids)
            BY <1>1, <1>3
        <3>2. Min2(offset + (k - 1), Len(ids)) = Len(ids)
            BY <3>1 DEF Min2
        <3>3. Min2(offset + k, Len(ids)) = Len(ids)
            BY <3>1 DEF Min2
        <3> QED
            BY <3>2, <3>3
    <2>2. next = page
        BY <1>3
    <2> HIDE DEF old, stop
    <2> QED
        BY <1>2, <2>1, <2>2 DEF PageShows, stop
<1>4. CASE offset + k <= Len(ids)
    <2> PICK v : v = ids[offset + k]
        OBVIOUS
    <2>1. old = offset + k - 1 /\ stop = offset + k /\ v \in Vehicles /\ offset + k \in 1 .. Len(ids)
        BY <1>1, <1>4 DEF Min2
    <2> HIDE DEF old, stop
    <2>2. \A i \in offset + 1 .. stop : i \in offset + 1 .. old \/ i = offset + k
        BY <1>1, <2>1
    <2>3. CASE v \notin unresolved /\ v \in LetThrough(filters)
        <3>1. next = Append(page, v)
            BY <1>4, <2>3
        <3>2. /\ next \in Seq(Vehicles) /\ Len(next) = Len(page) + 1 /\ next[Len(page) + 1] = v
              /\ \A i \in 1 .. Len(page) : next[i] = page[i]
            BY <1>2, <2>1, <3>1
        <3>3. ToSet(page) \subseteq ToSet(next) /\ v \in ToSet(next)
            <4>1. DOMAIN page = 1 .. Len(page) /\ DOMAIN next = 1 .. (Len(page) + 1)
                BY <1>2, <3>2
            <4>2. \A i \in 1 .. Len(page) : i \in 1 .. (Len(page) + 1)
                BY <1>2
            <4>3. Len(page) + 1 \in 1 .. (Len(page) + 1)
                BY <1>2
            <4> QED
                BY <3>2, <4>1, <4>2, <4>3 DEF ToSet
        <3>4. Len(next) <= stop - offset
            BY <1>1, <1>2, <2>1, <3>2
        <3>5. \A i \in offset + 1 .. stop :
                 ids[i] \in unresolved \/ ids[i] \notin LetThrough(filters) \/ ids[i] \in ToSet(next)
            BY <1>2, <2>2, <3>3
        <3>6. clean => Len(next) = stop - offset /\ \A i \in 1 .. Len(next) : next[i] = ids[offset + i]
            <4>1. SUFFICES ASSUME clean
                           PROVE  Len(next) = stop - offset
                                  /\ \A i \in 1 .. Len(next) : next[i] = ids[offset + i]
                OBVIOUS
            <4>2. Len(page) = old - offset /\ \A i \in 1 .. Len(page) : page[i] = ids[offset + i]
                BY <1>2, <4>1
            <4>3. Len(page) + 1 = k /\ Len(next) = stop - offset
                BY <1>1, <2>1, <3>2, <4>2
            <4>4. \A i \in 1 .. Len(next) : i \in 1 .. Len(page) \/ i = Len(page) + 1
                BY <1>2, <3>2
            <4> QED
                BY <3>2, <4>2, <4>3, <4>4
        <3> QED
            BY <3>2, <3>4, <3>5, <3>6 DEF PageShows, stop
    <2>4. CASE v \in unresolved \/ v \notin LetThrough(filters)
        <3>1. next = page /\ ~ clean
            BY <1>1, <2>1, <2>4
        <3>2. Len(next) <= stop - offset
            BY <1>1, <1>2, <2>1, <3>1
        <3>3. \A i \in offset + 1 .. stop :
                 ids[i] \in unresolved \/ ids[i] \notin LetThrough(filters) \/ ids[i] \in ToSet(next)
            BY <1>2, <2>2, <2>4, <3>1
        <3> QED
            BY <1>2, <3>1, <3>2, <3>3 DEF PageShows, stop
    <2> QED
        BY <2>3, <2>4
<1> QED
    BY <1>3, <1>4

(* So a page advances by what it shows, and when nothing is missing it     *)
(* shows just what it advances over.                                       *)
LEMMA PageFacts ==
    ASSUME NEW ids \in Seq(Vehicles), NEW offset \in 0 .. Len(ids), NEW filters
    PROVE  PageShows(Page(ids, offset, filters), ids, offset, filters, PageSize)
<1> DEFINE N == PageSize
           Add(p, n) == IF offset + n <= Len(ids) /\ ids[offset + n] \notin unresolved
                           /\ ids[offset + n] \in LetThrough(filters)
                        THEN Append(p, ids[offset + n]) ELSE p
           step == [p \in Seq(Vehicles) \X (1 .. N) |-> Add(p[1], p[2])]
           Body(g) == [n \in 0 .. N |-> IF n = 0 THEN <<>> ELSE Add(g[n - 1], n)]
           page == CHOOSE g : g = Body(g)
<1>1. N \in Nat /\ Len(ids) \in Nat /\ offset \in Nat /\ \A n \in 1 .. Len(ids) : ids[n] \in Vehicles
    BY ChatAssumption
<1>2. <<>> \in Seq(Vehicles)
    OBVIOUS
<1>3. ASSUME NEW p \in Seq(Vehicles), NEW n \in 1 .. N
      PROVE  Add(p, n) \in Seq(Vehicles)
    <2>1. offset + n <= Len(ids) => offset + n \in 1 .. Len(ids)
        BY <1>1
    <2> QED
        BY <1>1, <2>1
<1> HIDE DEF Add
<1>4. step \in [Seq(Vehicles) \X (1 .. N) -> Seq(Vehicles)]
    BY <1>3
<1>5. PICK h \in [0 .. N -> Seq(Vehicles)] : h[0] = <<>> /\ \A i \in 1 .. N : h[i] = step[<<h[i - 1], i>>]
    <2> HIDE DEF step, N
    <2>1. \E h : Unrolls(h, Seq(Vehicles), <<>>, N, step)
        BY <1>1, <1>2, <1>4, RecursionExists
    <2> QED
        BY <2>1 DEF Unrolls
<1>6. \A i \in 1 .. N : i # 0 /\ i - 1 \in 0 .. N /\ i \in 0 .. N
    BY <1>1
<1>7. \A p \in Seq(Vehicles), i \in 1 .. N : step[<<p, i>>] = Add(p, i)
    OBVIOUS
<1>8. h = Body(h)
    <2>1. \A n \in 0 .. N : n = 0 \/ n \in 1 .. N
        BY <1>1
    <2>2. \A n \in 1 .. N : h[n] = Add(h[n - 1], n)
        <3> HIDE DEF step, N
        <3> QED
            BY <1>5, <1>6, <1>7
    <2>3. \A n \in 0 .. N : h[n] = Body(h)[n]
        BY <1>5, <2>1, <2>2
    <2> HIDE DEF N
    <2> QED
        BY <1>5, <2>3
<1>9. page = Body(page)
    <2> HIDE DEF Body
    <2>1. \E g : g = Body(g)
        BY <1>8
    <2> QED
        BY <2>1
<1> HIDE DEF page
<1>10. page[0] = <<>> /\ \A i \in 1 .. N : page[i] = Add(page[i - 1], i)
    <2>1. \A n \in 0 .. N : page[n] = IF n = 0 THEN <<>> ELSE Add(page[n - 1], n)
        BY <1>9
    <2>2. 0 \in 0 .. N
        BY <1>1
    <2> HIDE DEF N
    <2> QED
        BY <1>6, <2>1, <2>2
<1> DEFINE Bad == {n \in 0 .. N : ~ PageShows(page[n], ids, offset, filters, n)}
<1>11. Bad = {}
    <2> SUFFICES ASSUME Bad # {}
                 PROVE  FALSE
        OBVIOUS
    <2>1. PICK m \in Bad : \A n \in Bad : m <= n
        <3>1. Bad \in SUBSET Nat
            BY <1>1
        <3> HIDE DEF Bad
        <3> QED
            BY <3>1, LeastNat
    <2>2. PageShows(page[0], ids, offset, filters, 0)
        <3>1. Min2(offset + 0, Len(ids)) = offset
            BY <1>1 DEF Min2
        <3>2. Len(<<>>) = 0 /\ offset - offset = 0 /\ \A i \in 1 .. 0 : FALSE
            BY <1>1
        <3>3. \A i \in offset + 1 .. offset : FALSE
            BY <1>1
        <3> QED
            BY <1>2, <1>10, <3>1, <3>2, <3>3 DEF PageShows
    <2>3. m \in 1 .. N /\ m - 1 \in 0 .. N /\ m - 1 \notin Bad /\ m \in Nat \ {0}
        <3>1. m # 0 /\ m \in 0 .. N
            BY <2>2
        <3>2. m \in 1 .. N /\ m - 1 \in 0 .. N /\ m \in Nat \ {0} /\ ~ m <= m - 1
            BY <1>1, <3>1
        <3> HIDE DEF Bad
        <3> QED
            BY <2>1, <3>2
    <2>4. PageShows(page[m - 1], ids, offset, filters, m - 1)
        BY <2>3
    <2>5. page[m] = Add(page[m - 1], m)
        <3> HIDE DEF N, Bad
        <3> QED
            BY <1>10, <2>3
    <2>6. PageShows(page[m], ids, offset, filters, m)
        <3> HIDE DEF Bad, N
        <3> QED
            BY <2>3, <2>4, <2>5, ShowsNext DEF Add
    <2> QED
        BY <2>6
<1>12. N \in 0 .. N
    BY <1>1
<1>13. Page(ids, offset, filters) = page[N]
    BY DEF Page, page, Add
<1> QED
    BY <1>11, <1>12, <1>13

(* What a conversation may go on from: the ids of a question, and an offset*)
(* before which all of them were shown if they can be.                     *)
ChatCoherent(c, noEvidence, told) ==
    /\ c.ids \in Seq(Vehicles) /\ c.question \in Questions /\ c.offset \in 0 .. Len(c.ids)
    /\ c.answer \in 0 .. MaxAnswers /\ (c.ids # <<>> => c.answer # 0)
    /\ \A i \in DOMAIN c.ids : c.ids[i] \in Selected(c.question)
    /\ \A i \in 1 .. c.offset :
            c.ids[i] \in Passed(c.question) => c.ids[i] \in noEvidence \cup told[c.answer]

ChatBusy(r) == inFlight[r].at # "idle"

(* A request has read such a context, and goes on only in what it found.   *)
RequestFits(theirs, noEvidence, told) ==
    /\ theirs = [at |-> theirs.at, context |-> theirs.context, message |-> theirs.message]
    /\ ChatCoherent(theirs.context, noEvidence, told)
    /\ theirs.message.kind \in {"chat", "next", "restart", "ask"}
    /\ theirs.message.question \in Questions
    /\ theirs.message.kind # "ask" => theirs.message.show = TRUE
    /\ theirs.message.kind \in {"next", "restart"} => theirs.context.ids # <<>>

(* As long as requests never overlapped, the one in progress has read the  *)
(* session as it is.                                                       *)
SerialRequests ==
    ~ overlapped => \A r \in ChatThreads : ChatBusy(r) =>
        /\ inFlight[r].context = session
        /\ \A q \in ChatThreads : ChatBusy(q) => q = r

(* Then the trail is what the session's offset has moved past.             *)
TrailIsExact ==
    ~ overlapped /\ unresolved = {} /\ Selected(session.question) \subseteq Passed(session.question)
        => trail = SubSeq(session.ids, 1, session.offset)

ChatInv ==
    /\ answers \in 0 .. MaxAnswers /\ DOMAIN shown = 1 .. MaxAnswers
    /\ DOMAIN inFlight = ChatThreads
    /\ ChatCoherent(session, unresolved, shown)
    /\ \A r \in ChatThreads : ChatBusy(r) => RequestFits(inFlight[r], unresolved, shown)
    /\ SerialRequests /\ TrailIsExact

(* Showing more vehicles leaves every context coherent.                    *)
LEMMA CoherentGrows ==
    ASSUME NEW c, NEW noEvidence, NEW told, NEW toldNow, ChatCoherent(c, noEvidence, told),
           \A a \in 1 .. MaxAnswers : told[a] \subseteq toldNow[a]
    PROVE  ChatCoherent(c, noEvidence, toldNow)
<1>1. \A i \in 1 .. c.offset :
         c.ids[i] \in Passed(c.question) => c.ids[i] \in noEvidence \cup toldNow[c.answer]
    <2> SUFFICES ASSUME NEW i \in 1 .. c.offset, c.ids[i] \in Passed(c.question)
                 PROVE  c.ids[i] \in noEvidence \cup toldNow[c.answer]
        OBVIOUS
    <2>1. c.ids \in Seq(Vehicles) /\ c.offset \in 0 .. Len(c.ids) /\ c.answer \in 0 .. MaxAnswers
        BY DEF ChatCoherent
    <2>2. c.ids # <<>>
        BY <2>1
    <2>3. c.answer \in 1 .. MaxAnswers
        BY <2>1, <2>2, ChatAssumption DEF ChatCoherent
    <2> QED
        BY <2>3 DEF ChatCoherent
<1> QED
    BY <1>1 DEF ChatCoherent

(* A page shows all it moves past that can be shown, and nothing but that  *)
(* when no evidence is missing.                                            *)
PageMoves(ids, offset, filters, shows, after) ==
    /\ after \in offset .. Len(ids)
    /\ \A i \in offset + 1 .. after :
          ids[i] \in LetThrough(filters) => ids[i] \in unresolved \cup ToSet(shows)
    /\ (\A i \in DOMAIN ids : ids[i] \in LetThrough(filters)) /\ unresolved = {} =>
          shows = SubSeq(ids, offset + 1, after)

(* So does the page of an answer.                                          *)
LEMMA PageAdvances ==
    ASSUME NEW ids \in Seq(Vehicles), NEW offset \in 0 .. Len(ids), NEW filters, NEW shows,
           shows = Page(ids, offset, filters), NEW after, after = NextOffset(Len(ids), offset, Len(shows))
    PROVE  PageMoves(ids, offset, filters, shows, after)
<1> DEFINE stop == Min2(offset + PageSize, Len(ids))
<1>1. Len(ids) \in Nat /\ offset \in Nat /\ offset <= Len(ids) /\ PageSize \in Nat
    BY ChatAssumption
<1>2. stop \in offset .. Len(ids)
    BY <1>1 DEF Min2
<1>3. PageShows(shows, ids, offset, filters, PageSize)
    BY PageFacts
<1>4. /\ shows \in Seq(Vehicles) /\ Len(shows) \in Nat /\ Len(shows) <= stop - offset
      /\ \A i \in offset + 1 .. stop :
            ids[i] \in unresolved \/ ids[i] \notin LetThrough(filters) \/ ids[i] \in ToSet(shows)
      /\ unresolved = {} /\ (\A i \in DOMAIN ids : ids[i] \in LetThrough(filters)) =>
            Len(shows) = stop - offset /\ \A i \in 1 .. Len(shows) : shows[i] = ids[offset + i]
    BY <1>3 DEF PageShows
<1> HIDE DEF stop
<1>5. after = offset + Len(shows) /\ after \in offset .. stop
    BY <1>1, <1>2, <1>4 DEF NextOffset, Min2
<1>6. \A i \in offset + 1 .. after :
         ids[i] \in LetThrough(filters) => ids[i] \in unresolved \cup ToSet(shows)
    <2> SUFFICES ASSUME NEW i \in offset + 1 .. after, ids[i] \in LetThrough(filters)
                 PROVE  ids[i] \in unresolved \cup ToSet(shows)
        OBVIOUS
    <2>1. i \in offset + 1 .. stop /\ i \in DOMAIN ids
        BY <1>1, <1>2, <1>5
    <2> QED
        BY <1>4, <2>1
<1>7. ASSUME \A i \in DOMAIN ids : ids[i] \in LetThrough(filters), unresolved = {}
      PROVE  shows = SubSeq(ids, offset + 1, after)
    <2>1. Len(shows) = stop - offset /\ \A i \in 1 .. Len(shows) : shows[i] = ids[offset + i]
        BY <1>4, <1>7
    <2>2. \A i \in offset + 1 .. after : ids[i] \in Vehicles
        BY <1>1, <1>2, <1>5
    <2> PICK rest : rest = SubSeq(ids, offset + 1, after)
        OBVIOUS
    <2>3. /\ rest \in Seq(Vehicles)
          /\ Len(rest) = IF offset + 1 <= after THEN after - (offset + 1) + 1 ELSE 0
          /\ \A i \in 1 .. after - (offset + 1) + 1 : rest[i] = ids[offset + 1 + i - 1]
        <3>1. offset + 1 \in Int /\ after \in Int
            BY <1>1, <1>5, <1>2
        <3> QED
            BY <2>2, <3>1, SubSeqProperties
    <2>4. Len(rest) = Len(shows)
        BY <1>1, <1>4, <1>5, <2>3
    <2>5. \A i \in 1 .. Len(shows) : rest[i] = ids[offset + i]
        <3>1. \A i \in 1 .. Len(shows) : i \in 1 .. after - (offset + 1) + 1 /\ offset + 1 + i - 1 = offset + i
            BY <1>1, <1>4, <1>5
        <3> QED
            BY <2>3, <3>1
    <2>6. rest = shows
        BY <1>4, <2>1, <2>3, <2>4, <2>5, SeqEqual
    <2> QED
        BY <2>6
<1> QED
    BY <1>1, <1>2, <1>5, <1>6, <1>7 DEF PageMoves

(* At first there is nothing to go on from.                                *)
LEMMA ChatInitially ==
    ChatInit => ChatInv
<1> SUFFICES ASSUME ChatInit
             PROVE  ChatInv
    OBVIOUS
<1>1. MaxAnswers \in Nat /\ 0 \in 0 .. MaxAnswers
    BY ChatAssumption
<1>2. session.ids = <<>> /\ session.offset = 0 /\ session.question = "any" /\ session.answer = 0
    BY DEF ChatInit, NoContext
<1>3. \A r \in ChatThreads : ~ ChatBusy(r)
    BY DEF ChatInit, ChatBusy
<1>4. <<>> \in Seq(Vehicles) /\ Len(<<>>) = 0 /\ 0 \in 0 .. 0 /\ \A i \in DOMAIN <<>> : FALSE
    OBVIOUS
<1>5. ChatCoherent(session, unresolved, shown)
    BY <1>1, <1>2, <1>4 DEF ChatCoherent, Questions
<1>6. trail = SubSeq(session.ids, 1, session.offset)
    <2>1. SubSeq(<<>>, 1, 0) = <<>>
        BY SubSeqEmpty
    <2> QED
        BY <1>2, <2>1 DEF ChatInit
<1> QED
    BY <1>1, <1>3, <1>5, <1>6 DEF ChatInit, ChatInv, SerialRequests, TrailIsExact

(* A request that comes in reads the session as it is.                     *)
LEMMA PostKeeps ==
    ASSUME ChatInv, NEW r \in ChatThreads, Post(r)
    PROVE  ChatInv'
<1> PICK message \in [kind : {"chat", "next", "restart", "ask"}, question : Questions, show : BOOLEAN] :
        /\ message.kind \in {"next", "restart"} => session.ids # <<>>
        /\ message.kind # "ask" => message.question = "any" /\ message.show
        /\ inFlight' = [inFlight EXCEPT ![r] =
              [at |-> IF message.kind = "ask" THEN "plan" ELSE "answer",
               context |-> session, message |-> message]]
    BY DEF Post
<1> PICK mine : mine = [at |-> IF message.kind = "ask" THEN "plan" ELSE "answer",
                        context |-> session, message |-> message]
    OBVIOUS
<1>1. /\ overlapped' = (overlapped \/ \E q \in ChatThreads : inFlight[q].at # "idle")
      /\ session' = session /\ unresolved' = unresolved /\ answers' = answers /\ shown' = shown
      /\ trail' = trail
    BY DEF Post
<1>2. DOMAIN inFlight' = ChatThreads /\ inFlight'[r] = mine
      /\ \A q \in ChatThreads \ {r} : inFlight'[q] = inFlight[q]
    BY DEF ChatInv
<1>3. /\ mine.at # "idle" /\ mine.context = session /\ mine.message = message
      /\ mine = [at |-> mine.at, context |-> mine.context, message |-> mine.message]
    OBVIOUS
<1>4. RequestFits(mine, unresolved, shown)
    BY <1>3 DEF RequestFits, ChatInv
<1>5. \A q \in ChatThreads : ChatBusy(q)' => RequestFits(inFlight'[q], unresolved, shown)
    <2>1. SUFFICES ASSUME NEW q \in ChatThreads, q # r, inFlight'[q].at # "idle"
                   PROVE  RequestFits(inFlight'[q], unresolved, shown)
        BY <1>2, <1>4 DEF ChatBusy
    <2>2. inFlight'[q] = inFlight[q] /\ ChatBusy(q)
        BY <1>2, <2>1 DEF ChatBusy
    <2> QED
        BY <2>2 DEF ChatInv
<1>6. SerialRequests'
    <2>1. ASSUME ~ overlapped', NEW q \in ChatThreads, ChatBusy(q)'
          PROVE  q = r
        BY <1>1, <1>2, <2>1 DEF ChatBusy
    <2> QED
        BY <1>1, <1>2, <1>3, <2>1 DEF SerialRequests
<1>7. TrailIsExact'
    BY <1>1 DEF TrailIsExact, ChatInv
<1> QED
    BY <1>1, <1>2, <1>5, <1>6, <1>7 DEF ChatInv

(* Nor does planning change what a request has read.                       *)
LEMMA PlanningKeeps ==
    ASSUME ChatInv, NEW r \in ChatThreads, NEW next, ChatBusy(r), next # "idle", Move(r, next),
           UNCHANGED <<session, unresolved, answers, shown, trail, overlapped>>
    PROVE  ChatInv'
<1> PICK old : old = inFlight[r]
    OBVIOUS
<1> PICK mine : mine = inFlight'[r]
    OBVIOUS
<1>1. old = [at |-> old.at, context |-> old.context, message |-> old.message]
    BY DEF ChatInv, RequestFits
<1>2. inFlight' = [inFlight EXCEPT ![r] = [inFlight[r] EXCEPT !.at = next]]
    BY DEF Move
<1>3. DOMAIN inFlight' = ChatThreads /\ mine = [old EXCEPT !.at = next]
      /\ \A q \in ChatThreads \ {r} : inFlight'[q] = inFlight[q]
    BY <1>2 DEF ChatInv
<1>4. mine = [at |-> next, context |-> old.context, message |-> old.message]
    BY <1>1, <1>3
<1>5. /\ mine.at = next /\ mine.context = old.context /\ mine.message = old.message
    BY <1>4
<1>6. RequestFits(mine, unresolved, shown)
    <2>1. RequestFits(old, unresolved, shown)
        BY DEF ChatInv
    <2> QED
        BY <1>4, <1>5, <2>1 DEF RequestFits
<1>7. \A q \in ChatThreads : ChatBusy(q)' <=> ChatBusy(q)
    BY <1>3, <1>5 DEF ChatBusy
<1>8. \A q \in ChatThreads : inFlight'[q].context = inFlight[q].context
    BY <1>3, <1>5
<1>9. \A q \in ChatThreads : ChatBusy(q)' => RequestFits(inFlight'[q], unresolved, shown)
    BY <1>3, <1>6, <1>7 DEF ChatInv
<1>10. SerialRequests'
    BY <1>7, <1>8 DEF SerialRequests, ChatInv
<1>11. TrailIsExact'
    BY DEF TrailIsExact, ChatInv
<1> QED
    BY <1>3, <1>9, <1>10, <1>11 DEF ChatInv

(* A request that ends takes nothing away from the others.                 *)
LEMMA EndKeepsRequests ==
    ASSUME ChatInv, NEW r \in ChatThreads, ChatBusy(r), overlapped' = overlapped,
           inFlight' = [inFlight EXCEPT ![r] = [at |-> "idle"]], unresolved' = unresolved,
           \A a \in 1 .. MaxAnswers : shown[a] \subseteq shown'[a]
    PROVE  /\ DOMAIN inFlight' = ChatThreads
           /\ \A q \in ChatThreads : ChatBusy(q)' => RequestFits(inFlight'[q], unresolved', shown')
           /\ SerialRequests'
<1>1. DOMAIN inFlight' = ChatThreads /\ inFlight'[r].at = "idle"
      /\ \A q \in ChatThreads \ {r} : inFlight'[q] = inFlight[q]
    BY DEF ChatInv
<1>2. \A q \in ChatThreads : ChatBusy(q)' => q # r /\ ChatBusy(q) /\ inFlight'[q] = inFlight[q]
    BY <1>1 DEF ChatBusy
<1>3. ASSUME NEW q \in ChatThreads, ChatBusy(q)'
      PROVE  RequestFits(inFlight'[q], unresolved', shown')
    <2> PICK theirs : theirs = inFlight[q]
        OBVIOUS
    <2>1. RequestFits(theirs, unresolved, shown) /\ inFlight'[q] = theirs
        BY <1>2, <1>3 DEF ChatInv
    <2>2. ChatCoherent(theirs.context, unresolved, shown)
        BY <2>1 DEF RequestFits
    <2> PICK read : read = theirs.context
        OBVIOUS
    <2>3. ChatCoherent(read, unresolved, shown')
        BY <2>2, CoherentGrows
    <2> QED
        BY <2>1, <2>3 DEF RequestFits
<1>4. SerialRequests'
    BY <1>2 DEF SerialRequests, ChatInv
<1> QED
    BY <1>1, <1>3, <1>4

(* The rule parser hands over a plan, or the request ends with status 400. *)
LEMMA FallbackKeeps ==
    ASSUME ChatInv, NEW r \in ChatThreads, Fallback(r)
    PROVE  ChatInv'
<1>1. inFlight[r].at = "fallback" /\ ChatBusy(r)
    BY DEF Fallback, ChatBusy
<1>2. UNCHANGED <<session, unresolved, answers, shown, trail, overlapped>>
    BY DEF Fallback
<1>3. CASE Move(r, "answer")
    BY <1>1, <1>2, <1>3, PlanningKeeps
<1>4. CASE inFlight' = [inFlight EXCEPT ![r] = [at |-> "idle"]]
    <2>1. \A a \in 1 .. MaxAnswers : shown[a] \subseteq shown'[a]
        BY <1>2
    <2>2. /\ DOMAIN inFlight' = ChatThreads
          /\ \A q \in ChatThreads : ChatBusy(q)' => RequestFits(inFlight'[q], unresolved', shown')
          /\ SerialRequests'
        BY <1>1, <1>2, <1>4, <2>1, EndKeepsRequests
    <2>3. TrailIsExact'
        BY <1>2 DEF TrailIsExact, ChatInv
    <2> QED
        BY <1>2, <2>2, <2>3 DEF ChatInv
<1> QED
    BY <1>3, <1>4 DEF Fallback

(* A greeting puts back a context that is as coherent as any.              *)
LEMMA GreetKeeps ==
    ASSUME ChatInv, NEW r \in ChatThreads, Greet(r)
    PROVE  ChatInv'
<1>1. ChatBusy(r) /\ answers < MaxAnswers /\ session' = inFlight[r].context
      /\ answers' = answers + 1
      /\ unresolved' = unresolved /\ shown' = shown /\ trail' = trail /\ overlapped' = overlapped
      /\ inFlight' = [inFlight EXCEPT ![r] = [at |-> "idle"]]
    BY DEF Greet, ChatBusy
<1>2. \A a \in 1 .. MaxAnswers : shown[a] \subseteq shown'[a]
    BY <1>1
<1>3. /\ DOMAIN inFlight' = ChatThreads
      /\ \A q \in ChatThreads : ChatBusy(q)' => RequestFits(inFlight'[q], unresolved', shown')
      /\ SerialRequests'
    BY <1>1, <1>2, EndKeepsRequests
<1>4. ChatCoherent(session', unresolved, shown)
    BY <1>1 DEF ChatInv, RequestFits
<1>5. TrailIsExact'
    <2>1. ~ overlapped => session' = session
        BY <1>1 DEF ChatInv, SerialRequests
    <2> QED
        BY <1>1, <2>1 DEF TrailIsExact, ChatInv
<1>6. answers' \in 0 .. MaxAnswers
    BY <1>1, ChatAssumption DEF ChatInv
<1> QED
    BY <1>1, <1>3, <1>4, <1>5, <1>6 DEF ChatInv

(* What an answer shows of coherent ids, and where it leaves the offset.   *)
LEMMA AnswerIsCoherent ==
    ASSUME NEW ids \in Seq(Vehicles), NEW question \in Questions, NEW answer \in 0 .. MaxAnswers,
           ids # <<>> => answer # 0,
           \A i \in DOMAIN ids : ids[i] \in Selected(question),
           NEW offset \in 0 .. Len(ids), NEW told,
           \A i \in 1 .. offset : ids[i] \in Passed(question) => ids[i] \in unresolved \cup told[answer],
           NEW filters, Passed(question) \subseteq LetThrough(filters),
           NEW shows, shows = Page(ids, offset, filters),
           NEW toldNow, answer \in 1 .. MaxAnswers => toldNow[answer] = told[answer] \cup ToSet(shows),
           NEW after, after = NextOffset(Len(ids), offset, Len(shows)),
           NEW c, c = [ids |-> ids, question |-> question, offset |-> after, answer |-> answer]
    PROVE  ChatCoherent(c, unresolved, toldNow)
<1>1. c.ids = ids /\ c.question = question /\ c.offset = after /\ c.answer = answer
    OBVIOUS
<1>2. Len(ids) \in Nat /\ offset \in Nat /\ offset <= Len(ids)
    OBVIOUS
<1>3. /\ after \in offset .. Len(ids)
      /\ \A i \in offset + 1 .. after :
            ids[i] \in LetThrough(filters) => ids[i] \in unresolved \cup ToSet(shows)
    <2>1. PageMoves(ids, offset, filters, shows, after)
        BY PageAdvances
    <2> QED
        BY <2>1 DEF PageMoves
<1>4. ASSUME NEW i \in 1 .. after, ids[i] \in Passed(question)
      PROVE  ids[i] \in unresolved \cup toldNow[answer]
    <2>1. i \in 1 .. offset \/ i \in offset + 1 .. after
        BY <1>2, <1>3
    <2>2. ids # <<>>
        BY <1>2, <1>3
    <2>3. toldNow[answer] = told[answer] \cup ToSet(shows)
        <3>1. answer \in 1 .. MaxAnswers
            BY <2>2, ChatAssumption
        <3> QED
            BY <3>1
    <2>4. ids[i] \in LetThrough(filters)
        BY <1>4
    <2> QED
        BY <1>3, <1>4, <2>1, <2>3, <2>4
<1>5. after \in 0 .. Len(ids)
    BY <1>2, <1>3
<1>6. ChatCoherent(c, unresolved, toldNow)
    BY <1>1, <1>4, <1>5 DEF ChatCoherent
<1> QED
    BY <1>6

(* An answer moves on from a coherent context to one.                      *)
LEMMA AnswerKeeps ==
    ASSUME ChatInv, NEW r \in ChatThreads, Answer(r)
    PROVE  ChatInv'
<1>a. PICK message : message = inFlight[r].message
    OBVIOUS
<1>b. PICK context : context = inFlight[r].context
    OBVIOUS
<1> DEFINE goesOn == message.kind # "ask"
<1>c. PICK ids : ids = IF goesOn THEN context.ids ELSE MatchingIds(message.question)
    OBVIOUS
<1>d. PICK filters : filters = IF goesOn THEN Remembered(context.question) ELSE message.question
    OBVIOUS
<1>e. PICK question : question = IF goesOn THEN context.question ELSE message.question
    OBVIOUS
<1>f. PICK offset : offset = EvidenceOffset(message, context)
    OBVIOUS
<1>g. PICK page : page = IF message.show THEN Page(ids, offset, filters) ELSE <<>>
    OBVIOUS
<1>h. PICK answer : answer = IF goesOn THEN context.answer ELSE answers + 1
    OBVIOUS
<1>i. PICK after : after = IF message.show THEN NextOffset(Len(ids), offset, Len(page)) ELSE 0
    OBVIOUS
<1>1. /\ ChatBusy(r) /\ message.kind # "chat" /\ answers < MaxAnswers
      /\ session' = [ids |-> ids, question |-> question, offset |-> after, answer |-> answer]
      /\ answers' = answers + 1
      /\ shown' = [shown EXCEPT ![answer] = @ \cup ToSet(page)]
      /\ trail' = IF message.kind = "next" THEN trail \o page ELSE page
      /\ inFlight' = [inFlight EXCEPT ![r] = [at |-> "idle"]]
      /\ unresolved' = unresolved /\ overlapped' = overlapped
    BY <1>a, <1>b, <1>c, <1>d, <1>e, <1>f, <1>g, <1>h, <1>i DEF Answer, ChatBusy
<1>2. RequestFits(inFlight[r], unresolved, shown)
    BY <1>1 DEF ChatInv
<1>3. /\ ChatCoherent(context, unresolved, shown)
      /\ message.kind \in {"next", "restart", "ask"} /\ message.question \in Questions
      /\ goesOn => message.show = TRUE /\ context.ids # <<>>
    BY <1>a, <1>b, <1>1, <1>2 DEF RequestFits
<1>4. /\ context.ids \in Seq(Vehicles) /\ context.question \in Questions
      /\ context.offset \in 0 .. Len(context.ids)
      /\ context.answer \in 0 .. MaxAnswers /\ (context.ids # <<>> => context.answer # 0)
      /\ \A i \in DOMAIN context.ids : context.ids[i] \in Selected(context.question)
      /\ \A i \in 1 .. context.offset : context.ids[i] \in Passed(context.question) =>
            context.ids[i] \in unresolved \cup shown[context.answer]
    BY <1>3 DEF ChatCoherent
<1>5. ids \in Seq(Vehicles) /\ question \in Questions /\ \A i \in DOMAIN ids : ids[i] \in Selected(question)
    BY <1>c, <1>e, <1>3, <1>4, MatchingFacts
<1>6. answers \in 0 .. MaxAnswers /\ MaxAnswers \in Nat /\ DOMAIN shown = 1 .. MaxAnswers
    BY ChatAssumption DEF ChatInv
<1>7. answer \in 1 .. MaxAnswers /\ answers' \in 0 .. MaxAnswers
    BY <1>h, <1>1, <1>3, <1>4, <1>6
<1>8. Passed(question) \subseteq LetThrough(filters)
    BY <1>d, <1>e DEF Passed
<1>9. /\ offset \in 0 .. Len(ids)
      /\ \A i \in 1 .. offset : ids[i] \in Passed(question) => ids[i] \in unresolved \cup shown[answer]
    <2>1. Len(ids) \in Nat
        BY <1>5
    <2>2. CASE message.kind = "next"
        BY <1>c, <1>e, <1>f, <1>h, <1>4, <2>2 DEF EvidenceOffset
    <2>3. CASE message.kind # "next"
        <3>1. offset = 0
            BY <1>f, <2>3 DEF EvidenceOffset
        <3> QED
            BY <2>1, <3>1
    <2> QED
        BY <2>2, <2>3
<1>10. /\ shown'[answer] = shown[answer] \cup ToSet(page)
       /\ DOMAIN shown' = 1 .. MaxAnswers
       /\ \A a \in 1 .. MaxAnswers : shown[a] \subseteq shown'[a]
    BY <1>1, <1>6, <1>7
<1>11. /\ DOMAIN inFlight' = ChatThreads
       /\ \A q \in ChatThreads : ChatBusy(q)' => RequestFits(inFlight'[q], unresolved', shown')
       /\ SerialRequests'
    BY <1>1, <1>10, EndKeepsRequests
<1>12. ChatCoherent(session', unresolved, shown')
    <2>1. CASE message.show
        <3>1. page = Page(ids, offset, filters) /\ after = NextOffset(Len(ids), offset, Len(page))
            BY <1>g, <1>i, <2>1
        <3> PICK toldNow : toldNow = shown'
            OBVIOUS
        <3> PICK c : c = [ids |-> ids, question |-> question, offset |-> after, answer |-> answer]
            OBVIOUS
        <3>2. answer \in 0 .. MaxAnswers /\ (ids # <<>> => answer # 0)
            BY <1>6, <1>7
        <3>3. toldNow[answer] = shown[answer] \cup ToSet(page)
            BY <1>10
        <3>4. ChatCoherent(c, unresolved, toldNow)
            BY <1>5, <1>8, <1>9, <3>1, <3>2, <3>3, AnswerIsCoherent
        <3> QED
            BY <1>1, <3>4
    <2>2. CASE ~ message.show
        <3>1. after = 0
            BY <1>i, <2>2
        <3>2. /\ session'.ids = ids /\ session'.question = question /\ session'.offset = 0
              /\ session'.answer = answer
            BY <1>1, <3>1
        <3>3. 0 \in 0 .. Len(ids) /\ answer \in 0 .. MaxAnswers /\ answer # 0 /\ \A i \in 1 .. 0 : FALSE
            BY <1>5, <1>6, <1>7
        <3> QED
            BY <1>5, <3>2, <3>3 DEF ChatCoherent
    <2> QED
        BY <2>1, <2>2
<1>13. TrailIsExact'
    <2>1. SUFFICES ASSUME ~ overlapped, unresolved = {}, Selected(question) \subseteq Passed(question)
                   PROVE  trail' = SubSeq(ids, 1, after)
        BY <1>1 DEF TrailIsExact
    <2>2. context = session
        BY <1>b, <1>1, <2>1 DEF ChatInv, SerialRequests
    <2>3. CASE ~ message.show
        <3>1. page = <<>> /\ after = 0 /\ message.kind = "ask"
            BY <1>g, <1>i, <1>3, <2>3
        <3>2. SubSeq(ids, 1, 0) = <<>>
            BY SubSeqEmpty
        <3> QED
            BY <1>1, <3>1, <3>2
    <2>4. CASE message.show
        <3>1. page = Page(ids, offset, filters) /\ after = NextOffset(Len(ids), offset, Len(page))
            BY <1>g, <1>i, <2>4
        <3>2. /\ after \in offset .. Len(ids)
              /\ (\A i \in DOMAIN ids : ids[i] \in LetThrough(filters)) /\ unresolved = {} =>
                    page = SubSeq(ids, offset + 1, after)
            <4>1. PageMoves(ids, offset, filters, page, after)
                BY <1>5, <1>9, <3>1, PageAdvances
            <4> QED
                BY <4>1 DEF PageMoves
        <3>3. page = SubSeq(ids, offset + 1, after)
            BY <1>5, <1>8, <2>1, <3>2
        <3>4. CASE message.kind = "next"
            <4>1. offset = session.offset /\ ids = session.ids /\ question = session.question
                BY <1>c, <1>e, <1>f, <2>2, <3>4 DEF EvidenceOffset
            <4>2. trail = SubSeq(ids, 1, offset)
                BY <2>1, <4>1 DEF TrailIsExact, ChatInv
            <4>3. SubSeq(ids, 1, offset) \o SubSeq(ids, offset + 1, after) = SubSeq(ids, 1, after)
                <5>1. 1 \in 1 .. Len(ids) + 1 /\ offset \in 1 - 1 .. Len(ids) /\ after \in offset .. Len(ids)
                    BY <1>5, <1>9, <3>2
                <5> QED
                    BY <1>5, <5>1, ConcatAdjacentSubSeq
            <4> QED
                BY <1>1, <3>3, <3>4, <4>2, <4>3
        <3>5. CASE message.kind # "next"
            <4>1. offset = 0 /\ offset + 1 = 1
                BY <1>f, <3>5 DEF EvidenceOffset
            <4> QED
                BY <1>1, <3>3, <3>5, <4>1
        <3> QED
            BY <3>4, <3>5
    <2> QED
        BY <2>3, <2>4
<1> QED
    BY <1>1, <1>7, <1>10, <1>11, <1>12, <1>13 DEF ChatInv

(* Every step of a conversation keeps that.                                *)
LEMMA ChatStep ==
    ChatInv /\ [ChatNext]_chatVars => ChatInv'
<1> SUFFICES ASSUME ChatInv, [ChatNext]_chatVars
             PROVE  ChatInv'
    OBVIOUS
<1>1. ASSUME NEW r \in ChatThreads, Post(r)
      PROVE  ChatInv'
    BY <1>1, PostKeeps
<1>2. ASSUME NEW r \in ChatThreads, FirstAttempt(r) \/ SecondAttempt(r)
      PROVE  ChatInv'
    <2>1. PICK next \in {"answer", "retry", "fallback"} : Move(r, next)
        BY <1>2 DEF FirstAttempt, SecondAttempt
    <2>2. ChatBusy(r) /\ next # "idle"
        BY <1>2 DEF FirstAttempt, SecondAttempt, ChatBusy
    <2>3. UNCHANGED <<session, unresolved, answers, shown, trail, overlapped>>
        BY <1>2 DEF FirstAttempt, SecondAttempt
    <2> QED
        BY <2>1, <2>2, <2>3, PlanningKeeps
<1>3. ASSUME NEW r \in ChatThreads, Fallback(r)
      PROVE  ChatInv'
    BY <1>3, FallbackKeeps
<1>4. ASSUME NEW r \in ChatThreads, Greet(r)
      PROVE  ChatInv'
    BY <1>4, GreetKeeps
<1>5. ASSUME NEW r \in ChatThreads, Answer(r)
      PROVE  ChatInv'
    BY <1>5, AnswerKeeps
<1>6. CASE UNCHANGED chatVars
    <2>1. /\ session' = session /\ inFlight' = inFlight /\ unresolved' = unresolved /\ answers' = answers
          /\ shown' = shown /\ trail' = trail /\ overlapped' = overlapped
        BY <1>6 DEF chatVars
    <2> QED
        BY <2>1 DEF ChatInv, SerialRequests, TrailIsExact, ChatBusy
<1> QED
    BY <1>1, <1>2, <1>3, <1>4, <1>5, <1>6 DEF ChatNext

(* A conversation skips no vehicle that every page of its question would   *)
(* let through, and a client that waits for each answer is shown every     *)
(* match once and in order, if the question's plan loses nothing in its    *)
(* conversion (resolve_vehicle_evidence, _evidence_matches_query and the   *)
(* next-page offset).                                                      *)
THEOREM ChatPagesTheorem ==
    ChatSpec => [](NothingIsSkipped /\ SerialPagesAreExact)
<1>1. ChatInv => NothingIsSkipped /\ SerialPagesAreExact
    BY DEF ChatInv, ChatCoherent, NothingIsSkipped, SerialPagesAreExact, TrailIsExact
<1> QED
    BY <1>1, ChatInitially, ChatStep, PTL DEF ChatSpec

-----------------------------------------------------------------------------
(* QueryPlans: filters                                                     *)

(* A path that starts with a step.                                         *)
LEMMA StepFirst ==
    ASSUME NEW n \in Nat, NEW p \in Seq(Nat)
    PROVE  /\ <<n>> \o p \in Seq(Nat) /\ <<n>> \o p # <<>>
           /\ Len(<<n>> \o p) = Len(p) + 1
           /\ Head(<<n>> \o p) = n /\ Tail(<<n>> \o p) = p
           /\ (<<n>> \o p)[1] = n
           /\ \A i \in 1 .. Len(p) : (<<n>> \o p)[i + 1] = p[i]
<1> DEFINE s == <<n>> \o p
<1>1. s \in Seq(Nat) /\ Len(s) = Len(p) + 1 /\ Len(p) \in Nat
    OBVIOUS
<1>2. s[1] = n /\ \A i \in 1 .. Len(p) : s[i + 1] = p[i]
    OBVIOUS
<1>3. s # <<>> /\ Head(s) = n
    BY <1>1, <1>2
<1>4. Tail(s) = p
    <2>1. Tail(s) \in Seq(Nat) /\ Len(Tail(s)) = Len(p)
             /\ \A i \in 1 .. Len(p) : Tail(s)[i] = s[i + 1]
        <3> HIDE DEF s
        <3> QED
            BY <1>1, <1>3, TailFacts
    <2> HIDE DEF s
    <2>2. \A i \in 1 .. Len(p) : Tail(s)[i] = p[i]
        BY <1>2, <2>1
    <2> QED
        BY <2>1, <2>2, SeqEqual
<1> QED
    BY <1>1, <1>2, <1>3, <1>4

(* The beginning of a path.                                                *)
LEMMA PathBegins ==
    ASSUME NEW p \in Seq(Nat), NEW k \in 0 .. Len(p)
    PROVE  /\ SubSeq(p, 1, k) \in Seq(Nat) /\ Len(SubSeq(p, 1, k)) = k
           /\ \A i \in 1 .. k : SubSeq(p, 1, k)[i] = p[i]
           /\ k = 0 => SubSeq(p, 1, k) = <<>>
<1>1. Len(p) \in Nat /\ k \in Nat /\ k <= Len(p)
    OBVIOUS
<1>2. SubSeq(p, 1, k) \in Seq(Nat) /\ Len(SubSeq(p, 1, k)) = k
        /\ \A i \in 1 .. k : SubSeq(p, 1, k)[i] = p[i]
    BY <1>1, SubSeqProperties
<1> QED
    BY <1>2

(* The beginning of a path that starts with a step.                        *)
LEMMA StepFirstBegins ==
    ASSUME NEW n \in Nat, NEW p \in Seq(Nat), NEW k \in 0 .. Len(p)
    PROVE  SubSeq(<<n>> \o p, 1, k + 1) = <<n>> \o SubSeq(p, 1, k)
<1> DEFINE s == <<n>> \o p  b == SubSeq(p, 1, k)  t == SubSeq(s, 1, k + 1)  u == <<n>> \o b
<1>1. s \in Seq(Nat) /\ Len(s) = Len(p) + 1 /\ s[1] = n /\ \A i \in 1 .. Len(p) : s[i + 1] = p[i]
    BY StepFirst
<1>2. b \in Seq(Nat) /\ Len(b) = k /\ \A i \in 1 .. k : b[i] = p[i]
    BY PathBegins
<1>3. k + 1 \in 0 .. Len(s) /\ k \in Nat /\ Len(p) \in Nat /\ k <= Len(p)
    BY <1>1
<1> HIDE DEF s, b
<1>4. t \in Seq(Nat) /\ Len(t) = k + 1 /\ \A i \in 1 .. k + 1 : t[i] = s[i]
    BY <1>1, <1>3, PathBegins
<1>5. u \in Seq(Nat) /\ Len(u) = k + 1 /\ u[1] = n /\ \A i \in 1 .. k : u[i + 1] = b[i]
    BY <1>2, StepFirst
<1> HIDE DEF t, u
<1>6. ASSUME NEW i \in 1 .. k + 1
      PROVE  t[i] = u[i]
    <2>1. CASE i = 1
        BY <1>1, <1>3, <1>4, <1>5, <2>1
    <2>2. CASE i # 1
        <3>1. i - 1 \in 1 .. k /\ i - 1 \in 1 .. Len(p) /\ (i - 1) + 1 = i
            BY <1>3, <2>2
        <3>2. t[i] = p[i - 1]
            BY <1>1, <1>4, <3>1
        <3>3. u[i] = p[i - 1]
            BY <1>2, <1>5, <3>1
        <3> QED
            BY <3>2, <3>3
    <2> QED
        BY <2>1, <2>2
<1>7. t = u
    BY <1>4, <1>5, <1>6, SeqEqual
<1> QED
    BY <1>7 DEF t, u, s, b

(* What is a prefix of a path.                                             *)
LEMMA PrefixFacts ==
    ASSUME NEW p \in Seq(Nat), NEW q \in Seq(Nat)
    PROVE  /\ IsPrefix(q, p) <=> Len(q) <= Len(p) /\ q = SubSeq(p, 1, Len(q))
           /\ IsStrictPrefix(q, p) <=> Len(q) < Len(p) /\ q = SubSeq(p, 1, Len(q))
<1>1. Len(p) \in Nat /\ Len(q) \in Nat
    OBVIOUS
<1>2. SubSeq(q, 1, Len(q)) = q
    <2>1. Len(q) \in 0 .. Len(q)
        BY <1>1
    <2>2. SubSeq(q, 1, Len(q)) \in Seq(Nat) /\ Len(SubSeq(q, 1, Len(q))) = Len(q)
            /\ \A i \in 1 .. Len(q) : SubSeq(q, 1, Len(q))[i] = q[i]
        BY <2>1, PathBegins
    <2> QED
        BY <2>2, SeqEqual
<1>3. IsPrefix(q, p) <=> Len(q) <= Len(p) /\ q = SubSeq(p, 1, Len(q))
    BY <1>2 DEF IsPrefix
<1>4. ASSUME Len(q) = Len(p), q = SubSeq(p, 1, Len(q))
      PROVE  q = p
    <2>1. Len(q) \in 0 .. Len(p)
        BY <1>1, <1>4
    <2>2. Len(SubSeq(p, 1, Len(q))) = Len(q) /\ \A i \in 1 .. Len(q) : SubSeq(p, 1, Len(q))[i] = p[i]
        BY <2>1, PathBegins
    <2> QED
        BY <1>4, <2>2, SeqEqual
<1>5. IsStrictPrefix(q, p) <=> Len(q) < Len(p) /\ q = SubSeq(p, 1, Len(q))
    BY <1>1, <1>3, <1>4 DEF IsStrictPrefix
<1> QED
    BY <1>3, <1>5

(* A path that goes on after another begins with it.                       *)
LEMMA BeginsStrictly ==
    ASSUME NEW p \in Seq(Nat), NEW q \in Seq(Nat), Len(q) < Len(p), q = SubSeq(p, 1, Len(q))
    PROVE  IsStrictPrefix(q, p)
    BY PrefixFacts

(* The parts of a filter that is made of filters.                          *)
IsCombined(f, kind, fs) ==
    /\ f = [path \in DOMAIN f |-> f[path]]
    /\ <<>> \in DOMAIN f /\ f[<<>>].kind = kind
    /\ \A n \in DOMAIN fs : \A p \in DOMAIN fs[n] :
            <<n>> \o p \in DOMAIN f /\ f[<<n>> \o p] = fs[n][p]
    /\ \A path \in DOMAIN f : path # <<>> =>
            \E n \in DOMAIN fs : \E p \in DOMAIN fs[n] : path = <<n>> \o p

(* Filters at positions, of which another filter can be made.              *)
AreFilters(fs) == DOMAIN fs \subseteq Nat /\ \A n \in DOMAIN fs : IsFilter(fs[n])

(* Putting filters below a connective leaves each of them as it is, at its *)
(* position (FilterExpression).                                            *)
LEMMA CombinedParts ==
    ASSUME NEW kind, NEW fs, AreFilters(fs)
    PROVE  IsCombined(Combined(kind, fs), kind, fs)
<1> DEFINE f == Combined(kind, fs)
           D == {<<>>} \cup UNION {{<<n>> \o p : p \in DOMAIN fs[n]} : n \in DOMAIN fs}
<1>1. f = [path \in D |-> IF path = <<>> THEN [kind |-> kind] ELSE fs[Head(path)][Tail(path)]]
    BY DEF Combined
<1>2. DOMAIN f = D
    BY <1>1
<1>3. f = [path \in DOMAIN f |-> f[path]]
    BY <1>1
<1>4. <<>> \in DOMAIN f /\ f[<<>>].kind = kind
    <2>1. <<>> \in D
        OBVIOUS
    <2>2. f[<<>>] = [kind |-> kind]
        BY <1>1, <2>1
    <2> QED
        BY <1>2, <2>1, <2>2
<1>5. ASSUME NEW n \in DOMAIN fs, NEW p \in DOMAIN fs[n]
      PROVE  <<n>> \o p \in DOMAIN f /\ f[<<n>> \o p] = fs[n][p]
    <2>1. n \in Nat /\ p \in Seq(Nat)
        BY DEF AreFilters, IsFilter
    <2>2. <<n>> \o p # <<>> /\ Head(<<n>> \o p) = n /\ Tail(<<n>> \o p) = p
        BY <2>1, StepFirst
    <2>3. <<n>> \o p \in D
        OBVIOUS
    <2> HIDE DEF D, f
    <2> QED
        BY <1>1, <1>2, <2>2, <2>3
<1>6. ASSUME NEW path \in DOMAIN f, path # <<>>
      PROVE  \E n \in DOMAIN fs : \E p \in DOMAIN fs[n] : path = <<n>> \o p
    BY <1>2, <1>6
<1> HIDE DEF f, D
<1>7. \A path \in DOMAIN f : path # <<>> =>
            \E n \in DOMAIN fs : \E p \in DOMAIN fs[n] : path = <<n>> \o p
    BY <1>6
<1> QED
    BY <1>3, <1>4, <1>5, <1>7 DEF IsCombined, f

(* Filters make a filter.                                                  *)
LEMMA CombinedIsFilter ==
    ASSUME NEW kind, kind \notin {"none", "condition"}, NEW fs, AreFilters(fs)
    PROVE  IsFilter(Combined(kind, fs))
<1> DEFINE f == Combined(kind, fs)
<1>1. IsCombined(f, kind, fs)
    BY CombinedParts
<1> HIDE DEF f
<1>2. ASSUME NEW path \in DOMAIN f
      PROVE  /\ path \in Seq(Nat)
             /\ \A k \in 0 .. Len(path) - 1 :
                   /\ SubSeq(path, 1, k) \in DOMAIN f
                   /\ f[SubSeq(path, 1, k)].kind \notin {"none", "condition"}
    <2>1. CASE path = <<>>
        BY <2>1
    <2>2. CASE path # <<>>
        <3>1. PICK n \in DOMAIN fs : \E p \in DOMAIN fs[n] : path = <<n>> \o p
            BY <1>1, <2>2 DEF IsCombined
        <3>2. PICK p \in DOMAIN fs[n] : path = <<n>> \o p
            BY <3>1
        <3>3. n \in Nat /\ IsFilter(fs[n]) /\ p \in Seq(Nat)
            BY DEF AreFilters, IsFilter
        <3>4. path \in Seq(Nat) /\ Len(path) = Len(p) + 1 /\ Len(p) \in Nat
            BY <3>2, <3>3, StepFirst
        <3>5. ASSUME NEW k \in 0 .. Len(path) - 1
              PROVE  /\ SubSeq(path, 1, k) \in DOMAIN f
                     /\ f[SubSeq(path, 1, k)].kind \notin {"none", "condition"}
            <4>1. CASE k = 0
                <5>1. SubSeq(path, 1, k) = <<>>
                    BY <3>4, <4>1, PathBegins
                <5> QED
                    BY <1>1, <5>1 DEF IsCombined
            <4>2. CASE k # 0
                <5>1. k - 1 \in 0 .. Len(p) - 1 /\ k - 1 \in 0 .. Len(p) /\ (k - 1) + 1 = k
                    BY <3>4, <4>2
                <5>2. SubSeq(path, 1, k) = <<n>> \o SubSeq(p, 1, k - 1)
                    BY <3>2, <3>3, <5>1, StepFirstBegins
                <5>3. SubSeq(p, 1, k - 1) \in DOMAIN fs[n]
                        /\ fs[n][SubSeq(p, 1, k - 1)].kind \notin {"none", "condition"}
                    BY <3>3, <5>1 DEF IsFilter
                <5> QED
                    BY <1>1, <5>2, <5>3 DEF IsCombined
            <4> QED
                BY <4>1, <4>2
        <3> QED
            BY <3>4, <3>5
    <2> QED
        BY <2>1, <2>2
<1>3. f = [path \in DOMAIN f |-> f[path]] /\ <<>> \in DOMAIN f
    BY <1>1 DEF IsCombined
<1> QED
    BY <1>2, <1>3 DEF IsFilter, f

(* Where a filter stands in another, what is below a path of it is below   *)
(* the path there.                                                         *)
LEMMA StaysBelow ==
    ASSUME NEW n \in Nat, NEW p \in Seq(Nat), NEW q \in Seq(Nat), IsStrictPrefix(p, q)
    PROVE  IsStrictPrefix(<<n>> \o p, <<n>> \o q) /\ IsStrictPrefix(<<>>, <<n>> \o q)
<1>1. Len(p) < Len(q) /\ p = SubSeq(q, 1, Len(p)) /\ Len(p) \in Nat /\ Len(q) \in Nat
    BY PrefixFacts
<1>2. /\ <<n>> \o p \in Seq(Nat) /\ Len(<<n>> \o p) = Len(p) + 1
      /\ <<n>> \o q \in Seq(Nat) /\ Len(<<n>> \o q) = Len(q) + 1
    BY StepFirst
<1>3. SubSeq(<<n>> \o q, 1, Len(p) + 1) = <<n>> \o p
    <2>1. Len(p) \in 0 .. Len(q)
        BY <1>1
    <2>2. SubSeq(<<n>> \o q, 1, Len(p) + 1) = <<n>> \o SubSeq(q, 1, Len(p))
        BY <2>1, StepFirstBegins
    <2> QED
        BY <1>1, <2>2
<1>4. IsStrictPrefix(<<n>> \o p, <<n>> \o q)
    <2> DEFINE s == <<n>> \o p  t == <<n>> \o q
    <2>1. s \in Seq(Nat) /\ t \in Seq(Nat) /\ Len(s) < Len(t) /\ s = SubSeq(t, 1, Len(s))
        BY <1>1, <1>2, <1>3
    <2> HIDE DEF s, t
    <2>2. IsStrictPrefix(s, t)
        BY <2>1, BeginsStrictly
    <2> QED
        BY <2>2 DEF s, t
<1> DEFINE e == <<>>
<1>5. e \in Seq(Nat) /\ Len(e) = 0 /\ 0 \in 0 .. Len(<<n>> \o q)
    BY <1>1, <1>2
<1>6. SubSeq(<<n>> \o q, 1, 0) = e
    BY <1>2, <1>5, PathBegins
<1>7. IsStrictPrefix(e, <<n>> \o q)
    <2> DEFINE t == <<n>> \o q
    <2>1. t \in Seq(Nat) /\ Len(e) < Len(t) /\ e = SubSeq(t, 1, Len(e))
        BY <1>1, <1>2, <1>5, <1>6
    <2> HIDE DEF e, t
    <2>2. IsStrictPrefix(e, t)
        BY <1>5, <2>1, BeginsStrictly
    <2> QED
        BY <2>2 DEF e, t
<1> QED
    BY <1>4, <1>7

(* A filter of the catalogue, node by node.                                *)
NodeWellFormed(f, path) ==
    \/ f[path].kind = "none"
    \/ /\ f[path].kind = "condition"
       /\ f[path].field \in DOMAIN FieldOperators
       /\ f[path].op \in FieldOperators[f[path].field]
    \/ /\ f[path].kind \in {"and", "or", "not"}
       /\ \E below \in DOMAIN f : IsStrictPrefix(path, below)

(* Filters of the catalogue make one, if there is one at all.              *)
LEMMA CombinedWellFormed ==
    ASSUME NEW kind \in {"and", "or", "not"}, NEW fs, AreFilters(fs), DOMAIN fs # {},
           \A n \in DOMAIN fs : WellFormed(fs[n])
    PROVE  WellFormed(Combined(kind, fs))
<1> DEFINE f == Combined(kind, fs)
<1>1. IsCombined(f, kind, fs)
    BY CombinedParts
<1> HIDE DEF f
<1>2. NodeWellFormed(f, <<>>)
    <2>1. PICK n \in DOMAIN fs : TRUE
        OBVIOUS
    <2>2. n \in Nat /\ <<>> \in DOMAIN fs[n]
        BY DEF AreFilters, IsFilter
    <2> DEFINE e == <<>>  s == <<n>> \o e
    <2>3. s \in DOMAIN f /\ f[e].kind = kind
        <3>1. s \in DOMAIN f
            BY <1>1, <2>2 DEF IsCombined
        <3>2. f[e].kind = kind
            BY <1>1 DEF IsCombined
        <3> QED
            BY <3>1, <3>2
    <2>4. e \in Seq(Nat) /\ Len(e) = 0
        OBVIOUS
    <2>5. s \in Seq(Nat) /\ Len(s) = 1
        <3> HIDE DEF e
        <3> QED
            BY <2>2, <2>4, StepFirst
    <2>6. SubSeq(s, 1, 0) = e
        <3> HIDE DEF s
        <3>1. 0 \in 0 .. Len(s)
            BY <2>5
        <3> QED
            BY <2>5, <3>1, PathBegins
    <2>7. IsStrictPrefix(e, s)
        <3>1. Len(e) < Len(s) /\ e = SubSeq(s, 1, Len(e))
            BY <2>4, <2>5, <2>6
        <3> HIDE DEF e, s
        <3> QED
            BY <2>4, <2>5, <3>1, BeginsStrictly
    <2> HIDE DEF s
    <2> QED
        BY <2>3, <2>7 DEF NodeWellFormed
<1>3. ASSUME NEW n \in DOMAIN fs, NEW p \in DOMAIN fs[n]
      PROVE  NodeWellFormed(f, <<n>> \o p)
    <2>1. n \in Nat /\ p \in Seq(Nat) /\ WellFormed(fs[n]) /\ DOMAIN fs[n] \subseteq Seq(Nat)
        BY DEF AreFilters, IsFilter
    <2>2. NodeWellFormed(fs[n], p)
        BY <2>1 DEF WellFormed, NodeWellFormed
    <2>3. f[<<n>> \o p] = fs[n][p]
        BY <1>1 DEF IsCombined
    <2>4. ASSUME NEW below \in DOMAIN fs[n], IsStrictPrefix(p, below)
          PROVE  <<n>> \o below \in DOMAIN f /\ IsStrictPrefix(<<n>> \o p, <<n>> \o below)
        <3>1. below \in Seq(Nat)
            BY <2>1
        <3>2. <<n>> \o below \in DOMAIN f
            BY <1>1 DEF IsCombined
        <3> QED
            BY <2>1, <2>4, <3>1, <3>2, StaysBelow
    <2> QED
        BY <2>2, <2>3, <2>4 DEF NodeWellFormed
<1>4. \A path \in DOMAIN f : NodeWellFormed(f, path)
    BY <1>1, <1>2, <1>3 DEF IsCombined
<1> QED
    BY <1>4 DEF WellFormed, NodeWellFormed, f

(* A connective adds no condition.                                         *)
LEMMA CombinedConditions ==
    ASSUME NEW kind, kind # "condition", NEW fs, AreFilters(fs)
    PROVE  Conditions(Combined(kind, fs)) = UNION {Conditions(fs[n]) : n \in DOMAIN fs}
<1> DEFINE f == Combined(kind, fs)
<1>1. IsCombined(f, kind, fs)
    BY CombinedParts
<1> HIDE DEF f
<1>2. ASSUME NEW path \in DOMAIN f, f[path].kind = "condition"
      PROVE  \E n \in DOMAIN fs : f[path] \in Conditions(fs[n])
    <2>1. path # <<>>
        BY <1>1, <1>2 DEF IsCombined
    <2>2. PICK n \in DOMAIN fs : \E p \in DOMAIN fs[n] : path = <<n>> \o p
        BY <1>1, <2>1 DEF IsCombined
    <2>3. PICK p \in DOMAIN fs[n] : path = <<n>> \o p
        BY <2>2
    <2>4. f[path] = fs[n][p]
        BY <1>1, <2>3 DEF IsCombined
    <2> QED
        BY <1>2, <2>4 DEF Conditions
<1>3. ASSUME NEW n \in DOMAIN fs, NEW p \in DOMAIN fs[n], fs[n][p].kind = "condition"
      PROVE  fs[n][p] \in Conditions(f)
    <2>1. <<n>> \o p \in DOMAIN f /\ f[<<n>> \o p] = fs[n][p]
        BY <1>1 DEF IsCombined
    <2> QED
        BY <1>3, <2>1 DEF Conditions
<1>4. Conditions(f) \subseteq UNION {Conditions(fs[n]) : n \in DOMAIN fs}
    BY <1>2 DEF Conditions
<1>5. \A n \in DOMAIN fs : Conditions(fs[n]) \subseteq Conditions(f)
    <2> SUFFICES ASSUME NEW n \in DOMAIN fs, NEW c \in Conditions(fs[n])
                 PROVE  c \in Conditions(f)
        OBVIOUS
    <2>1. PICK p \in DOMAIN fs[n] : fs[n][p].kind = "condition" /\ c = fs[n][p]
        BY DEF Conditions
    <2> QED
        BY <1>3, <2>1
<1> QED
    BY <1>4, <1>5 DEF f

(* Simple filters make a simple filter, where it is no negation of several.*)
LEMMA CombinedSimple ==
    ASSUME NEW kind, NEW fs, AreFilters(fs), \A n \in DOMAIN fs : Simple(fs[n]),
           kind # "not" \/ \A m, n \in DOMAIN fs : m = n
    PROVE  Simple(Combined(kind, fs))
<1> DEFINE f == Combined(kind, fs)
<1>1. IsCombined(f, kind, fs)
    BY CombinedParts
<1> HIDE DEF f
<1>2. SUFFICES ASSUME NEW s \in DOMAIN f, NEW t \in DOMAIN f, NEW k \in 0 .. Len(s) - 1,
                      PartBelowNot(f, s, t, k)
               PROVE  s[k + 1] = t[k + 1]
    BY DEF Simple, f
<1>3. /\ k < Len(s) /\ k < Len(t) /\ SubSeq(s, 1, k) = SubSeq(t, 1, k)
      /\ f[SubSeq(s, 1, k)].kind = "not"
    BY <1>2 DEF PartBelowNot
<1>4. s # <<>> /\ t # <<>>
    BY <1>3
<1>5. PICK m \in DOMAIN fs : \E p \in DOMAIN fs[m] : s = <<m>> \o p
    BY <1>1, <1>4 DEF IsCombined
<1>6. PICK p \in DOMAIN fs[m] : s = <<m>> \o p
    BY <1>5
<1>7. PICK n \in DOMAIN fs : \E q \in DOMAIN fs[n] : t = <<n>> \o q
    BY <1>1, <1>4 DEF IsCombined
<1>8. PICK q \in DOMAIN fs[n] : t = <<n>> \o q
    BY <1>7
<1>9. m \in Nat /\ n \in Nat /\ p \in Seq(Nat) /\ q \in Seq(Nat)
    BY DEF AreFilters, IsFilter
<1>10. /\ s \in Seq(Nat) /\ Len(s) = Len(p) + 1 /\ Len(p) \in Nat /\ s[1] = m
       /\ \A i \in 1 .. Len(p) : s[i + 1] = p[i]
    BY <1>6, <1>9, StepFirst
<1>11. /\ t \in Seq(Nat) /\ Len(t) = Len(q) + 1 /\ Len(q) \in Nat /\ t[1] = n
       /\ \A i \in 1 .. Len(q) : t[i + 1] = q[i]
    BY <1>8, <1>9, StepFirst
<1>12. CASE k = 0
    <2>1. SubSeq(s, 1, k) = <<>>
        BY <1>10, <1>12, PathBegins
    <2>2. kind = "not"
        BY <1>1, <1>3, <2>1 DEF IsCombined
    <2> QED
        BY <1>10, <1>11, <1>12, <2>2
<1>13. CASE k # 0
    <2> DEFINE h == k - 1
    <2>1. h \in 0 .. Len(p) - 1 /\ h \in 0 .. Len(p) /\ h \in 0 .. Len(q) /\ h + 1 = k
             /\ h + 1 \in 1 .. Len(p) /\ h + 1 \in 1 .. Len(q) /\ h < Len(p) /\ h < Len(q)
        BY <1>3, <1>10, <1>11, <1>13
    <2> HIDE DEF h
    <2>2. SubSeq(s, 1, h + 1) = <<m>> \o SubSeq(p, 1, h) /\ SubSeq(t, 1, h + 1) = <<n>> \o SubSeq(q, 1, h)
        BY <1>6, <1>8, <1>9, <2>1, StepFirstBegins
    <2>3. SubSeq(p, 1, h) \in Seq(Nat) /\ SubSeq(q, 1, h) \in Seq(Nat)
        BY <1>9, <2>1, PathBegins
    <2> DEFINE a == SubSeq(p, 1, h)  b == SubSeq(q, 1, h)
    <2>4. /\ Head(<<m>> \o a) = m /\ Tail(<<m>> \o a) = a
          /\ Head(<<n>> \o b) = n /\ Tail(<<n>> \o b) = b
        <3> HIDE DEF a, b
        <3>1. a \in Seq(Nat) /\ b \in Seq(Nat)
            BY <2>3 DEF a, b
        <3> QED
            BY <1>9, <3>1, StepFirst
    <2>5. m = n /\ a = b
        BY <1>3, <2>1, <2>2, <2>4
    <2>6. fs[m][a].kind = "not"
        <3>1. a \in DOMAIN fs[m]
            BY <1>9, <2>1 DEF AreFilters, IsFilter
        <3>2. f[<<m>> \o a] = fs[m][a]
            BY <1>1, <3>1 DEF IsCombined
        <3> QED
            BY <1>3, <2>1, <2>2, <3>2
    <2>7. PartBelowNot(fs[m], p, q, h)
        BY <2>1, <2>5, <2>6 DEF PartBelowNot
    <2>8. p[h + 1] = q[h + 1]
        BY <2>1, <2>5, <2>7 DEF Simple
    <2> QED
        BY <1>10, <1>11, <2>1, <2>8
<1> QED
    BY <1>12, <1>13

(* A single node is a filter, with at most one condition.                  *)
LEMMA LeafFacts ==
    ASSUME NEW node
    PROVE  /\ IsFilter(Leaf(node)) /\ Simple(Leaf(node))
           /\ Conditions(Leaf(node)) = IF node.kind = "condition" THEN {node} ELSE {}
           /\ node.kind = "none" => WellFormed(Leaf(node))
           /\ node.kind = "condition" /\ node.field \in DOMAIN FieldOperators
                 /\ node.op \in FieldOperators[node.field] => WellFormed(Leaf(node))
<1> DEFINE f == Leaf(node)  e == <<>>
<1>1. f = [path \in DOMAIN f |-> f[path]] /\ DOMAIN f = {e} /\ f[e] = node
    BY DEF Leaf
<1>2. e \in Seq(Nat) /\ Len(e) = 0
    OBVIOUS
<1> HIDE DEF f, e
<1>3. \A path \in DOMAIN f : 0 .. Len(path) - 1 = {}
    BY <1>1, <1>2
<1>4. IsFilter(f)
    <2>1. <<>> \in DOMAIN f
        BY <1>1 DEF e
    <2> QED
        BY <1>1, <1>2, <1>3, <2>1 DEF IsFilter
<1>5. Simple(f)
    BY <1>3 DEF Simple
<1>6. Conditions(f) = IF node.kind = "condition" THEN {node} ELSE {}
    BY <1>1 DEF Conditions
<1>7. node.kind = "none" => WellFormed(f)
    BY <1>1 DEF WellFormed
<1>8. node.kind = "condition" /\ node.field \in DOMAIN FieldOperators
                 /\ node.op \in FieldOperators[node.field] => WellFormed(f)
    BY <1>1 DEF WellFormed
<1> QED
    BY <1>4, <1>5, <1>6, <1>7, <1>8 DEF f

(* An absent filter is one, of the catalogue, and has no condition.        *)
LEMMA NoFilterFacts ==
    /\ IsFilter(NoFilter) /\ Simple(NoFilter) /\ WellFormed(NoFilter)
    /\ Conditions(NoFilter) = {}
<1> DEFINE node == [kind |-> "none"]
<1>1. node.kind = "none" /\ node.kind # "condition"
    OBVIOUS
<1> HIDE DEF node
<1>2. /\ IsFilter(Leaf(node)) /\ Simple(Leaf(node)) /\ WellFormed(Leaf(node))
      /\ Conditions(Leaf(node)) = {}
    BY <1>1, LeafFacts
<1> QED
    BY <1>2 DEF NoFilter, node

(* A condition on a class is in the catalogue.                             *)
LEMMA ClassConditions ==
    ASSUME NEW value
    PROVE  LET c == Condition("class", "in", {value})
           IN  /\ IsFilter(c) /\ Simple(c) /\ WellFormed(c)
               /\ \A d \in Conditions(c) : d.field = "class"
<1> DEFINE node == [kind |-> "condition", field |-> "class", op |-> "in", values |-> {value}]
<1>1. /\ node.kind = "condition" /\ node.field = "class" /\ node.field \in DOMAIN FieldOperators
      /\ node.op \in FieldOperators[node.field]
    BY DEF FieldOperators
<1> HIDE DEF node
<1>2. /\ IsFilter(Leaf(node)) /\ Simple(Leaf(node)) /\ WellFormed(Leaf(node))
      /\ Conditions(Leaf(node)) = {node}
    BY <1>1, LeafFacts
<1>3. Condition("class", "in", {value}) = Leaf(node)
    BY DEF Condition, node
<1> QED
    BY <1>1, <1>2, <1>3

(* The negation of a simple filter of the catalogue is one, with the same  *)
(* conditions.                                                             *)
LEMMA NotFacts ==
    ASSUME NEW f, IsFilter(f), Simple(f), WellFormed(f)
    PROVE  /\ IsFilter(Not(f)) /\ Simple(Not(f)) /\ WellFormed(Not(f))
           /\ Conditions(Not(f)) = Conditions(f)
<1> DEFINE fs == <<f>>
<1>1. DOMAIN fs = {1} /\ fs[1] = f
    OBVIOUS
<1> HIDE DEF fs
<1>2. AreFilters(fs) /\ (\A n \in DOMAIN fs : Simple(fs[n]) /\ WellFormed(fs[n])) /\ DOMAIN fs # {}
        /\ \A m, n \in DOMAIN fs : m = n
    BY <1>1 DEF AreFilters
<1>3. IsFilter(Combined("not", fs)) /\ WellFormed(Combined("not", fs)) /\ Simple(Combined("not", fs))
    <2>1. IsFilter(Combined("not", fs))
        BY <1>2, CombinedIsFilter
    <2>2. WellFormed(Combined("not", fs))
        BY <1>2, CombinedWellFormed
    <2>3. Simple(Combined("not", fs))
        BY <1>2, CombinedSimple
    <2> QED
        BY <2>1, <2>2, <2>3
<1>4. Conditions(Combined("not", fs)) = Conditions(f)
    <2>1. Conditions(Combined("not", fs)) = UNION {Conditions(fs[n]) : n \in DOMAIN fs}
        BY <1>2, CombinedConditions
    <2> QED
        BY <1>1, <2>1
<1>5. Not(f) = Combined("not", fs)
    BY DEF Not, fs
<1> QED
    BY <1>3, <1>4, <1>5

(* Nothing stands below an absent filter.                                  *)
LEMMA AbsentHasNone ==
    ASSUME NEW f, IsFilter(f), Absent(f)
    PROVE  Conditions(f) = {}
<1>1. ASSUME NEW path \in DOMAIN f, f[path].kind = "condition"
      PROVE  FALSE
    <2>1. CASE path = <<>>
        BY <1>1, <2>1 DEF Absent
    <2>2. CASE path # <<>>
        <3>1. path \in Seq(Nat) /\ Len(path) \in Nat /\ Len(path) # 0
            BY <2>2 DEF IsFilter
        <3>2. 0 \in 0 .. Len(path) - 1 /\ 0 \in 0 .. Len(path)
            BY <3>1
        <3>3. SubSeq(path, 1, 0) = <<>>
            BY <3>1, <3>2, PathBegins
        <3>4. f[SubSeq(path, 1, 0)].kind # "none"
            BY <3>2 DEF IsFilter
        <3> QED
            BY <3>3, <3>4 DEF Absent
    <2> QED
        BY <2>1, <2>2
<1> QED
    BY <1>1 DEF Conditions

(* What a conjunction keeps of filters: it is a filter, with their         *)
(* conditions, in the catalogue and simple if they are.                    *)
IsConjunction(f, fs) ==
    /\ IsFilter(f)
    /\ Conditions(f) = UNION {Conditions(fs[n]) : n \in DOMAIN fs}
    /\ (\A n \in DOMAIN fs : WellFormed(fs[n])) => WellFormed(f)
    /\ (\A n \in DOMAIN fs : Simple(fs[n])) => Simple(f)

(* A conjunction holds the conditions of its parts and nothing else, and   *)
(* is in the catalogue where they are (and_filter).                        *)
LEMMA AndFacts ==
    ASSUME NEW fs, AreFilters(fs)
    PROVE  IsConjunction(And(fs), fs)
<1> DEFINE present == {n \in DOMAIN fs : ~ Absent(fs[n])}
<1>1. ASSUME NEW n \in DOMAIN fs, n \notin present
      PROVE  Conditions(fs[n]) = {}
    BY <1>1, AbsentHasNone DEF AreFilters
<1>2. UNION {Conditions(fs[n]) : n \in DOMAIN fs} = UNION {Conditions(fs[n]) : n \in present}
    BY <1>1
<1>3. present \subseteq DOMAIN fs
    OBVIOUS
<1>4. And(fs) = IF present = {} THEN NoFilter
                ELSE IF \E n \in present : present = {n} THEN fs[CHOOSE n \in present : TRUE]
                     ELSE Combined("and", Restrict(fs, present))
    BY DEF And
<1> HIDE DEF present
<1>5. CASE present = {}
    <2>1. And(fs) = NoFilter
        BY <1>4, <1>5
    <2>2. UNION {Conditions(fs[n]) : n \in DOMAIN fs} = {}
        BY <1>2, <1>5
    <2> QED
        BY <2>1, <2>2, NoFilterFacts DEF IsConjunction
<1>6. CASE present # {} /\ \E n \in present : present = {n}
    <2>1. PICK n \in present : present = {n}
        BY <1>6
    <2>2. (CHOOSE m \in present : TRUE) = n
        BY <2>1
    <2>3. And(fs) = fs[n] /\ n \in DOMAIN fs
        BY <1>3, <1>4, <1>6, <2>2
    <2>4. UNION {Conditions(fs[m]) : m \in DOMAIN fs} = Conditions(fs[n])
        BY <1>2, <2>1
    <2> QED
        BY <2>3, <2>4 DEF IsConjunction, AreFilters
<1>7. CASE present # {} /\ ~ \E n \in present : present = {n}
    <2> DEFINE rest == Restrict(fs, present)
    <2>1. DOMAIN rest = present /\ \A n \in present : rest[n] = fs[n]
        BY DEF Restrict
    <2>2. And(fs) = Combined("and", rest)
        BY <1>4, <1>7
    <2> HIDE DEF rest
    <2>3. AreFilters(rest)
        BY <1>3, <2>1 DEF AreFilters
    <2>4. IsFilter(Combined("and", rest))
        BY <2>3, CombinedIsFilter
    <2>5. Conditions(Combined("and", rest)) = UNION {Conditions(rest[n]) : n \in DOMAIN rest}
        BY <2>3, CombinedConditions
    <2>6. UNION {Conditions(rest[n]) : n \in DOMAIN rest} = UNION {Conditions(fs[n]) : n \in DOMAIN fs}
        BY <1>2, <2>1
    <2>7. ASSUME \A n \in DOMAIN fs : WellFormed(fs[n])
          PROVE  WellFormed(Combined("and", rest))
        <3>1. DOMAIN rest # {} /\ \A n \in DOMAIN rest : WellFormed(rest[n])
            BY <1>3, <1>7, <2>1, <2>7
        <3> QED
            BY <2>3, <3>1, CombinedWellFormed
    <2>8. ASSUME \A n \in DOMAIN fs : Simple(fs[n])
          PROVE  Simple(Combined("and", rest))
        <3>1. \A n \in DOMAIN rest : Simple(rest[n])
            BY <1>3, <2>1, <2>8
        <3> QED
            BY <2>3, <3>1, CombinedSimple
    <2> QED
        BY <2>2, <2>4, <2>5, <2>6, <2>7, <2>8 DEF IsConjunction
<1> QED
    BY <1>5, <1>6, <1>7

(* Normalizing changes fields and values only.                             *)
LEMMA NormalizedFacts ==
    ASSUME NEW f, IsFilter(f)
    PROVE  IsFilter(Normalized(f)) /\ (Simple(f) => Simple(Normalized(f)))
<1> DEFINE g == Normalized(f)
<1>1. g = [path \in DOMAIN g |-> g[path]] /\ DOMAIN g = DOMAIN f
    BY DEF Normalized
<1>2. ASSUME NEW path \in DOMAIN f
      PROVE  g[path].kind = f[path].kind
    <2>1. CASE f[path].kind # "condition"
        BY <2>1 DEF Normalized
    <2>2. CASE f[path].kind = "condition"
        <3>1. g[path] = [f[path] EXCEPT !.field = Normal(@), !.values = {Normal(v) : v \in @}]
            BY <2>2 DEF Normalized
        <3> QED
            BY <3>1
    <2> QED
        BY <2>1, <2>2
<1> HIDE DEF g
<1>3. IsFilter(g)
    BY <1>1, <1>2 DEF IsFilter
<1>4. ASSUME Simple(f)
      PROVE  Simple(g)
    <2> SUFFICES ASSUME NEW p \in DOMAIN g, NEW q \in DOMAIN g, NEW k \in 0 .. Len(p) - 1,
                        PartBelowNot(g, p, q, k)
                 PROVE  p[k + 1] = q[k + 1]
        BY DEF Simple
    <2>1. SubSeq(p, 1, k) \in DOMAIN f /\ p \in DOMAIN f /\ q \in DOMAIN f
        BY <1>1 DEF IsFilter
    <2>2. PartBelowNot(f, p, q, k)
        BY <1>2, <2>1 DEF PartBelowNot
    <2> QED
        BY <1>4, <2>1, <2>2 DEF Simple
<1> QED
    BY <1>3, <1>4 DEF g

(* Dropping what is absent keeps the conditions.                           *)
LEMMA BuiltFacts ==
    ASSUME NEW f, IsFilter(f)
    PROVE  /\ IsFilter(Built(f)) /\ (Simple(f) => Simple(Built(f)))
           /\ Conditions(Built(f)) = Conditions(f)
<1> DEFINE D == {path \in DOMAIN f : path = <<>> \/ f[path].kind # "none"}
           g == Built(f)
<1>1. g = [path \in DOMAIN g |-> g[path]] /\ DOMAIN g = D /\ \A path \in D : g[path] = f[path]
    BY DEF Built, Restrict
<1>2. D \subseteq DOMAIN f /\ <<>> \in D
    BY DEF IsFilter
<1>3. \A path \in DOMAIN f : f[path].kind # "none" => path \in D
    OBVIOUS
<1> HIDE DEF g, D
<1>4. IsFilter(g)
    <2>1. DOMAIN g \subseteq Seq(Nat) /\ <<>> \in DOMAIN g
        BY <1>1, <1>2 DEF IsFilter
    <2>2. ASSUME NEW path \in DOMAIN g, NEW k \in 0 .. Len(path) - 1
          PROVE  SubSeq(path, 1, k) \in DOMAIN g
                    /\ g[SubSeq(path, 1, k)].kind \notin {"none", "condition"}
        <3>1. path \in DOMAIN f
            BY <1>1, <1>2
        <3>2. SubSeq(path, 1, k) \in DOMAIN f
                /\ f[SubSeq(path, 1, k)].kind \notin {"none", "condition"}
            BY <3>1 DEF IsFilter
        <3> QED
            BY <1>1, <1>3, <3>2
    <2> QED
        BY <1>1, <2>1, <2>2 DEF IsFilter
<1>5. Conditions(g) = Conditions(f)
    <2>1. \A path \in DOMAIN g : g[path].kind = "condition" =>
                path \in DOMAIN f /\ f[path] = g[path]
        BY <1>1, <1>2
    <2>2. \A path \in DOMAIN f : f[path].kind = "condition" =>
                path \in DOMAIN g /\ f[path] = g[path]
        BY <1>1, <1>3
    <2> QED
        BY <2>1, <2>2 DEF Conditions
<1>6. ASSUME Simple(f)
      PROVE  Simple(g)
    <2> SUFFICES ASSUME NEW p \in DOMAIN g, NEW q \in DOMAIN g, NEW k \in 0 .. Len(p) - 1,
                        PartBelowNot(g, p, q, k)
                 PROVE  p[k + 1] = q[k + 1]
        BY DEF Simple
    <2>1. SubSeq(p, 1, k) \in DOMAIN g /\ p \in DOMAIN f /\ q \in DOMAIN f
        BY <1>1, <1>2, <1>4 DEF IsFilter
    <2>2. PartBelowNot(f, p, q, k)
        BY <1>1, <2>1 DEF PartBelowNot
    <2> QED
        BY <1>6, <2>1, <2>2 DEF Simple
<1> QED
    BY <1>4, <1>5, <1>6 DEF g

(* A prefix of a prefix.                                                   *)
LEMMA PrefixOfPrefix ==
    ASSUME NEW p \in Seq(Nat), NEW q \in Seq(Nat), IsPrefix(q, p), NEW k \in 0 .. Len(q)
    PROVE  IsPrefix(SubSeq(q, 1, k), p)
<1> DEFINE s == SubSeq(q, 1, k)  t == SubSeq(p, 1, k)
<1>1. Len(q) <= Len(p) /\ q = SubSeq(p, 1, Len(q)) /\ Len(q) \in Nat /\ Len(p) \in Nat
    BY PrefixFacts
<1>2. k \in Nat /\ k <= Len(q) /\ k \in 0 .. Len(p) /\ Len(q) \in 0 .. Len(p)
    BY <1>1
<1>3. \A i \in 1 .. Len(q) : q[i] = p[i]
    <2>1. \A i \in 1 .. Len(q) : SubSeq(p, 1, Len(q))[i] = p[i]
        BY <1>2, PathBegins
    <2> QED
        BY <1>1, <2>1
<1>4. s \in Seq(Nat) /\ Len(s) = k /\ \A i \in 1 .. k : s[i] = q[i]
    BY PathBegins
<1>5. t \in Seq(Nat) /\ Len(t) = k /\ \A i \in 1 .. k : t[i] = p[i]
    BY <1>2, PathBegins
<1>6. s = t
    <2> HIDE DEF s, t
    <2>1. ASSUME NEW i \in 1 .. k
          PROVE  s[i] = t[i]
        <3>1. i \in 1 .. Len(q)
            BY <1>1, <1>2
        <3>2. s[i] = q[i] /\ t[i] = p[i]
            BY <1>4, <1>5
        <3> QED
            BY <1>3, <3>1, <3>2
    <2> QED
        BY <1>4, <1>5, <2>1, SeqEqual
<1>7. Len(s) <= Len(p) /\ s = SubSeq(p, 1, Len(s))
    BY <1>1, <1>2, <1>4, <1>6
<1>8. IsPrefix(s, p)
    <2> HIDE DEF s
    <2> QED
        BY <1>4, <1>7, PrefixFacts
<1> QED
    BY <1>8

(* A path begins with itself and at the root.                              *)
LEMMA PrefixOfItself ==
    ASSUME NEW p \in Seq(Nat)
    PROVE  IsPrefix(p, p) /\ IsPrefix(<<>>, p)
<1>1. Len(p) \in 0 .. Len(p) /\ Len(p) \in Nat
    OBVIOUS
<1>2. SubSeq(p, 1, Len(p)) = p
    <2>1. SubSeq(p, 1, Len(p)) \in Seq(Nat) /\ Len(SubSeq(p, 1, Len(p))) = Len(p)
            /\ \A i \in 1 .. Len(p) : SubSeq(p, 1, Len(p))[i] = p[i]
        BY <1>1, PathBegins
    <2> QED
        BY <2>1, SeqEqual
<1>3. IsPrefix(p, p)
    BY <1>1, <1>2, PrefixFacts
<1>4. IsPrefix(SubSeq(p, 1, 0), p) /\ SubSeq(p, 1, 0) = <<>>
    <2>1. 0 \in 0 .. Len(p)
        BY <1>1
    <2> QED
        BY <1>3, <2>1, PathBegins, PrefixOfPrefix
<1> QED
    BY <1>3, <1>4

(* What a filter keeps of itself when only some fields are kept: nothing   *)
(* new, everything where no negation has several filters, and it stays in  *)
(* the catalogue (_retain_filter_fields and _strip_filter_fields).         *)
LEMMA OnlyFieldsFacts ==
    ASSUME NEW f, IsFilter(f), NEW fields
    PROVE  /\ IsFilter(OnlyFields(f, fields))
           /\ WellFormed(f) => WellFormed(OnlyFields(f, fields))
           /\ Conditions(OnlyFields(f, fields)) \subseteq {c \in Conditions(f) : c.field \in fields}
           /\ Simple(f) => {c \in Conditions(f) : c.field \in fields}
                              \subseteq Conditions(OnlyFields(f, fields))
<1> DEFINE named == {path \in DOMAIN f : f[path].kind = "condition" /\ f[path].field \in fields}
           kept == {p \in named : \A q \in named : \A k \in 0 .. Len(p) - 1 :
                                PartBelowNot(f, p, q, k) => p[k + 1] <= q[k + 1]}
           D == {path \in DOMAIN f : \E p \in kept : IsPrefix(path, p)}
           g == OnlyFields(f, fields)
<1>1. g = IF kept = {} THEN NoFilter ELSE Restrict(f, D)
    BY DEF OnlyFields
<1>2. kept \subseteq named /\ named \subseteq DOMAIN f /\ DOMAIN f \subseteq Seq(Nat)
    BY DEF IsFilter
<1>3. {c \in Conditions(f) : c.field \in fields} = {f[p] : p \in named}
    BY DEF Conditions
<1>4. ASSUME Simple(f)
      PROVE  kept = named
    <2> SUFFICES ASSUME NEW p \in named, NEW q \in named, NEW k \in 0 .. Len(p) - 1,
                        PartBelowNot(f, p, q, k)
                 PROVE  p[k + 1] <= q[k + 1]
        OBVIOUS
    <2>1. p \in Seq(Nat) /\ p \in DOMAIN f /\ q \in DOMAIN f
        BY <1>2
    <2>2. p[k + 1] = q[k + 1]
        BY <1>4, <2>1 DEF Simple
    <2>3. p[k + 1] \in Nat
        <3>1. k + 1 \in 1 .. Len(p) /\ Len(p) \in Nat
            BY <2>1
        <3> HIDE DEF named
        <3> QED
            BY <2>1, <3>1
    <2> HIDE DEF named
    <2> QED
        BY <2>2, <2>3
<1>5. \A p \in named : f[p].kind = "condition" /\ f[p].field \in fields
    OBVIOUS
<1> HIDE DEF g
<1>6. CASE kept = {}
    <2>1. g = NoFilter
        BY <1>1, <1>6
    <2>2. Simple(f) => {c \in Conditions(f) : c.field \in fields} = {}
        BY <1>3, <1>4, <1>6
    <2> HIDE DEF kept, named
    <2> QED
        BY <2>1, <2>2, NoFilterFacts DEF g
<1>7. CASE kept # {}
    <2>1. g = [path \in DOMAIN g |-> g[path]] /\ DOMAIN g = D /\ \A path \in D : g[path] = f[path]
        BY <1>1, <1>7 DEF Restrict
    <2>2. ASSUME NEW path \in D
          PROVE  path \in DOMAIN f /\ path \in Seq(Nat) /\ \E p \in kept : IsPrefix(path, p)
        BY <1>2
    <2>3. ASSUME NEW path \in DOMAIN f, NEW p \in kept, IsPrefix(path, p)
          PROVE  path \in D
        BY <2>3
    <2> HIDE DEF D, kept, named
    <2>4. ASSUME NEW path \in DOMAIN f, NEW p \in kept, IsPrefix(path, p), path # p
          PROVE  f[path].kind # "condition" /\ IsStrictPrefix(path, p)
        <3>1. path \in Seq(Nat) /\ p \in Seq(Nat) /\ p \in DOMAIN f
            BY <1>2
        <3>2. IsStrictPrefix(path, p)
            BY <2>4 DEF IsStrictPrefix
        <3>3. Len(path) < Len(p) /\ path = SubSeq(p, 1, Len(path)) /\ Len(path) \in Nat /\ Len(p) \in Nat
            BY <3>1, <3>2, PrefixFacts
        <3>4. Len(path) \in 0 .. Len(p) - 1
            BY <3>3
        <3>5. f[SubSeq(p, 1, Len(path))].kind # "condition"
            BY <3>1, <3>4 DEF IsFilter
        <3> QED
            BY <3>2, <3>3, <3>5
    <2>5. kept \subseteq D
        <3> SUFFICES ASSUME NEW p \in kept
                     PROVE  p \in D
            OBVIOUS
        <3>1. p \in DOMAIN f /\ p \in Seq(Nat)
            BY <1>2
        <3>2. IsPrefix(p, p)
            BY <3>1, PrefixOfItself
        <3> QED
            BY <2>3, <3>1, <3>2
    <2>6. IsFilter(g)
        <3>1. <<>> \in D
            <4>1. PICK p \in kept : TRUE
                BY <1>7
            <4>2. p \in Seq(Nat)
                BY <1>2
            <4>3. IsPrefix(<<>>, p) /\ <<>> \in DOMAIN f
                BY <4>2, PrefixOfItself DEF IsFilter
            <4> QED
                BY <2>3, <4>3
        <3>2. ASSUME NEW path \in D, NEW k \in 0 .. Len(path) - 1
              PROVE  SubSeq(path, 1, k) \in D /\ f[SubSeq(path, 1, k)].kind \notin {"none", "condition"}
            <4>1. path \in DOMAIN f /\ path \in Seq(Nat)
                BY <2>2
            <4>2. SubSeq(path, 1, k) \in DOMAIN f
                    /\ f[SubSeq(path, 1, k)].kind \notin {"none", "condition"}
                BY <4>1 DEF IsFilter
            <4>3. PICK p \in kept : IsPrefix(path, p)
                BY <2>2
            <4>4. p \in Seq(Nat)
                BY <1>2
            <4>5. k \in 0 .. Len(path)
                BY <4>1
            <4>6. IsPrefix(SubSeq(path, 1, k), p)
                BY <4>1, <4>3, <4>4, <4>5, PrefixOfPrefix
            <4> QED
                BY <2>3, <4>2, <4>6
        <3>3. D \subseteq Seq(Nat)
            BY <2>2
        <3> QED
            BY <2>1, <3>1, <3>2, <3>3 DEF IsFilter
    <2>7. ASSUME WellFormed(f)
          PROVE  WellFormed(g)
        <3> SUFFICES ASSUME NEW path \in D
                     PROVE  NodeWellFormed(g, path)
            BY <2>1 DEF WellFormed, NodeWellFormed
        <3>1. path \in DOMAIN f /\ g[path] = f[path]
            BY <2>1, <2>2
        <3>2. PICK p \in kept : IsPrefix(path, p)
            BY <2>2
        <3>3. CASE path = p
            <4>1. f[path].kind = "condition"
                BY <1>2, <1>5, <3>3
            <4> QED
                BY <2>7, <3>1, <4>1 DEF WellFormed, NodeWellFormed
        <3>4. CASE path # p
            <4>1. f[path].kind # "condition" /\ IsStrictPrefix(path, p)
                BY <2>4, <3>1, <3>2, <3>4
            <4>2. p \in DOMAIN g
                BY <2>1, <2>5
            <4>3. f[path].kind = "none" \/ f[path].kind \in {"and", "or", "not"}
                BY <2>7, <3>1, <4>1 DEF WellFormed
            <4> QED
                BY <3>1, <4>1, <4>2, <4>3 DEF NodeWellFormed
        <3> QED
            BY <3>3, <3>4
    <2>8. ASSUME NEW path \in D, g[path].kind = "condition"
          PROVE  path \in named /\ g[path] = f[path]
        <3>1. path \in DOMAIN f /\ g[path] = f[path]
            BY <2>1, <2>2
        <3>2. PICK p \in kept : IsPrefix(path, p)
            BY <2>2
        <3>3. path = p
            BY <2>4, <2>8, <3>1, <3>2
        <3> QED
            BY <1>2, <3>1, <3>3
    <2>9. Conditions(g) \subseteq {f[p] : p \in named}
        BY <2>1, <2>8 DEF Conditions
    <2>10. ASSUME Simple(f)
           PROVE  {f[p] : p \in named} \subseteq Conditions(g)
        <3> SUFFICES ASSUME NEW p \in named
                     PROVE  f[p] \in Conditions(g)
            OBVIOUS
        <3>1. p \in DOMAIN g /\ g[p] = f[p] /\ g[p].kind = "condition"
            BY <1>4, <1>5, <2>1, <2>5, <2>10
        <3> QED
            BY <3>1 DEF Conditions
    <2> QED
        BY <1>3, <2>6, <2>7, <2>9, <2>10 DEF g
<1> QED
    BY <1>6, <1>7

(* What a mention adds to the filters.                                     *)
IsMention(f) ==
    /\ IsFilter(f) /\ Simple(f) /\ WellFormed(f)
    /\ \A c \in Conditions(f) : c.field = "class"

(* A class that a question includes or excludes adds a condition on the    *)
(* class, or a negated one, or nothing.                                    *)
LEMMA MentionFacts ==
    ASSUME NEW value
    PROVE  /\ IsMention(NoFilter) /\ IsMention(Condition("class", "in", {value}))
           /\ IsMention(Not(Condition("class", "in", {value})))
<1>1. IsMention(NoFilter)
    BY NoFilterFacts DEF IsMention
<1> DEFINE c == Condition("class", "in", {value})
<1>2. IsMention(c)
    BY ClassConditions DEF IsMention
<1> HIDE DEF c
<1>3. IsMention(Not(c))
    BY <1>2, NotFacts DEF IsMention
<1> QED
    BY <1>1, <1>2, <1>3 DEF c

(* The filters with what the question mentions: no condition is lost, and  *)
(* those that are added are on the class (_ensure_explicit_filters).       *)
AddsClasses(g, f) ==
    /\ IsFilter(g)
    /\ WellFormed(f) => WellFormed(g)
    /\ Simple(f) => Simple(g)
    /\ Conditions(f) \subseteq Conditions(g)
    /\ \A c \in Conditions(g) : c \in Conditions(f) \/ c.field = "class"

(* The classes a question names are added to the filters, from which       *)
(* nothing is taken (_ensure_explicit_filters).                            *)
LEMMA WithMentionsFacts ==
    ASSUME NEW p, IsFilter(p.filters), NEW q,
           q.included \in Seq(Range(q.included)), q.excluded \in Seq(Range(q.excluded))
    PROVE  AddsClasses(WithMentions(p, q), p.filters)
<1> DEFINE f == p.filters
           all == <<p.filters>> \o Operands(p)
           named == UNION {Named(all[n], "class") : n \in 1..3}
           negated == UNION {Negated(all[n], "class") : n \in 1..3}
           included == [n \in DOMAIN q.included |->
                IF q.included[n] \in named \cup negated THEN NoFilter
                ELSE Condition("class", "in", {q.included[n]})]
           excluded == [n \in DOMAIN q.excluded |->
                IF q.excluded[n] \in negated THEN NoFilter
                ELSE Not(Condition("class", "in", {q.excluded[n]}))]
           fs == <<p.filters>> \o included \o excluded
<1>1. WithMentions(p, q) = And(fs)
    BY DEF WithMentions
<1>2. /\ DOMAIN included = DOMAIN q.included /\ \A n \in DOMAIN included : IsMention(included[n])
      /\ DOMAIN excluded = DOMAIN q.excluded /\ \A n \in DOMAIN excluded : IsMention(excluded[n])
    <2> HIDE DEF named, negated
    <2> QED
        BY MentionFacts
<1>3. DOMAIN q.included = 1 .. Len(q.included) /\ Len(q.included) \in Nat
        /\ DOMAIN q.excluded = 1 .. Len(q.excluded) /\ Len(q.excluded) \in Nat
    OBVIOUS
<1> DEFINE T == {f} \cup {included[n] : n \in DOMAIN included} \cup {excluded[n] : n \in DOMAIN excluded}
<1>4. included = [n \in DOMAIN included |-> included[n]] /\ excluded = [n \in DOMAIN excluded |-> excluded[n]]
    OBVIOUS
<1> HIDE DEF named, negated, included, excluded
<1>5. included \in Seq(T) /\ excluded \in Seq(T) /\ <<f>> \in Seq(T)
    <2>1. included \in [1 .. Len(q.included) -> T]
        BY <1>2, <1>3, <1>4
    <2>2. excluded \in [1 .. Len(q.excluded) -> T]
        BY <1>2, <1>3, <1>4
    <2>3. included \in Seq(T)
        BY <1>3, <2>1
    <2>4. excluded \in Seq(T)
        BY <1>3, <2>2
    <2> QED
        BY <2>3, <2>4
<1>6. \A g \in T : g = f \/ IsMention(g)
    BY <1>2
<1> HIDE DEF T, f
<1>7. fs \in Seq(T) /\ fs = (<<f>> \o included) \o excluded
    BY <1>5 DEF f
<1>8. 1 \in DOMAIN fs /\ fs[1] = f
    <2>1. <<f>> \o included \in Seq(T) /\ Len(<<f>> \o included) >= 1 /\ (<<f>> \o included)[1] = f
        BY <1>5
    <2> DEFINE s == <<f>> \o included
    <2> HIDE DEF s
    <2>2. s \in Seq(T) /\ Len(s) \in Nat /\ Len(s) >= 1 /\ s[1] = f
        BY <2>1 DEF s
    <2>3. 1 \in DOMAIN (s \o excluded) /\ (s \o excluded)[1] = f
        BY <1>5, <2>2
    <2> QED
        BY <1>7, <2>3 DEF s
<1> HIDE DEF fs
<1>9. DOMAIN fs \subseteq Nat /\ \A n \in DOMAIN fs : fs[n] = f \/ IsMention(fs[n])
    <2>1. DOMAIN fs = 1 .. Len(fs) /\ Len(fs) \in Nat /\ \A n \in DOMAIN fs : fs[n] \in T
        BY <1>7
    <2> QED
        BY <1>6, <2>1
<1>10. IsFilter(f)
    BY DEF f
<1>11. AreFilters(fs)
    BY <1>9, <1>10 DEF AreFilters, IsMention
<1>12. IsConjunction(And(fs), fs)
    BY <1>11, AndFacts
<1>13. WellFormed(f) => WellFormed(And(fs))
    BY <1>9, <1>12 DEF IsConjunction, IsMention
<1>14. Simple(f) => Simple(And(fs))
    BY <1>9, <1>12 DEF IsConjunction, IsMention
<1>15. Conditions(f) \subseteq Conditions(And(fs))
    BY <1>8, <1>12 DEF IsConjunction
<1>16. ASSUME NEW c \in Conditions(And(fs))
       PROVE  c \in Conditions(f) \/ c.field = "class"
    <2>1. PICK n \in DOMAIN fs : c \in Conditions(fs[n])
        BY <1>12 DEF IsConjunction
    <2> QED
        BY <1>9, <2>1 DEF IsMention
<1>17. AddsClasses(And(fs), f)
    BY <1>12, <1>13, <1>14, <1>15, <1>16 DEF AddsClasses, IsConjunction
<1> QED
    BY <1>1, <1>17 DEF f

(* Where the parser understood the question, its conditions on the fields  *)
(* it decides, and of the others those that were there                     *)
(* (_replace_filter_dimensions).                                           *)
DecidedBy(g, f, understood) ==
    /\ WellFormed(f) => WellFormed(g)
    /\ \A c \in Conditions(g) :
          IF c.field \in RepairedFields THEN c \in Conditions(understood) ELSE c \in Conditions(f)
    /\ Simple(f) => \A c \in Conditions(f) :
          c.field \in DOMAIN FieldOperators \ RepairedFields => c \in Conditions(g)

(* What the parser understood takes the place of what the plan says of the *)
(* repaired fields; the rest of the plan stays                             *)
(* (_replace_filter_dimensions).                                           *)
LEMMA WithCandidateFacts ==
    ASSUME NEW f, IsFilter(f), NEW q, q.candidate.parsed,
           IsFilter(q.candidate.filters), WellFormed(q.candidate.filters)
    PROVE  DecidedBy(WithCandidate(f, q), f, q.candidate.filters)
<1> DEFINE rest == DOMAIN FieldOperators \ RepairedFields
           kept == OnlyFields(f, rest)
           u == q.candidate.filters
           said == OnlyFields(u, RepairedFields)
           fs == <<kept, said>>
<1>1. WithCandidate(f, q) = And(fs)
    BY DEF WithCandidate
<1>2. /\ IsFilter(kept) /\ WellFormed(f) => WellFormed(kept)
      /\ Conditions(kept) \subseteq {c \in Conditions(f) : c.field \in rest}
      /\ Simple(f) => {c \in Conditions(f) : c.field \in rest} \subseteq Conditions(kept)
    <2> HIDE DEF rest
    <2> QED
        BY OnlyFieldsFacts
<1>3. /\ IsFilter(kept) /\ IsFilter(said) /\ WellFormed(said)
      /\ Conditions(said) \subseteq {c \in Conditions(u) : c.field \in RepairedFields}
    <2>1. IsFilter(kept)
        <3> HIDE DEF rest
        <3> QED
            BY OnlyFieldsFacts
    <2> HIDE DEF u
    <2>2. IsFilter(u) /\ WellFormed(u)
        BY DEF u
    <2> QED
        BY <2>1, <2>2, OnlyFieldsFacts
<1> HIDE DEF kept, said, u
<1>4. DOMAIN fs = {1, 2} /\ fs[1] = kept /\ fs[2] = said
    OBVIOUS
<1> HIDE DEF fs
<1>5. AreFilters(fs)
    BY <1>3, <1>4 DEF AreFilters
<1>6. IsConjunction(And(fs), fs)
    BY <1>5, AndFacts
<1>7. Conditions(And(fs)) = Conditions(kept) \cup Conditions(said)
    BY <1>4, <1>6 DEF IsConjunction
<1>8. WellFormed(f) => WellFormed(And(fs))
    BY <1>2, <1>3, <1>4, <1>6 DEF IsConjunction
<1>9. DecidedBy(And(fs), f, u)
    BY <1>2, <1>3, <1>7, <1>8 DEF DecidedBy
<1> QED
    BY <1>1, <1>9 DEF u

(* A plan of which the filters are changed, and the group may be.          *)
HasFilters(p, q, F(_)) ==
    /\ IsPlan(p)
    /\ p.filters = F(q.filters)
    /\ p.comparison.left = F(q.comparison.left) /\ p.comparison.right = F(q.comparison.right)
    /\ p.comparison.operation = q.comparison.operation
    /\ p.shape = q.shape /\ p.order = q.order /\ p.metric = q.metric /\ p.cameras = q.cameras

(* Normalizing a plan normalizes its filters and leaves no group of        *)
(* cameras alone where several runs are selected                           *)
(* (_qwen_attempt_to_analytics_plan).                                      *)
LEMMA NormalizedPlanFacts ==
    ASSUME NEW p, IsPlan(p), NEW n,
           n = [p EXCEPT
                    !.filters = Normalized(@),
                    !.comparison.left = Normalized(@), !.comparison.right = Normalized(@),
                    !.group = GroupInScope([k \in DOMAIN @ |-> Normal(@[k])], FALSE)]
    PROVE  /\ HasFilters(n, p, Normalized)
           /\ Multiple => n.group # <<"camera">>
<1> DEFINE g == GroupInScope([k \in DOMAIN p.group |-> Normal(p.group[k])], FALSE)
           c == p.comparison
<1>1. /\ DOMAIN p = {"filters", "group", "shape", "order", "metric", "comparison", "cameras"}
      /\ DOMAIN c = {"operation", "left", "right"}
      /\ IsFilter(p.filters) /\ IsFilter(c.left) /\ IsFilter(c.right)
    BY DEF IsPlan, IsComparison
<1>2. /\ DOMAIN n = DOMAIN p
      /\ n.filters = Normalized(p.filters) /\ n.group = g
      /\ n.shape = p.shape /\ n.order = p.order /\ n.metric = p.metric /\ n.cameras = p.cameras
      /\ DOMAIN n.comparison = DOMAIN c
      /\ n.comparison.left = Normalized(c.left) /\ n.comparison.right = Normalized(c.right)
      /\ n.comparison.operation = c.operation
    BY <1>1
<1>3. IsFilter(Normalized(p.filters)) /\ IsFilter(Normalized(c.left)) /\ IsFilter(Normalized(c.right))
    BY <1>1, NormalizedFacts
<1>4. Multiple => g # <<"camera">>
    BY DEF GroupInScope
<1> HIDE DEF g
<1>5. HasFilters(n, p, Normalized)
    BY <1>1, <1>2, <1>3 DEF HasFilters, IsPlan, IsComparison
<1> QED
    BY <1>2, <1>4, <1>5

(* A plan that passed the check is built again without what is absent      *)
(* (_expression_from_payload).                                             *)
LEMMA BuiltPlanFacts ==
    ASSUME NEW p, IsPlan(p), NEW n,
           n = [p EXCEPT !.filters = Built(@), !.comparison.left = Built(@),
                         !.comparison.right = Built(@)]
    PROVE  HasFilters(n, p, Built) /\ n.group = p.group
<1> DEFINE c == p.comparison
<1>1. /\ DOMAIN p = {"filters", "group", "shape", "order", "metric", "comparison", "cameras"}
      /\ DOMAIN c = {"operation", "left", "right"}
      /\ IsFilter(p.filters) /\ IsFilter(c.left) /\ IsFilter(c.right)
    BY DEF IsPlan, IsComparison
<1>2. /\ DOMAIN n = DOMAIN p
      /\ n.filters = Built(p.filters) /\ n.group = p.group
      /\ n.shape = p.shape /\ n.order = p.order /\ n.metric = p.metric /\ n.cameras = p.cameras
      /\ DOMAIN n.comparison = DOMAIN c
      /\ n.comparison.left = Built(c.left) /\ n.comparison.right = Built(c.right)
      /\ n.comparison.operation = c.operation
    BY <1>1
<1>3. IsFilter(Built(p.filters)) /\ IsFilter(Built(c.left)) /\ IsFilter(Built(c.right))
    BY <1>1, BuiltFacts
<1>4. HasFilters(n, p, Built)
    BY <1>1, <1>2, <1>3 DEF HasFilters, IsPlan, IsComparison
<1> QED
    BY <1>2, <1>4

(* What the check of the schema demands besides the filters.               *)
RestOfCatalogue(p) ==
    /\ Range(p.group) \subseteq GroupFields /\ p.shape \in ResultShapes
    /\ p.order \in {"none", "asc", "desc"}
    /\ p.metric \in {"none", "count", "incomplete"}
RestOfSchema(p) == RestOfCatalogue(p) /\ KnownOperation(p.comparison)
(* Both operands of a comparison are in the catalogue.                     *)
OperandsWellFormed(p) == WellFormed(p.comparison.left) /\ WellFormed(p.comparison.right)

(* A group of a single field of the catalogue.                             *)
LEMMA GroupInScopeFacts ==
    ASSUME NEW g, Range(g) \subseteq GroupFields, NEW combined
    PROVE  /\ Range(GroupInScope(g, combined)) \subseteq GroupFields
           /\ Multiple /\ ~ combined => GroupInScope(g, combined) # <<"camera">>
<1>1. Range(<<"run_camera">>) \subseteq GroupFields
    BY DEF Range, GroupFields
<1> QED
    BY <1>1 DEF GroupInScope

(* What a question asks to group by is a field of the catalogue.           *)
LEMMA GroupAskedFacts ==
    ASSUME NEW q, {q.scope, q.ranked} \subseteq GroupFields \cup {"none"}
    PROVE  Range(GroupAsked(q)) \subseteq GroupFields
<1>1. q.scope # "none" => Range(<<q.scope>>) \subseteq GroupFields
    BY DEF Range
<1>2. q.ranked # "none" => Range(<<q.ranked>>) \subseteq GroupFields
    BY DEF Range
<1>3. Range(<<>>) \subseteq GroupFields
    BY DEF Range
<1> QED
    BY <1>1, <1>2, <1>3 DEF GroupAsked

(* A comparison the check knows, or the one the parser read.               *)
OperationKnownOrRead(p, q) ==
    \/ KnownOperation(p.comparison)
    \/ q.candidate.parsed /\ p.comparison = q.candidate.comparison

(* What the repair makes of a plan that passed the check                   *)
(* (_repair_analytics_plan).                                               *)
LEMMA RepairedFacts ==
    ASSUME NEW p, IsPlan(p), RestOfSchema(p), NEW q \in ChatQuestions
    PROVE  LET r == Repaired(p, q)
           IN  /\ r.filters = WithCandidate(WithMentions(p, q), q)
               /\ OperandsWellFormed(p) => OperandsWellFormed(r)
               /\ RestOfCatalogue(r) /\ OperationKnownOrRead(r, q)
               /\ Multiple /\ ~ q.sameNamed => r.group # <<"camera">>
<1> DEFINE filters == WithCandidate(WithMentions(p, q), q)
           compares == q.candidate.parsed /\ p.comparison.operation = "none"
                            /\ q.candidate.comparison.operation # "none"
           comparison == IF compares THEN q.candidate.comparison ELSE p.comparison
           regroups == p.group = <<>> /\ GroupAsked(q) # <<>>
           asked1 == IF regroups THEN GroupAsked(q) ELSE p.group
           group == GroupInScope(asked1, q.sameNamed)
           orders == p.order = "none" /\ q.order # "none" /\ group # <<>>
           shape == IF orders THEN "ranking" ELSE IF regroups THEN ShapeAsked(q)
                    ELSE IF compares THEN "comparison" ELSE p.shape
           metric == IF q.candidate.parsed /\ p.metric = "none" THEN q.candidate.metric ELSE p.metric
           order == IF orders THEN q.order
                    ELSE IF shape = "ranking" /\ p.order = "none" THEN "desc" ELSE p.order
           cameras == IF ReferencesCamera([p EXCEPT !.filters = filters,
                                                    !.comparison = comparison], group)
                      THEN p.cameras ELSE q.cameras
           r == Repaired(p, q)
<1>1. r = [p EXCEPT !.filters = filters, !.comparison = comparison, !.group = group,
                    !.shape = shape, !.metric = metric, !.order = order, !.cameras = cameras]
    BY DEF Repaired
<1>2. DOMAIN p = {"filters", "group", "shape", "order", "metric", "comparison", "cameras"}
    BY DEF IsPlan
<1>3. /\ Range(asked1) \subseteq GroupFields
      /\ shape \in ResultShapes
      /\ order \in {"none", "asc", "desc"}
      /\ metric \in {"none", "count", "incomplete"}
      /\ \/ KnownOperation(comparison)
         \/ q.candidate.parsed /\ comparison = q.candidate.comparison
      /\ OperandsWellFormed(p) => WellFormed(comparison.left) /\ WellFormed(comparison.right)
    <2>1. /\ {q.scope, q.ranked} \subseteq GroupFields \cup {"none"}
          /\ q.order \in {"none", "asc", "desc"}
          /\ q.candidate.metric \in {"none", "count"}
          /\ WellFormed(q.candidate.comparison.left) /\ WellFormed(q.candidate.comparison.right)
        BY PlanAssumption DEF PlanAssumption
    <2>2. Range(GroupAsked(q)) \subseteq GroupFields
        BY <2>1, GroupAskedFacts
    <2>3. Range(asked1) \subseteq GroupFields
        BY <2>2 DEF RestOfSchema, RestOfCatalogue
    <2>4. shape \in ResultShapes
        <3>1. {"ranking", "comparison", ShapeAsked(q), p.shape} \subseteq ResultShapes
            BY DEF ShapeAsked, ResultShapes, RestOfSchema, RestOfCatalogue
        <3> HIDE DEF orders, regroups, compares
        <3> QED
            BY <3>1
    <2>5. order \in {"none", "asc", "desc"}
        <3> HIDE DEF orders, shape
        <3> QED
            BY <2>1 DEF RestOfSchema, RestOfCatalogue
    <2>6. metric \in {"none", "count", "incomplete"}
        BY <2>1 DEF RestOfSchema, RestOfCatalogue
    <2>7. \/ KnownOperation(comparison)
          \/ q.candidate.parsed /\ comparison = q.candidate.comparison
        BY DEF RestOfSchema
    <2>8. OperandsWellFormed(p) => WellFormed(comparison.left) /\ WellFormed(comparison.right)
        <3> HIDE DEF compares
        <3> QED
            BY <2>1 DEF OperandsWellFormed
    <2> QED
        BY <2>3, <2>4, <2>5, <2>6, <2>7, <2>8
<1> HIDE DEF asked1
<1>4. Range(group) \subseteq GroupFields /\ (Multiple /\ ~ q.sameNamed => group # <<"camera">>)
    BY <1>3, GroupInScopeFacts
<1> HIDE DEF filters, comparison, group, shape, metric, order, cameras, r
<1>5. /\ r.filters = filters /\ r.comparison = comparison /\ r.group = group
      /\ r.shape = shape /\ r.metric = metric /\ r.order = order
    BY <1>1, <1>2
<1>6. OperandsWellFormed(p) => OperandsWellFormed(r)
    BY <1>3, <1>5 DEF OperandsWellFormed
<1>7. RestOfCatalogue(r) /\ OperationKnownOrRead(r, q)
    BY <1>3, <1>4, <1>5 DEF RestOfCatalogue, OperationKnownOrRead
<1> QED
    BY <1>4, <1>5, <1>6, <1>7 DEF filters, r

-----------------------------------------------------------------------------
(* QueryPlans: the stages of a plan                                        *)

(* The inductive invariant of a plan on its way: at each stage what the    *)
(* stages before it made of the proposal.                                  *)
BuiltFrom(f) == Built(Normalized(f))
StagesInv ==
    /\ asked \in ChatQuestions /\ proposal \in Proposals
    /\ planStage = "proposed" => plan = proposal
    /\ planStage = "normalized" =>
            HasFilters(plan, proposal, Normalized) /\ (Multiple => plan.group # <<"camera">>)
    /\ planStage = "built" =>
            /\ HasFilters(plan, proposal, BuiltFrom) /\ RestOfSchema(plan)
            /\ WellFormed(Normalized(proposal.filters))
            /\ Multiple => plan.group # <<"camera">>
(* With it, what is promised of the plan that is executed.                 *)
PlanInv == StagesInv /\ RepairsStayValid /\ ParserDecides

(* A question starts with the proposal, which is a plan.                   *)
LEMMA PlanInitInv == PlanInit => PlanInv
<1> SUFFICES ASSUME PlanInit
             PROVE  PlanInv
    OBVIOUS
<1>1. planStage = "proposed"
    BY DEF PlanInit
<1> QED
    BY <1>1 DEF PlanInit, PlanInv, StagesInv, RepairsStayValid, ParserDecides

(* Normalizing the proposal (_qwen_attempt_to_analytics_plan).             *)
LEMMA NormalizeKeeps ==
    ASSUME PlanInv, NormalizePlan
    PROVE  PlanInv'
<1>1. planStage = "proposed" /\ planStage' = "normalized"
      /\ asked' = asked /\ proposal' = proposal /\ runScope' = runScope
    BY DEF NormalizePlan
<1>2. plan = proposal /\ IsPlan(proposal) /\ asked \in ChatQuestions /\ proposal \in Proposals
    BY <1>1, PlanAssumption DEF PlanInv, StagesInv, PlanAssumption
<1> DEFINE n == plan'
<1>3. n = [proposal EXCEPT
            !.filters = Normalized(@),
            !.comparison.left = Normalized(@), !.comparison.right = Normalized(@),
            !.group = GroupInScope([k \in DOMAIN @ |-> Normal(@[k])], FALSE)]
    BY <1>2 DEF NormalizePlan
<1> HIDE DEF n
<1>4. HasFilters(n, proposal, Normalized) /\ (Multiple => n.group # <<"camera">>)
    BY <1>2, <1>3, NormalizedPlanFacts
<1>5. HasFilters(plan', proposal', Normalized) /\ (Multiple' => plan'.group # <<"camera">>)
    BY <1>1, <1>4 DEF n, Multiple, HasFilters
<1>6. StagesInv'
    BY <1>1, <1>2, <1>5 DEF StagesInv
<1>7. RepairsStayValid' /\ ParserDecides'
    BY <1>1 DEF RepairsStayValid, ParserDecides
<1> QED
    BY <1>6, <1>7 DEF PlanInv

(* Checking a plan against the catalogue (validate_analytics_plan_schema). *)
LEMMA CheckSchemaKeeps ==
    ASSUME PlanInv, CheckSchema
    PROVE  PlanInv'
<1>1. planStage = "normalized" /\ asked' = asked /\ proposal' = proposal /\ runScope' = runScope
    BY DEF CheckSchema
<1>2. /\ HasFilters(plan, proposal, Normalized) /\ (Multiple => plan.group # <<"camera">>)
      /\ asked \in ChatQuestions /\ proposal \in Proposals
    BY <1>1 DEF PlanInv, StagesInv
<1>3. CASE ~ SchemaValid(plan)
    <2>1. planStage' = "refused"
        BY <1>3 DEF CheckSchema
    <2> QED
        BY <1>1, <1>2, <2>1 DEF PlanInv, StagesInv, RepairsStayValid, ParserDecides
<1>4. CASE SchemaValid(plan)
    <2> DEFINE n == plan'
    <2>1. planStage' = "built"
            /\ n = [plan EXCEPT !.filters = Built(@), !.comparison.left = Built(@),
                                !.comparison.right = Built(@)]
        BY <1>4 DEF CheckSchema
    <2> HIDE DEF n
    <2>2. HasFilters(n, plan, Built) /\ n.group = plan.group
        BY <1>2, <2>1, BuiltPlanFacts DEF HasFilters
    <2>3. HasFilters(n, proposal, BuiltFrom)
        BY <1>2, <2>2 DEF HasFilters, BuiltFrom
    <2>4. RestOfSchema(n) /\ WellFormed(Normalized(proposal.filters))
        BY <1>2, <1>4, <2>2 DEF HasFilters, SchemaValid, InCatalogue, RestOfSchema, RestOfCatalogue,
                                KnownOperation
    <2>5. /\ HasFilters(plan', proposal', BuiltFrom) /\ RestOfSchema(plan')
          /\ WellFormed(Normalized(proposal'.filters))
        BY <1>1, <2>3, <2>4 DEF n, HasFilters, RestOfSchema, RestOfCatalogue, KnownOperation
    <2>6. Multiple' => plan'.group # <<"camera">>
        BY <1>1, <1>2, <2>2 DEF n, Multiple
    <2>7. StagesInv'
        BY <1>1, <1>2, <2>1, <2>5, <2>6 DEF StagesInv
    <2>8. RepairsStayValid'
        BY <2>1, <2>6 DEF RepairsStayValid
    <2>9. ParserDecides'
        BY <2>1 DEF ParserDecides
    <2> QED
        BY <2>7, <2>8, <2>9 DEF PlanInv
<1> QED
    BY <1>3, <1>4

(* A repaired plan is in the catalogue where its filters were, but perhaps *)
(* for the operation of a comparison (_repair_analytics_plan).             *)
LEMMA RepairedIsValid ==
    ASSUME NEW p, HasFilters(p, proposal, BuiltFrom), RestOfSchema(p), NEW q \in ChatQuestions,
           WellFormed(BuiltFrom(proposal.filters)),
           \A f \in Range(Operands(proposal)) : WellFormed(BuiltFrom(f))
    PROVE  InCatalogue(Repaired(p, q)) /\ OperationKnownOrRead(Repaired(p, q), q)
<1> DEFINE r == Repaired(p, q)  m == WithMentions(p, q)
<1>1. IsPlan(p) /\ IsFilter(p.filters) /\ WellFormed(p.filters)
    BY DEF HasFilters, IsPlan
<1>2. OperandsWellFormed(p)
    <2>1. Range(Operands(proposal)) = {proposal.comparison.left, proposal.comparison.right}
        BY DEF Operands, Range
    <2> QED
        BY <2>1 DEF HasFilters, OperandsWellFormed
<1>3. /\ r.filters = WithCandidate(m, q) /\ OperandsWellFormed(r)
      /\ RestOfCatalogue(r) /\ OperationKnownOrRead(r, q)
    BY <1>1, <1>2, RepairedFacts
<1>4. /\ q.included \in Seq(Range(q.included)) /\ q.excluded \in Seq(Range(q.excluded))
      /\ IsFilter(q.candidate.filters) /\ WellFormed(q.candidate.filters)
    BY PlanAssumption DEF PlanAssumption
<1>5. IsFilter(m) /\ WellFormed(m)
    BY <1>1, <1>4, WithMentionsFacts DEF AddsClasses
<1> HIDE DEF m
<1>6. WellFormed(WithCandidate(m, q))
    <2>1. CASE ~ q.candidate.parsed
        BY <1>5, <2>1 DEF WithCandidate
    <2>2. CASE q.candidate.parsed
        BY <1>4, <1>5, <2>2, WithCandidateFacts DEF DecidedBy
    <2> QED
        BY <2>1, <2>2
<1> HIDE DEF r
<1>7. InCatalogue(r)
    BY <1>3, <1>6 DEF InCatalogue, RestOfCatalogue, OperandsWellFormed
<1> QED
    BY <1>3, <1>7 DEF r

(* What a repaired plan says of the fields the parser decides, and of the  *)
(* others.                                                                 *)
Decides(filters, q) ==
    LET understood == Conditions(q.candidate.filters)
        proposed == Conditions(Normalized(proposal.filters))
    IN  /\ \A c \in Conditions(filters) :
                c \in IF c.field \in RepairedFields THEN understood ELSE proposed
        /\ Simple(proposal.filters) =>
                {c \in proposed : c.field \notin RepairedFields} \subseteq Conditions(filters)

(* After the repair the parser decides on the fields it understood, and    *)
(* the proposal on the others (_repair_analytics_plan).                    *)
LEMMA RepairedDecides ==
    ASSUME NEW p, HasFilters(p, proposal, BuiltFrom), RestOfSchema(p), NEW q \in ChatQuestions,
           IsPlan(proposal), WellFormed(Normalized(proposal.filters)), q.candidate.parsed
    PROVE  Decides(Repaired(p, q).filters, q)
<1> DEFINE r == Repaired(p, q)  m == WithMentions(p, q)  f == Normalized(proposal.filters)
           g == WithCandidate(m, q)
<1>1. IsPlan(p) /\ IsFilter(p.filters) /\ p.filters = Built(f) /\ IsFilter(f)
        /\ (Simple(proposal.filters) => Simple(f))
    BY NormalizedFacts DEF HasFilters, IsPlan, BuiltFrom
<1>2. r.filters = g
    BY <1>1, RepairedFacts
<1>3. /\ q.included \in Seq(Range(q.included)) /\ q.excluded \in Seq(Range(q.excluded))
      /\ IsFilter(q.candidate.filters) /\ WellFormed(q.candidate.filters)
    BY PlanAssumption DEF PlanAssumption
<1>4. AddsClasses(m, p.filters)
    BY <1>1, <1>3, WithMentionsFacts
<1> HIDE DEF m
<1>5. DecidedBy(g, m, q.candidate.filters)
    BY <1>3, <1>4, WithCandidateFacts DEF AddsClasses
<1> HIDE DEF g, f
<1>6. Conditions(p.filters) = Conditions(f) /\ (Simple(f) => Simple(p.filters))
    BY <1>1, BuiltFacts
<1>7. ASSUME NEW c \in Conditions(g)
      PROVE  c \in IF c.field \in RepairedFields THEN Conditions(q.candidate.filters)
                   ELSE Conditions(f)
    <2>1. CASE c.field \in RepairedFields
        BY <1>5, <2>1 DEF DecidedBy
    <2>2. CASE c.field \notin RepairedFields
        <3>1. c \in Conditions(m) /\ c.field # "class"
            BY <1>5, <2>2 DEF DecidedBy, RepairedFields
        <3> QED
            BY <1>4, <1>6, <2>2, <3>1 DEF AddsClasses
    <2> QED
        BY <2>1, <2>2
<1>8. ASSUME Simple(proposal.filters), NEW c \in Conditions(f), c.field \notin RepairedFields
      PROVE  c \in Conditions(g)
    <2>1. Simple(m) /\ c \in Conditions(m)
        BY <1>1, <1>4, <1>6, <1>8 DEF AddsClasses
    <2>2. c.field \in DOMAIN FieldOperators
        <3>1. PICK path \in DOMAIN f : f[path].kind = "condition" /\ c = f[path]
            BY DEF Conditions
        <3>2. WellFormed(f)
            BY DEF f
        <3> QED
            BY <3>1, <3>2 DEF WellFormed
    <2> QED
        BY <1>5, <1>8, <2>1, <2>2 DEF DecidedBy
<1>9. Decides(g, q)
    BY <1>7, <1>8 DEF Decides, f
<1> QED
    BY <1>2, <1>9 DEF g

(* Repairing a plan (_repair_analytics_plan).                              *)
LEMMA RepairKeeps ==
    ASSUME PlanInv, RepairPlan
    PROVE  PlanInv'
<1> DEFINE r == Repaired(plan, asked)
           known == r.cameras \subseteq UNION {CamerasOf[run] : run \in runScope}
<1>1. /\ planStage = "built" /\ asked' = asked /\ proposal' = proposal /\ runScope' = runScope
      /\ planStage' = IF known THEN "repaired" ELSE "refused"
      /\ plan' = IF known THEN r ELSE plan
    BY DEF RepairPlan
<1> HIDE DEF known
<1>2. /\ HasFilters(plan, proposal, BuiltFrom) /\ RestOfSchema(plan) /\ IsPlan(plan)
      /\ WellFormed(Normalized(proposal.filters))
      /\ asked \in ChatQuestions /\ proposal \in Proposals /\ IsPlan(proposal)
    BY <1>1, PlanAssumption DEF PlanInv, StagesInv, PlanAssumption, HasFilters
<1>3. StagesInv'
    BY <1>1, <1>2 DEF StagesInv
<1>4. CASE ~ known
    BY <1>1, <1>3, <1>4 DEF PlanInv, RepairsStayValid, ParserDecides
<1>5. CASE known
    <2>1. planStage' = "repaired" /\ plan' = r
        BY <1>1, <1>5
    <2>2. WellFormed(BuiltFrom(proposal.filters))
            /\ (\A f \in Range(Operands(proposal)) : WellFormed(BuiltFrom(f))) =>
            InCatalogue(r) /\ OperationKnownOrRead(r, asked)
        BY <1>2, RepairedIsValid
    <2>3. Multiple /\ ~ asked.sameNamed => r.group # <<"camera">>
        BY <1>2, RepairedFacts
    <2>4. asked.candidate.parsed => Decides(r.filters, asked)
        BY <1>2, RepairedDecides
    <2> HIDE DEF r
    <2>5. RepairsStayValid'
        <3>1. (InCatalogue(plan)' <=> InCatalogue(r)) /\ plan'.comparison = r.comparison
            BY <2>1 DEF InCatalogue
        <3>2. Multiple' <=> Multiple
            BY <1>1 DEF Multiple
        <3>3. Operands(proposal)' = Operands(proposal) /\ proposal'.filters = proposal.filters
            BY <1>1 DEF Operands
        <3> QED
            BY <1>1, <2>1, <2>2, <2>3, <3>1, <3>2, <3>3
            DEF RepairsStayValid, BuiltFrom, OperationKnownOrRead, KnownOperation
    <2>6. ParserDecides'
        BY <1>1, <2>1, <2>4 DEF ParserDecides, Decides
    <2> QED
        BY <1>3, <2>5, <2>6 DEF PlanInv
<1> QED
    BY <1>4, <1>5

(* Checking what a plan means (validate_analytics_plan_semantics).         *)
LEMMA CheckSemanticsKeeps ==
    ASSUME PlanInv, CheckSemantics
    PROVE  PlanInv'
<1>1. /\ planStage = "repaired" /\ asked' = asked /\ proposal' = proposal /\ runScope' = runScope
      /\ plan' = plan
      /\ planStage' = IF SemanticsValid(plan) THEN "accepted" ELSE "refused"
    BY DEF CheckSemantics
<1>2. StagesInv'
    BY <1>1 DEF PlanInv, StagesInv
<1>3. Multiple' <=> Multiple
    BY <1>1 DEF Multiple
<1>4. RepairsStayValid'
    BY <1>1, <1>3 DEF PlanInv, RepairsStayValid, SemanticsValid, SchemaValid, InCatalogue,
                      KnownOperation, Operands
<1>5. ParserDecides'
    BY <1>1 DEF PlanInv, ParserDecides
<1> QED
    BY <1>2, <1>4, <1>5 DEF PlanInv

(* Every plan on its way satisfies the invariant.                          *)
THEOREM PlanInvariant == PlanSpec => []PlanInv
<1>1. PlanInit => PlanInv
    BY PlanInitInv
<1>2. PlanInv /\ [PlanNext]_planVars => PlanInv'
    <2> SUFFICES ASSUME PlanInv, [PlanNext]_planVars
                 PROVE  PlanInv'
        OBVIOUS
    <2>1. CASE NormalizePlan
        BY <2>1, NormalizeKeeps
    <2>2. CASE CheckSchema
        BY <2>2, CheckSchemaKeeps
    <2>3. CASE RepairPlan
        BY <2>3, RepairKeeps
    <2>4. CASE CheckSemantics
        BY <2>4, CheckSemanticsKeeps
    <2>5. CASE UNCHANGED planVars
        <3>1. /\ asked' = asked /\ proposal' = proposal /\ runScope' = runScope
              /\ plan' = plan /\ planStage' = planStage
            BY <2>5 DEF planVars
        <3> QED
            BY <3>1 DEF PlanInv, StagesInv, RepairsStayValid, ParserDecides, Multiple,
                        SchemaValid, InCatalogue, KnownOperation, Operands, HasFilters,
                        RestOfSchema, RestOfCatalogue
    <2> QED
        BY <2>1, <2>2, <2>3, <2>4, <2>5 DEF PlanNext
<1> QED
    BY <1>1, <1>2, PTL DEF PlanSpec

(* An executed plan is in the catalogue, a repaired one leaves it only by  *)
(* the parser's comparison over time, and the parser decides what it       *)
(* understood (_repair_analytics_plan, _replace_filter_dimensions,         *)
(* validate_analytics_plan_semantics).                                     *)
THEOREM PlansHoldTheorem == PlanSpec => [](RepairsStayValid /\ ParserDecides)
<1>1. PlanInv => RepairsStayValid /\ ParserDecides
    BY DEF PlanInv
<1> QED
    BY <1>1, PlanInvariant, PTL

-----------------------------------------------------------------------------
(* QueryAnswers                                                            *)

(* The inductive invariant of a conversation: every answer is what         *)
(* executing an accepted plan gives, with the identifiers of the answer    *)
(* before it where the plan refers to those (execute_analytics_plan).      *)
IdsAfter(past, n) == IF n = 0 THEN {} ELSE past[n].ids
(* An answer is what some accepted plan gives.                             *)
IsAnswer(answer, list, previous) ==
    \E p \in AcceptedPlans : answer = Executed(list, p, IF p.refers THEN previous ELSE {})
AnswersInv ==
    /\ vehicleRecords \in RecordLists
    /\ answersGiven \in Seq(Range(answersGiven))
    /\ answerIds = IdsAfter(answersGiven, Len(answersGiven))
    /\ \A n \in DOMAIN answersGiven :
            IsAnswer(answersGiven[n], vehicleRecords, IdsAfter(answersGiven, n - 1))

(* A conversation starts without answers.                                  *)
LEMMA AnswersInitInv == AnswersInit => AnswersInv
<1> SUFFICES ASSUME AnswersInit
             PROVE  AnswersInv
    OBVIOUS
<1>1. answersGiven = <<>> /\ Len(answersGiven) = 0 /\ DOMAIN answersGiven = {}
    BY DEF AnswersInit
<1>2. answersGiven \in Seq(Range(answersGiven))
    BY <1>1
<1> QED
    BY <1>1, <1>2 DEF AnswersInit, AnswersInv, IdsAfter

(* An answer more.                                                         *)
LEMMA ExecuteKeeps ==
    ASSUME AnswersInv, NEW p \in AcceptedPlans, ExecutePlan(p)
    PROVE  AnswersInv'
<1> PICK past : past = answersGiven
    OBVIOUS
<1> PICK later : later = answersGiven'
    OBVIOUS
<1> PICK answer : answer = Executed(vehicleRecords, p, IF p.refers THEN answerIds ELSE {})
    OBVIOUS
<1> DEFINE n == Len(past)  T == Range(past) \cup {answer}
<1>1. /\ later = Append(past, answer) /\ answerIds' = answer.ids
      /\ vehicleRecords' = vehicleRecords
    BY DEF ExecutePlan
<1>2. past \in Seq(Range(past)) /\ n \in Nat /\ DOMAIN past = 1 .. n
    BY DEF AnswersInv
<1>3. past \in Seq(T) /\ answer \in T
    BY <1>2, SeqMonotonic
<1> HIDE DEF T
<1>4. /\ later \in Seq(T) /\ Len(later) = n + 1 /\ later[n + 1] = answer
      /\ DOMAIN later = 1 .. n + 1 /\ \A i \in 1 .. n : later[i] = past[i]
    BY <1>1, <1>3, AppendProperties
<1>5. later \in Seq(Range(later))
    BY <1>4, RangeOfSeq, SeqOfRange
<1>6. answerIds' = IdsAfter(later, Len(later))
    BY <1>1, <1>2, <1>4 DEF IdsAfter
<1>7. \A i \in 1 .. n + 1 : IdsAfter(later, i - 1) = IdsAfter(past, i - 1)
    BY <1>2, <1>4 DEF IdsAfter
<1>8. ASSUME NEW i \in 1 .. n + 1
      PROVE  IsAnswer(later[i], vehicleRecords, IdsAfter(later, i - 1))
    <2>1. CASE i = n + 1
        <3>1. i - 1 = n /\ answerIds = IdsAfter(past, n)
            BY <1>2, <2>1 DEF AnswersInv
        <3>2. IsAnswer(answer, vehicleRecords, answerIds)
            BY DEF IsAnswer
        <3> QED
            BY <1>4, <1>7, <2>1, <3>1, <3>2
    <2>2. CASE i # n + 1
        <3>1. i \in 1 .. n
            BY <1>2, <2>2
        <3>2. IsAnswer(past[i], vehicleRecords, IdsAfter(past, i - 1))
            BY <1>2, <3>1 DEF AnswersInv
        <3> QED
            BY <1>4, <1>7, <3>1, <3>2
    <2> QED
        BY <2>1, <2>2
<1>9. \A i \in DOMAIN later : IsAnswer(later[i], vehicleRecords', IdsAfter(later, i - 1))
    BY <1>1, <1>4, <1>8
<1> QED
    BY <1>1, <1>5, <1>6, <1>9 DEF AnswersInv, IsAnswer

(* Every answer of a conversation is one to an accepted plan.              *)
THEOREM AnswersInvariant == AnswersSpec => []AnswersInv
<1>1. AnswersInv /\ [AnswersNext]_answerVars => AnswersInv'
    <2> SUFFICES ASSUME AnswersInv, [AnswersNext]_answerVars
                 PROVE  AnswersInv'
        OBVIOUS
    <2>1. ASSUME NEW p \in AcceptedPlans, ExecutePlan(p)
          PROVE  AnswersInv'
        BY <2>1, ExecuteKeeps
    <2>2. CASE UNCHANGED answerVars
        <3>1. vehicleRecords' = vehicleRecords /\ answersGiven' = answersGiven /\ answerIds' = answerIds
            BY <2>2 DEF answerVars
        <3> QED
            BY <3>1 DEF AnswersInv
    <2> QED
        BY <2>1, <2>2 DEF AnswersNext
<1> QED
    BY <1>1, AnswersInitInv, PTL DEF AnswersSpec

-----------------------------------------------------------------------------
(* Which vehicles an answer is about                                       *)

(* A selection keeps vehicles of the list in their places, those of the    *)
(* selected runs and of the answer before (_apply_plan_filters).           *)
Selects(found, list, p, previous) ==
    /\ found = [n \in DOMAIN found |-> found[n]]
    /\ DOMAIN found \subseteq DOMAIN list
    /\ \A n \in DOMAIN found :
        /\ found[n] = list[n] /\ list[n].run \in p.runs
        /\ previous = {} \/ {Here(list[n]), Scoped(list[n])} \cap previous # {}

(* What a plan selects is in the records, in its runs, and among the       *)
(* vehicles of the answer it refers to (_apply_plan_filters).              *)
LEMMA SelectionFacts ==
    ASSUME NEW list \in RecordLists, NEW p \in AcceptedPlans, NEW previous
    PROVE  Selects(MatchedBy(list, p, previous), list, p, previous)
<1> DEFINE found == MatchedBy(list, p, previous)
<1>1. p.runs # {}
    BY AnswersAssumption DEF AnswersAssumption
<1>2. /\ found = [n \in DOMAIN found |-> list[n]]
      /\ \A n \in DOMAIN found :
            /\ n \in DOMAIN list
            /\ p.runs = {} \/ list[n].run \in p.runs
            /\ previous = {} \/ {Here(list[n]), Scoped(list[n])} \cap previous # {}
    BY DEF MatchedBy, Restrict
<1> HIDE DEF found
<1>3. \A n \in DOMAIN found : found[n] = list[n]
    BY <1>2
<1>4. found = [n \in DOMAIN found |-> found[n]]
    BY <1>2
<1> QED
    BY <1>1, <1>2, <1>3, <1>4 DEF Selects, found

(* A set with one element at most.                                         *)
LEMMA OneAtMost ==
    ASSUME NEW S, IsFiniteSet(S), ~ (Cardinality(S) > 1), NEW a \in S, NEW b \in S
    PROVE  a = b
<1> SUFFICES ASSUME a # b
             PROVE  FALSE
    OBVIOUS
<1>1. IsFiniteSet({a}) /\ Cardinality({a}) = 1
    BY FS_Singleton
<1>2. Cardinality({a} \cup {b}) = 2
    <2>1. b \notin {a}
        OBVIOUS
    <2>2. Cardinality({a} \cup {b}) = Cardinality({a}) + 1
        BY <1>1, <2>1, FS_AddElement
    <2> QED
        BY <1>1, <2>2
<1>3. {a} \cup {b} \subseteq S
    OBVIOUS
<1>4. Cardinality({a} \cup {b}) <= Cardinality(S) /\ Cardinality(S) \in Nat
    BY <1>3, FS_Subset, FS_CardinalityType
<1> QED
    BY <1>2, <1>4

(* In the runs of a plan an identifier is that of one vehicle              *)
(* (_result_vehicle_id).                                                   *)
LEMMA IdsIdentify ==
    ASSUME NEW list \in RecordLists, NEW p \in AcceptedPlans,
           NEW k \in DOMAIN list, NEW m \in DOMAIN list,
           list[k].run \in p.runs, list[m].run \in p.runs,
           ResultId(list[k], p) \in {Here(list[m]), Scoped(list[m])}
    PROVE  k = m
<1> DEFINE r == list[k]  x == list[m]
<1>1. /\ r.run # "here" /\ x.run # "here"
      /\ r.run = x.run /\ r.id = x.id => k = m
    BY AnswersAssumption DEF AnswersAssumption
<1>2. IsFiniteSet(p.runs)
    BY AnswersAssumption DEF AnswersAssumption
<1>3. r.run \in p.runs /\ x.run \in p.runs /\ ResultId(r, p) \in {Here(x), Scoped(x)}
    OBVIOUS
<1> HIDE DEF r, x
<1>4. CASE Cardinality(p.runs) > 1
    <2>1. <<r.run, r.id>> \in {<<"here", x.id>>, <<x.run, x.id>>}
        BY <1>3, <1>4 DEF ResultId, Here, Scoped
    <2>2. r.run = x.run /\ r.id = x.id
        BY <1>1, <2>1
    <2> QED
        BY <1>1, <2>2
<1>5. CASE ~ (Cardinality(p.runs) > 1)
    <2>1. <<"here", r.id>> \in {<<"here", x.id>>, <<x.run, x.id>>}
        BY <1>3, <1>5 DEF ResultId, Here, Scoped
    <2>2. r.id = x.id
        BY <2>1
    <2>3. r.run = x.run
        BY <1>2, <1>3, <1>5, OneAtMost
    <2> QED
        BY <1>1, <2>2, <2>3
<1> QED
    BY <1>4, <1>5

(* The parts of an answer.                                                 *)
LEMMA AnswerParts ==
    ASSUME NEW list, NEW p, NEW previous,
           NEW answer, answer = Executed(list, p, previous)
    PROVE  /\ answer.plan = p /\ answer.found = MatchedBy(list, p, previous)
           /\ answer.ids = Ids(list, answer.found, p)
           /\ answer.result = Result(list, answer.found, p)
    BY DEF Executed

(* What a question about the vehicles of an answer finds is among them.    *)
LEMMA FollowUpNarrows ==
    ASSUME NEW list \in RecordLists, NEW p \in AcceptedPlans, NEW q \in AcceptedPlans,
           NEW earlier, NEW before, before = Executed(list, p, earlier),
           NEW later, later = Executed(list, q, IF q.refers THEN before.ids ELSE {}),
           q.refers, q.runs = p.runs, before.ids # {}, p.shape \notin {"summary", "comparison"}
    PROVE  Range(later.found) \subseteq Range(before.found)
<1> DEFINE found == before.found  next == later.found
<1>0. /\ found = MatchedBy(list, p, earlier) /\ next = MatchedBy(list, q, before.ids)
      /\ before.ids = Ids(list, found, p)
    BY AnswerParts
<1>1. Selects(found, list, p, earlier) /\ Selects(next, list, q, before.ids)
    BY <1>0, SelectionFacts
<1>2. before.ids = {ResultId(found[n], p) : n \in DOMAIN found}
    <2> HIDE DEF found
    <2> QED
        BY <1>0 DEF Ids
<1> HIDE DEF found, next
<1>3. ASSUME NEW m \in DOMAIN next
      PROVE  m \in DOMAIN found /\ found[m] = next[m]
    <2>1. m \in DOMAIN list /\ next[m] = list[m] /\ list[m].run \in p.runs
            /\ {Here(list[m]), Scoped(list[m])} \cap before.ids # {}
        BY <1>1 DEF Selects
    <2>2. PICK k \in DOMAIN found : ResultId(found[k], p) \in {Here(list[m]), Scoped(list[m])}
        BY <1>2, <2>1
    <2>3. k \in DOMAIN list /\ found[k] = list[k] /\ list[k].run \in p.runs
        BY <1>1 DEF Selects
    <2>4. k = m
        BY <2>1, <2>2, <2>3, IdsIdentify
    <2> QED
        BY <2>1, <2>3, <2>4
<1>4. Range(next) \subseteq Range(found)
    BY <1>3 DEF Range
<1> QED
    BY <1>4 DEF found, next

(* In a conversation a question about "those" is answered from the answer  *)
(* before it (_apply_plan_filters, _result_vehicle_id).                    *)
LEMMA FollowUpsHold ==
    ASSUME AnswersInv
    PROVE  FollowUpsNarrow
<1> DEFINE past == answersGiven
<1>1. past \in Seq(Range(past)) /\ vehicleRecords \in RecordLists
        /\ \A n \in DOMAIN past : IsAnswer(past[n], vehicleRecords, IdsAfter(past, n - 1))
    BY DEF AnswersInv
<1> SUFFICES ASSUME NEW n \in 1 .. Len(past) - 1,
                    past[n + 1].plan.refers, past[n + 1].plan.runs = past[n].plan.runs,
                    past[n].ids # {}, past[n].plan.shape \notin {"summary", "comparison"}
             PROVE  Range(past[n + 1].found) \subseteq Range(past[n].found)
    BY DEF FollowUpsNarrow
<1> HIDE DEF past
<1>2. Len(past) \in Nat /\ DOMAIN past = 1 .. Len(past)
    BY <1>1
<1>3. n \in DOMAIN past /\ n + 1 \in DOMAIN past /\ (n + 1) - 1 = n /\ n # 0
    BY <1>2
<1> DEFINE before == past[n]  later == past[n + 1]
<1>4. PICK p \in AcceptedPlans :
            before = Executed(vehicleRecords, p, IF p.refers THEN IdsAfter(past, n - 1) ELSE {})
    BY <1>1, <1>3 DEF IsAnswer
<1>5. PICK q \in AcceptedPlans :
            later = Executed(vehicleRecords, q, IF q.refers THEN before.ids ELSE {})
    BY <1>1, <1>3 DEF IsAnswer, IdsAfter
<1> HIDE DEF before, later
<1> DEFINE earlier == IF p.refers THEN IdsAfter(past, n - 1) ELSE {}
<1> HIDE DEF earlier
<1>6. before.plan = p /\ later.plan = q /\ before = Executed(vehicleRecords, p, earlier)
    BY <1>4, <1>5, AnswerParts DEF earlier
<1>7. /\ q.refers /\ q.runs = p.runs /\ before.ids # {}
      /\ p.shape \notin {"summary", "comparison"}
    BY <1>6 DEF before, later
<1> DEFINE list == vehicleRecords
<1>8. list \in RecordLists
    BY <1>1
<1> HIDE DEF list
<1>9. /\ before = Executed(list, p, earlier)
      /\ later = Executed(list, q, IF q.refers THEN before.ids ELSE {})
    BY <1>5, <1>6 DEF list
<1>10. Range(later.found) \subseteq Range(before.found)
    BY <1>7, <1>8, <1>9, FollowUpNarrows
<1> QED
    BY <1>10 DEF before, later

-----------------------------------------------------------------------------
(* Rankings                                                                *)

(* The elements of a finite set have numbers.                              *)
LEMMA Numbered ==
    ASSUME NEW K, IsFiniteSet(K)
    PROVE  \E g \in [K -> Nat] : \A x, y \in K : g[x] = g[y] => x = y
<1> DEFINE n == Cardinality(K)
<1>1. PICK h \in Bijection(1 .. n, K) : TRUE
    BY FS_CardinalityType DEF ExistsBijection
<1>2. h \in [1 .. n -> K] /\ \A x \in K : \E i \in 1 .. n : h[i] = x
    BY DEF Bijection, Injection, Surjection
<1> DEFINE g == [x \in K |-> CHOOSE i \in 1 .. n : h[i] = x]
<1>3. \A x \in K : g[x] \in 1 .. n /\ h[g[x]] = x
    BY <1>2
<1>4. \A x \in K : g[x] \in Nat
    BY <1>3
<1>5. g \in [K -> Nat]
    <2> DEFINE F(x) == CHOOSE i \in 1 .. n : h[i] = x
    <2>1. \A x \in K : F(x) \in Nat
        BY <1>4
    <2> HIDE DEF F
    <2>2. [x \in K |-> F(x)] \in [K -> Nat]
        BY <2>1
    <2> QED
        BY <2>2 DEF F
<1> HIDE DEF g
<1>6. \A x, y \in K : g[x] = g[y] => x = y
    BY <1>3
<1> QED
    BY <1>5, <1>6

(* A listing of all groups, none behind one it is ahead of.                *)
ListedByCount(entries, counts, order) ==
    /\ entries \in [1 .. Cardinality(DOMAIN counts) -> DOMAIN counts]
    /\ \A i, j \in DOMAIN entries : i < j =>
            entries[i] # entries[j] /\ ~ Ahead(order, counts[entries[j]], counts[entries[i]])

(* The groups can be listed by their counts (_ranking_result).             *)
LEMMA ByCountLists ==
    ASSUME NEW counts, IsFiniteSet(DOMAIN counts), \A k \in DOMAIN counts : counts[k] \in Nat,
           NEW order
    PROVE  ListedByCount(ByCount(counts, order), counts, order)
<1> DEFINE K == DOMAIN counts  n == Cardinality(K)
           Leads(x, y) == Ahead(order, counts[x], counts[y])
<1>1. PICK g \in [K -> Nat] : \A x, y \in K : g[x] = g[y] => x = y
    BY Numbered
<1> DEFINE R == {r \in K \X K : \/ Leads(r[1], r[2])
                                \/ counts[r[1]] = counts[r[2]] /\ g[r[1]] < g[r[2]]}
<1>2. ASSUME NEW x \in K, NEW y \in K
      PROVE  /\ <<x, y>> \in R <=> Leads(x, y) \/ (counts[x] = counts[y] /\ g[x] < g[y])
             /\ Leads(x, y) <=> IF order = "desc" THEN counts[x] > counts[y] ELSE counts[x] < counts[y]
             /\ counts[x] \in Nat /\ counts[y] \in Nat /\ g[x] \in Nat /\ g[y] \in Nat
    <2>1. <<x, y>> \in R <=> Leads(x, y) \/ (counts[x] = counts[y] /\ g[x] < g[y])
        <3> HIDE DEF Leads
        <3> QED
            OBVIOUS
    <2>2. Leads(x, y) <=> IF order = "desc" THEN counts[x] > counts[y] ELSE counts[x] < counts[y]
        BY DEF Ahead
    <2> QED
        BY <2>1, <2>2
<1> HIDE DEF R
<1>3. \A x \in K : <<x, x>> \notin R
    <2> HIDE DEF Leads, K
    <2> QED
        BY <1>2
<1>4. \A x, y, z \in K : <<x, y>> \in R /\ <<y, z>> \in R => <<x, z>> \in R
    <2> HIDE DEF Leads, K
    <2> QED
        BY <1>2
<1>5. \A x, y \in K : x # y => <<x, y>> \in R \/ <<y, x>> \in R
    <2> HIDE DEF Leads, K
    <2> QED
        BY <1>1, <1>2
<1>6. PICK s \in [1 .. n -> K] :
            /\ \A i, j \in 1 .. n : i # j => s[i] # s[j]
            /\ \A i, j \in 1 .. n : i < j => <<s[i], s[j]>> \in R
    <2> HIDE DEF K
    <2>1. IsFiniteSet(K)
        BY DEF K
    <2> QED
        BY <1>3, <1>4, <1>5, <2>1, SortingExists, Zenon
<1>7. ASSUME NEW i \in 1 .. n, NEW j \in 1 .. n, i < j
      PROVE  s[i] # s[j] /\ ~ Leads(s[j], s[i])
    <2>1. s[i] \in K /\ s[j] \in K /\ n \in Nat
        BY FS_CardinalityType
    <2>2. s[i] # s[j] /\ <<s[i], s[j]>> \in R
        BY <1>6, <1>7, <2>1
    <2> PICK x \in K : x = s[i]
        BY <2>1
    <2> PICK y \in K : y = s[j]
        BY <2>1
    <2>3. <<x, y>> \in R
        BY <2>2
    <2>4. ~ Leads(y, x)
        <3>1. /\ Leads(x, y) \/ (counts[x] = counts[y] /\ g[x] < g[y])
              /\ Leads(x, y) <=> IF order = "desc" THEN counts[x] > counts[y] ELSE counts[x] < counts[y]
              /\ Leads(y, x) <=> IF order = "desc" THEN counts[y] > counts[x] ELSE counts[y] < counts[x]
              /\ counts[x] \in Nat /\ counts[y] \in Nat
            BY <1>2, <2>3
        <3> HIDE DEF Leads, K
        <3> QED
            BY <3>1
    <2> QED
        BY <2>2, <2>4
<1>8. ListedByCount(s, counts, order)
    BY <1>7 DEF ListedByCount
<1> DEFINE P(e) == \A i, j \in DOMAIN e : i < j =>
                        e[i] # e[j] /\ ~ Ahead(order, counts[e[j]], counts[e[i]])
           E == ByCount(counts, order)
<1>9. E = CHOOSE e \in [1 .. n -> K] : P(e)
    BY DEF ByCount
<1>10. s \in [1 .. n -> K] /\ P(s)
    BY <1>8 DEF ListedByCount
<1> HIDE DEF P, E
<1>11. E \in [1 .. n -> K] /\ P(E)
    BY <1>9, <1>10
<1> QED
    BY <1>11 DEF ListedByCount, P, E

(* The groups of a selection are few, and their counts are numbers.        *)
LEMMA CountsFacts ==
    ASSUME NEW found, IsFiniteSet(DOMAIN found), NEW field
    PROVE  /\ IsFiniteSet(DOMAIN Counts(found, field))
           /\ \A k \in DOMAIN Counts(found, field) : Counts(found, field)[k] \in Nat
<1> DEFINE counts == Counts(found, field)
           KeyAt(n) == GroupKey(found[n], field)
           K == {KeyAt(n) : n \in DOMAIN found}
           In(k) == {n \in DOMAIN found : KeyAt(n) = k}
<1>1. counts = [k \in K |-> Cardinality(DOMAIN Restrict(found, In(k)))]
    BY DEF Counts, Groups, Number
<1>2. ASSUME NEW k \in K
      PROVE  counts[k] \in Nat
    <2>1. counts[k] = Cardinality(DOMAIN Restrict(found, In(k)))
        <3> HIDE DEF counts, K, In
        <3> QED
            BY <1>1
    <2>2. DOMAIN Restrict(found, In(k)) = In(k)
        BY DEF Restrict
    <2>3. IsFiniteSet(In(k))
        BY FS_Subset
    <2> HIDE DEF counts, In
    <2> QED
        BY <2>1, <2>2, <2>3, FS_CardinalityType
<1>3. DOMAIN counts = K
    <2> HIDE DEF K, In, counts
    <2> QED
        BY <1>1
<1>4. IsFiniteSet(K)
    <2> DEFINE S == DOMAIN found  g == [n \in S |-> KeyAt(n)]
    <2> HIDE DEF KeyAt
    <2>1. \A n \in S : g[n] \in K
        OBVIOUS
    <2>2. \A k \in K : \E n \in S : g[n] = k
        OBVIOUS
    <2> HIDE DEF g, K
    <2>3. IsFiniteSet(S)
        OBVIOUS
    <2> HIDE DEF S
    <2> QED
        BY <2>1, <2>2, <2>3, FewValues
<1> HIDE DEF K, counts
<1>5. IsFiniteSet(DOMAIN counts) /\ \A k \in DOMAIN counts : counts[k] \in Nat
    BY <1>2, <1>3, <1>4
<1> QED
    BY <1>5 DEF counts

(* How many groups are shown: all, or as many as share the first place.    *)
LEMMA ShownFacts ==
    ASSUME NEW limit \in Nat, NEW w \in Nat, NEW n \in Nat
    PROVE  /\ Min({n, ShownEntries(limit, w)}) \in 0 .. n
           /\ Min({n, ShownEntries(limit, w)}) = n \/ w <= Min({n, ShownEntries(limit, w)})
<1> DEFINE a == IF limit > 0 THEN limit ELSE 3
           S == {a, w, 3}
           e == ShownEntries(limit, w)
           m == Min({n, e})
<1>1. S \in SUBSET Nat /\ S # {} /\ w \in S
    OBVIOUS
<1>2. IsFiniteSet(S)
    <2> HIDE DEF a
    <2>a. IsFiniteSet({a})
        BY FS_Singleton
    <2>b. IsFiniteSet({a} \cup {w})
        BY <2>a, FS_AddElement
    <2>1. IsFiniteSet(({a} \cup {w}) \cup {3})
        BY <2>b, FS_AddElement
    <2>2. S = ({a} \cup {w}) \cup {3}
        OBVIOUS
    <2> QED
        BY <2>1, <2>2
<1>3. e = Max(S)
    BY DEF ShownEntries
<1> HIDE DEF S, e
<1>4. Max(S) \in S /\ \A x \in S : x <= Max(S)
    BY <1>1, <1>2, MaxOfNats
<1>5. e \in Nat /\ w <= e
    BY <1>1, <1>3, <1>4
<1>6. m \in {n, e} /\ m <= n /\ m <= e
    <2>1. CASE n <= e
        <3>1. n \in {n, e} /\ \A y \in {n, e} : n <= y
            BY <1>5, <2>1
        <3> QED
            BY <1>5, <3>1 DEF Min
    <2>2. CASE e <= n
        <3>1. e \in {n, e} /\ \A y \in {n, e} : e <= y
            BY <1>5, <2>2
        <3> QED
            BY <1>5, <3>1 DEF Min
    <2> QED
        BY <1>5, <2>1, <2>2
<1> HIDE DEF m
<1>7. m \in 0 .. n /\ (m = n \/ w <= m)
    BY <1>5, <1>6
<1> QED
    BY <1>7 DEF m, e

(* Whoever shares the first place stands among the first of them.          *)
LEMMA WinnersFirst ==
    ASSUME NEW counts, IsFiniteSet(DOMAIN counts), \A k \in DOMAIN counts : counts[k] \in Nat,
           NEW order \in {"asc", "desc"}, NEW E, ListedByCount(E, counts, order),
           NEW j \in 1 .. Cardinality(DOMAIN counts), counts[E[j]] = counts[E[1]]
    PROVE  j <= Cardinality({k \in DOMAIN counts : counts[k] = counts[E[1]]})
<1> DEFINE K == DOMAIN counts  n == Cardinality(K)
           W == {k \in K : counts[k] = counts[E[1]]}
<1>1. n \in Nat /\ E \in [1 .. n -> K] /\ j \in 1 .. n
    BY FS_CardinalityType DEF ListedByCount
<1>2. \A i, l \in 1 .. n : i < l =>
            E[i] # E[l] /\ ~ Ahead(order, counts[E[l]], counts[E[i]])
    BY <1>1 DEF ListedByCount
<1>3. IsFiniteSet(W) /\ Cardinality(W) \in Nat
    BY FS_Subset, FS_CardinalityType
<1>4. \A i \in 1 .. n : E[i] \in K /\ counts[E[i]] \in Nat
    BY <1>1
<1>5. \A k \in K : k \in W <=> counts[k] = counts[E[1]]
    OBVIOUS
<1> HIDE DEF K, n, W
<1>6. ASSUME NEW i \in 1 .. j
      PROVE  E[i] \in W
    <2>1. i \in 1 .. n /\ 1 \in 1 .. n
        BY <1>1
    <2>2. CASE i = 1 \/ i = j
        BY <1>4, <1>5, <2>1, <2>2
    <2>3. CASE 1 < i /\ i < j
        <3>1. ~ Ahead(order, counts[E[i]], counts[E[1]]) /\ ~ Ahead(order, counts[E[j]], counts[E[i]])
            BY <1>1, <1>2, <2>1, <2>3
        <3>2. counts[E[i]] \in Nat /\ counts[E[1]] \in Nat /\ counts[E[j]] \in Nat
            BY <1>1, <1>4, <2>1
        <3>3. counts[E[i]] = counts[E[1]]
            BY <3>1, <3>2 DEF Ahead
        <3> QED
            BY <1>4, <1>5, <2>1, <3>3
    <2> QED
        BY <1>1, <2>2, <2>3
<1> DEFINE f == [i \in 1 .. j |-> E[i]]
<1>7. f \in Injection(1 .. j, W)
    <2>1. f \in [1 .. j -> W]
        BY <1>6
    <2>2. ASSUME NEW a \in 1 .. j, NEW b \in 1 .. j, f[a] = f[b]
          PROVE  a = b
        <3>1. a \in 1 .. n /\ b \in 1 .. n /\ E[a] = E[b] /\ a \in Int /\ b \in Int
            BY <1>1, <2>2
        <3>2. ~ (a < b) /\ ~ (b < a)
            BY <1>2, <3>1
        <3> QED
            BY <3>1, <3>2
    <2> HIDE DEF f
    <2> QED
        BY <2>1, <2>2 DEF Injection, IsInjective
<1>8. Cardinality(1 .. j) <= Cardinality(W)
    BY <1>3, <1>7, FS_Injection
<1>9. Cardinality(1 .. j) = j
    <2>1. 1 \in Int /\ j \in Int /\ ~ (1 > j)
        BY <1>1
    <2> QED
        BY <1>1, <2>1, FS_Interval
<1> QED
    BY <1>8, <1>9 DEF W, K

(* The order in which a ranking is read.                                   *)
NoWorse(order, x, y) == IF order = "desc" THEN x >= y ELSE x <= y

(* Nobody left out is ahead of one who is shown, those shown are in their  *)
(* order, and whoever is ahead of all is shown (_ranking_result).          *)
Honest(counts, order, s) ==
    /\ \A x \in Range(s), y \in DOMAIN counts \ Range(s) : NoWorse(order, counts[x], counts[y])
    /\ \A i, j \in DOMAIN s : i < j => NoWorse(order, counts[s[i]], counts[s[j]])
    /\ \A x \in DOMAIN counts :
            (\A y \in DOMAIN counts : NoWorse(order, counts[x], counts[y])) => x \in Range(s)

(* What stands first in the order of counts is no worse than what is cut   *)
(* off, where the cut leaves all that win (_ranking_result).               *)
LEMMA ListingIsHonest ==
    ASSUME NEW counts, IsFiniteSet(DOMAIN counts), \A k \in DOMAIN counts : counts[k] \in Nat,
           NEW order \in {"asc", "desc"}, NEW E, ListedByCount(E, counts, order),
           NEW m \in 0 .. Cardinality(DOMAIN counts),
           \/ m = Cardinality(DOMAIN counts)
           \/ Cardinality({k \in DOMAIN counts : counts[k] = counts[E[1]]}) <= m
    PROVE  Honest(counts, order, SubSeq(E, 1, m))
<1> DEFINE K == DOMAIN counts  n == Cardinality(K)  s == SubSeq(E, 1, m)
           W == {k \in K : counts[k] = counts[E[1]]}
<1>1. n \in Nat /\ E \in [1 .. n -> K] /\ m \in 0 .. n /\ IsFiniteSet(K)
    BY FS_CardinalityType DEF ListedByCount
<1>2. /\ \A i, l \in 1 .. n : i < l =>
            E[i] # E[l] /\ ~ Ahead(order, counts[E[l]], counts[E[i]])
      /\ \A i \in 1 .. n : E[i] \in K /\ counts[E[i]] \in Nat
    BY <1>1 DEF ListedByCount
<1>3. ASSUME NEW l \in 1 .. n, counts[E[l]] = counts[E[1]], m < n
      PROVE  l <= m
    <2>1. l <= Cardinality(W)
        BY <1>3, WinnersFirst
    <2>2. Cardinality(W) <= m /\ Cardinality(W) \in Nat
        <3>1. IsFiniteSet(W)
            BY FS_Subset
        <3> QED
            BY <1>1, <1>3, <3>1, FS_CardinalityType
    <2> HIDE DEF W, K
    <2> QED
        BY <1>1, <2>1, <2>2
<1> HIDE DEF W, K, n, s
<1>4. /\ DOMAIN s = 1 .. m /\ m \in Nat /\ m <= n
      /\ \A i \in 1 .. m : i \in 1 .. n /\ s[i] = E[i]
    <2>1. E \in Seq(K) /\ Len(E) = n
        BY <1>1
    <2>2. s \in Seq(K) /\ Len(s) = m /\ \A i \in 1 .. m : s[i] = E[i]
        <3>1. 1 \in 1 .. Len(E) + 1 /\ m \in 1 - 1 .. Len(E) /\ (m - 1) + 1 = m
            BY <1>1, <2>1
        <3>2. SubSeq(E, 1, m) \in Seq(K) /\ Len(SubSeq(E, 1, m)) = m
                /\ \A i \in 1 .. m : SubSeq(E, 1, m)[i] = E[i]
            BY <1>1, <2>1, <3>1, SubSeqProperties
        <3> QED
            BY <3>2 DEF s
    <2> QED
        BY <1>1, <2>2
<1>5. \A x \in K : \E i \in 1 .. n : E[i] = x
    <2>1. \A i, l \in 1 .. n : i # l => E[i] # E[l]
        BY <1>1, <1>2
    <2>2. n = Cardinality(K)
        BY DEF n
    <2> QED
        BY <1>1, <2>1, <2>2, ListingCovers
<1>6. ASSUME NEW i \in 1 .. n, NEW l \in 1 .. n, i < l
      PROVE  NoWorse(order, counts[E[i]], counts[E[l]])
    <2>1. ~ Ahead(order, counts[E[l]], counts[E[i]]) /\ counts[E[i]] \in Nat /\ counts[E[l]] \in Nat
        BY <1>2, <1>6
    <2> QED
        BY <2>1 DEF Ahead, NoWorse
<1>7. ASSUME NEW x \in Range(s), NEW y \in K \ Range(s)
      PROVE  NoWorse(order, counts[x], counts[y])
    <2>1. PICK i \in 1 .. m : x = s[i]
        BY <1>4 DEF Range
    <2>2. PICK l \in 1 .. n : E[l] = y
        BY <1>5
    <2>3. ~ (l <= m)
        <3>1. l \in 1 .. m => s[l] = y /\ s[l] \in Range(s)
            BY <1>4, <2>2 DEF Range
        <3> QED
            BY <1>1, <1>4, <3>1
    <2>4. i \in 1 .. n /\ i < l /\ x = E[i]
        BY <1>1, <1>4, <2>1, <2>3
    <2> QED
        BY <1>6, <2>2, <2>4
<1>8. ASSUME NEW i \in DOMAIN s, NEW l \in DOMAIN s, i < l
      PROVE  NoWorse(order, counts[s[i]], counts[s[l]])
    BY <1>4, <1>6, <1>8
<1>9. ASSUME NEW x \in K, \A y \in K : NoWorse(order, counts[x], counts[y])
      PROVE  x \in Range(s)
    <2>1. PICK l \in 1 .. n : E[l] = x
        BY <1>5
    <2>2. 1 \in 1 .. n /\ E[1] \in K
        BY <1>1, <1>2
    <2>3. NoWorse(order, counts[x], counts[E[1]])
        BY <1>9, <2>2
    <2>4. l # 1 => NoWorse(order, counts[E[1]], counts[E[l]])
        BY <1>1, <1>6, <2>2
    <2>5. counts[E[l]] = counts[E[1]]
        <3>1. counts[E[l]] \in Nat /\ counts[E[1]] \in Nat
            BY <1>2, <2>2
        <3> QED
            BY <2>1, <2>3, <2>4, <3>1 DEF NoWorse
    <2>6. l <= m
        BY <1>1, <1>3, <1>4, <2>5
    <2>7. l \in 1 .. m /\ s[l] = x
        BY <1>1, <1>4, <2>1, <2>6
    <2> QED
        BY <1>4, <2>7 DEF Range
<1>10. Honest(counts, order, s)
    BY <1>7, <1>8, <1>9 DEF Honest, K
<1> QED
    BY <1>10 DEF s

(* A selection is finite.                                                  *)
LEMMA SelectionIsFinite ==
    ASSUME NEW list \in RecordLists, NEW p, NEW previous,
           NEW found, Selects(found, list, p, previous)
    PROVE  IsFiniteSet(DOMAIN found)
<1>1. list \in Seq(Range(list))
    BY AnswersAssumption DEF AnswersAssumption
<1>2. DOMAIN list = 1 .. Len(list) /\ Len(list) \in Nat
    BY <1>1
<1>3. IsFiniteSet(1 .. Len(list))
    BY <1>2, FS_Interval
<1> QED
    BY <1>2, <1>3, FS_Subset DEF Selects

(* A ranking is honest (_ranking_result).                                  *)
LEMMA RankingIsHonest ==
    ASSUME NEW found, IsFiniteSet(DOMAIN found), NEW p, p.limit \in Nat,
           p.order \in {"asc", "desc"}
    PROVE  Honest(Counts(found, p.group[1]), p.order, Ranking(found, p).entries)
<1> DEFINE counts == Counts(found, p.group[1])
           n == Cardinality(DOMAIN counts)
           E == ByCount(counts, p.order)
           W == {k \in DOMAIN counts : counts[k] = counts[E[1]]}
           m == Min({Len(E), ShownEntries(p.limit, Cardinality(W))})
           r == Ranking(found, p)
<1>1. r = IF counts = <<>> THEN [entries |-> <<>>, winners |-> {}]
          ELSE [entries |-> SubSeq(E, 1, m), winners |-> W]
    BY DEF Ranking
<1>2. IsFiniteSet(DOMAIN counts) /\ \A k \in DOMAIN counts : counts[k] \in Nat
    BY CountsFacts
<1> HIDE DEF counts, r
<1>3. CASE counts = <<>>
    <2>1. r.entries = <<>> /\ DOMAIN counts = {}
        <3> HIDE DEF W, m
        <3> QED
            BY <1>1, <1>3
    <2>2. Honest(counts, p.order, <<>>)
        BY <2>1 DEF Honest, Range
    <2> QED
        BY <2>1, <2>2 DEF counts, r
<1>4. CASE counts # <<>>
    <2>1. ListedByCount(E, counts, p.order)
        BY <1>2, ByCountLists
    <2>2. n \in Nat
        BY <1>2, FS_CardinalityType
    <2>3. Len(E) = n
        BY <2>1, <2>2 DEF ListedByCount
    <2>4. IsFiniteSet(W)
        BY <1>2, FS_Subset
    <2>5. Cardinality(W) \in Nat
        BY <2>4, FS_CardinalityType
    <2> DEFINE w == Cardinality(W)  h == Min({n, ShownEntries(p.limit, w)})
    <2>6. m = h
        BY <2>3
    <2>7. h \in 0 .. n /\ (h = n \/ w <= h)
        <3> HIDE DEF w, n
        <3>1. w \in Nat /\ n \in Nat
            BY <2>2, <2>5 DEF w
        <3> QED
            BY <3>1, ShownFacts
    <2>8. r.entries = SubSeq(E, 1, h)
        <3> HIDE DEF W, m, E, h
        <3> QED
            BY <1>1, <1>4, <2>6
    <2> HIDE DEF E, h
    <2>9. Honest(counts, p.order, SubSeq(E, 1, h))
        BY <1>2, <2>1, <2>7, ListingIsHonest
    <2> QED
        BY <2>8, <2>9 DEF counts, r
<1> QED
    BY <1>3, <1>4

(* An answer of a conversation and what it is made from.                   *)
IsAnswerTo(answer, list, p, previous) ==
    /\ answer.plan = p /\ Selects(answer.found, list, p, previous)
    /\ IsFiniteSet(DOMAIN answer.found)
    /\ answer.result = Result(list, answer.found, p)

(* Every answer was made by an accepted plan, from all records or from     *)
(* what the answer before it identified.                                   *)
LEMMA AnswersAre ==
    ASSUME AnswersInv, NEW n \in DOMAIN answersGiven
    PROVE  \E p \in AcceptedPlans, previous \in {{}, IdsAfter(answersGiven, n - 1)} :
                IsAnswerTo(answersGiven[n], vehicleRecords, p, previous)
<1>1. vehicleRecords \in RecordLists
    BY DEF AnswersInv
<1>2. PICK answer : answer = answersGiven[n]
    OBVIOUS
<1>3. PICK p \in AcceptedPlans :
            answer = Executed(vehicleRecords, p, IF p.refers THEN IdsAfter(answersGiven, n - 1) ELSE {})
    BY <1>2 DEF AnswersInv, IsAnswer
<1>4. PICK previous \in {{}, IdsAfter(answersGiven, n - 1)} : answer = Executed(vehicleRecords, p, previous)
    BY <1>3
<1>5. /\ answer.plan = p /\ answer.found = MatchedBy(vehicleRecords, p, previous)
      /\ answer.result = Result(vehicleRecords, answer.found, p)
    BY <1>4, AnswerParts
<1>6. Selects(answer.found, vehicleRecords, p, previous)
    BY <1>1, <1>5, SelectionFacts
<1>7. IsFiniteSet(DOMAIN answer.found)
    BY <1>1, <1>6, SelectionIsFinite
<1> QED
    BY <1>2, <1>5, <1>6, <1>7 DEF IsAnswerTo

(* In a conversation every ranking is honest (_ranking_result).            *)
LEMMA RankingsHold ==
    ASSUME AnswersInv
    PROVE  RankingsAreHonest
<1> SUFFICES ASSUME NEW n \in DOMAIN answersGiven, answersGiven[n].plan.shape = "ranking"
             PROVE  Honest(Counts(answersGiven[n].found, answersGiven[n].plan.group[1]),
                           answersGiven[n].plan.order, answersGiven[n].result.entries)
    BY DEF RankingsAreHonest, Honest, NoWorse
<1>1. PICK answer : answer = answersGiven[n]
    OBVIOUS
<1>2. PICK p \in AcceptedPlans, previous \in {{}, IdsAfter(answersGiven, n - 1)} :
            IsAnswerTo(answer, vehicleRecords, p, previous)
    BY <1>1, AnswersAre
<1>3. /\ answer.plan = p /\ p.shape = "ranking" /\ IsFiniteSet(DOMAIN answer.found)
      /\ answer.result = Result(vehicleRecords, answer.found, p)
    BY <1>1, <1>2 DEF IsAnswerTo
<1>4. p.limit \in Nat /\ p.order \in {"asc", "desc"}
    BY <1>3, AnswersAssumption DEF AnswersAssumption
<1>5. answer.result = Ranking(answer.found, p)
    BY <1>3, <1>4 DEF Result
<1> PICK found : found = answer.found
    OBVIOUS
<1>6. Honest(Counts(found, p.group[1]), p.order, Ranking(found, p).entries)
    BY <1>3, <1>4, RankingIsHonest
<1> QED
    BY <1>1, <1>3, <1>5, <1>6

-----------------------------------------------------------------------------
(* Intervals                                                               *)

(* Intervals of windows that count what is in C; the windows they span.    *)
IntervalsOf(C) == [from : Nat, to : Nat, counts : C]
Spans(i, w) == i.from <= w /\ w < i.to

(* Of the windows below n the intervals of s cover those of H, each of     *)
(* which counts c[w], in their order and without touching equal ones.      *)
Covers(s, c, H, n) ==
    /\ \A i \in DOMAIN s : s[i].from < s[i].to /\ s[i].to <= n
    /\ \A i, j \in DOMAIN s : i < j => s[i].to <= s[j].from
    /\ \A w \in 0 .. n - 1 :
        /\ w \in H => \E i \in DOMAIN s : Spans(s[i], w)
        /\ \A i \in DOMAIN s : Spans(s[i], w) => w \in H /\ s[i].counts = c[w]
    /\ \A i, j \in DOMAIN s : j = i + 1 /\ s[i].to = s[j].from => s[i].counts # s[j].counts

(* One window more: none, at the end of the last interval, or a new one    *)
(* (_merge_adjacent_intervals).                                            *)
Extended(s, c, H, n) == IF n \in H THEN Joined(s, n, c[n]) ELSE s

(* A window that a comparison does not hold in changes no interval.        *)
LEMMA WindowIsSkipped ==
    ASSUME NEW C, NEW s \in Seq(IntervalsOf(C)), NEW c, NEW H, NEW n \in Nat,
           Covers(s, c, H, n), n \notin H
    PROVE  Covers(s, c, H, n + 1)
<1>1. \A i \in DOMAIN s : s[i].from \in Nat /\ s[i].to \in Nat
    <2>1. \A i \in DOMAIN s : s[i] \in IntervalsOf(C)
        OBVIOUS
    <2> QED
        BY <2>1 DEF IntervalsOf
<1>2. \A i \in DOMAIN s : ~ Spans(s[i], n) /\ s[i].to <= n + 1
    BY <1>1 DEF Covers, Spans
<1>3. \A w \in 0 .. (n + 1) - 1 : w = n \/ w \in 0 .. n - 1
    OBVIOUS
<1> QED
    BY <1>2, <1>3 DEF Covers

(* A window that does not follow on an equal interval starts another.      *)
LEMMA WindowIsAppended ==
    ASSUME NEW C, NEW s \in Seq(IntervalsOf(C)), NEW c, NEW H, NEW n \in Nat,
           Covers(s, c, H, n), n \in H, c[n] \in C,
           ~ (s # <<>> /\ Last(s).to = n /\ Last(s).counts = c[n]),
           NEW t, t = Append(s, [from |-> n, to |-> n + 1, counts |-> c[n]])
    PROVE  t \in Seq(IntervalsOf(C)) /\ Covers(t, c, H, n + 1)
<1> DEFINE L == Len(s)  new == [from |-> n, to |-> n + 1, counts |-> c[n]]
<1>1. L \in Nat /\ DOMAIN s = 1 .. L /\ \A i \in 1 .. L : s[i].from \in Nat /\ s[i].to \in Nat
    <2>1. L \in Nat /\ DOMAIN s = 1 .. L /\ \A i \in 1 .. L : s[i] \in IntervalsOf(C)
        OBVIOUS
    <2> QED
        BY <2>1 DEF IntervalsOf
<1>2. new \in IntervalsOf(C) /\ new.from = n /\ new.to = n + 1 /\ new.counts = c[n]
    BY DEF IntervalsOf
<1>3. t = Append(s, new)
    OBVIOUS
<1> HIDE DEF new
<1>4. /\ t \in Seq(IntervalsOf(C)) /\ DOMAIN t = 1 .. L + 1
      /\ t[L + 1] = new /\ \A i \in 1 .. L : t[i] = s[i]
    BY <1>2, <1>3, AppendProperties
<1>5. s # <<>> => L # 0 /\ Last(s) = s[L]
    BY DEF Last
<1>6. L # 0 => ~ (s[L].to = n /\ s[L].counts = c[n])
    BY <1>5
<1> HIDE DEF L
<1>7. \A i \in 1 .. L + 1 : i = L + 1 \/ i \in 1 .. L
    BY <1>1
<1>8. \A i \in 1 .. L : s[i].from < s[i].to /\ s[i].to <= n
    BY <1>1 DEF Covers
<1>9. \A i \in 1 .. L + 1 : t[i].from < t[i].to /\ t[i].to <= n + 1
    BY <1>1, <1>2, <1>4, <1>7, <1>8
<1>10. ASSUME NEW i \in 1 .. L + 1, NEW j \in 1 .. L + 1, i < j
       PROVE  t[i].to <= t[j].from
    <2>1. i \in 1 .. L
        BY <1>1, <1>10
    <2>2. CASE j = L + 1
        BY <1>2, <1>4, <1>8, <2>1, <2>2
    <2>3. CASE j # L + 1
        BY <1>1, <1>4, <1>7, <1>10, <2>1, <2>3 DEF Covers
    <2> QED
        BY <2>2, <2>3
<1>11. ASSUME NEW w \in 0 .. (n + 1) - 1
       PROVE  /\ w \in H => \E i \in 1 .. L + 1 : Spans(t[i], w)
              /\ \A i \in 1 .. L + 1 : Spans(t[i], w) => w \in H /\ t[i].counts = c[w]
    <2>1. CASE w = n
        <3>1. L + 1 \in 1 .. L + 1 /\ Spans(t[L + 1], w)
            BY <1>1, <1>2, <1>4, <2>1 DEF Spans
        <3>2. \A i \in 1 .. L : ~ Spans(t[i], w)
            BY <1>1, <1>4, <1>8, <2>1 DEF Spans
        <3> QED
            BY <1>2, <1>4, <1>7, <2>1, <3>1, <3>2
    <2>2. CASE w # n
        <3>1. w \in 0 .. n - 1
            BY <2>2
        <3>2. ~ Spans(new, w)
            BY <1>2, <3>1 DEF Spans
        <3>3. /\ w \in H => \E i \in 1 .. L : Spans(s[i], w)
              /\ \A i \in 1 .. L : Spans(s[i], w) => w \in H /\ s[i].counts = c[w]
            BY <1>1, <3>1 DEF Covers
        <3>4. \A i \in 1 .. L : i \in 1 .. L + 1
            BY <1>1
        <3> QED
            BY <1>4, <1>7, <3>2, <3>3, <3>4
    <2> QED
        BY <2>1, <2>2
<1>12. ASSUME NEW i \in 1 .. L + 1, NEW j \in 1 .. L + 1, j = i + 1, t[i].to = t[j].from
       PROVE  t[i].counts # t[j].counts
    <2>1. i \in 1 .. L
        BY <1>1, <1>12
    <2>2. CASE j = L + 1
        <3>1. i = L /\ L # 0
            BY <1>1, <1>12, <2>1, <2>2
        <3> QED
            BY <1>2, <1>4, <1>6, <1>12, <2>1, <2>2, <3>1
    <2>3. CASE j # L + 1
        <3>1. j \in 1 .. L
            BY <1>7, <2>3
        <3>2. t[i] = s[i] /\ t[j] = s[j]
            BY <1>4, <2>1, <3>1
        <3>3. s[i].to = s[j].from
            BY <1>12, <3>2
        <3>4. s[i].counts # s[j].counts
            BY <1>1, <1>12, <2>1, <3>1, <3>3 DEF Covers
        <3> QED
            BY <3>2, <3>4
    <2> QED
        BY <2>2, <2>3
<1>13. Covers(t, c, H, n + 1)
    <2>1. DOMAIN t = 1 .. L + 1
        BY <1>4
    <2>2. \A i \in DOMAIN t : t[i].from < t[i].to /\ t[i].to <= n + 1
        BY <1>9, <2>1
    <2>3. \A i, j \in DOMAIN t : i < j => t[i].to <= t[j].from
        BY <1>10, <2>1
    <2>4. \A w \in 0 .. (n + 1) - 1 :
            /\ w \in H => \E i \in DOMAIN t : Spans(t[i], w)
            /\ \A i \in DOMAIN t : Spans(t[i], w) => w \in H /\ t[i].counts = c[w]
        BY <1>11, <2>1
    <2>5. \A i, j \in DOMAIN t : j = i + 1 /\ t[i].to = t[j].from => t[i].counts # t[j].counts
        BY <1>12, <2>1
    <2> QED
        BY <2>2, <2>3, <2>4, <2>5 DEF Covers
<1> QED
    BY <1>4, <1>13

(* A window that follows on an interval that counts the same is its end.   *)
LEMMA WindowIsJoined ==
    ASSUME NEW C, NEW s \in Seq(IntervalsOf(C)), NEW c, NEW H, NEW n \in Nat,
           Covers(s, c, H, n), n \in H,
           s # <<>>, Last(s).to = n, Last(s).counts = c[n],
           NEW t, t = [s EXCEPT ![Len(s)].to = n + 1]
    PROVE  t \in Seq(IntervalsOf(C)) /\ Covers(t, c, H, n + 1)
<1> DEFINE L == Len(s)  new == [s[L] EXCEPT !.to = n + 1]
<1>1. L \in Nat /\ L # 0 /\ L \in 1 .. L /\ DOMAIN s = 1 .. L /\ \A i \in 1 .. L : s[i] \in IntervalsOf(C)
    OBVIOUS
<1>2. \A i \in 1 .. L : s[i].from \in Nat /\ s[i].to \in Nat
    BY <1>1 DEF IntervalsOf
<1>3. /\ new \in IntervalsOf(C) /\ new.from = s[L].from /\ new.to = n + 1
      /\ new.counts = s[L].counts
    <2> PICK r \in IntervalsOf(C) : r = s[L]
        BY <1>1
    <2>1. /\ [r EXCEPT !.to = n + 1] \in IntervalsOf(C)
          /\ [r EXCEPT !.to = n + 1].from = r.from /\ [r EXCEPT !.to = n + 1].to = n + 1
          /\ [r EXCEPT !.to = n + 1].counts = r.counts
        BY DEF IntervalsOf
    <2> QED
        BY <2>1
<1>4. s[L].to = n /\ s[L].counts = c[n]
    BY DEF Last
<1>5. t = [s EXCEPT ![L] = new]
    OBVIOUS
<1> HIDE DEF new, L
<1>6. /\ t \in Seq(IntervalsOf(C)) /\ DOMAIN t = 1 .. L
      /\ t[L] = new /\ \A i \in 1 .. L : i # L => t[i] = s[i]
    <2>1. t \in [1 .. L -> IntervalsOf(C)]
        <3>1. s \in [1 .. L -> IntervalsOf(C)]
            BY <1>1 DEF L
        <3> QED
            BY <1>1, <1>3, <1>5, <3>1
    <2>2. t \in Seq(IntervalsOf(C))
        BY <1>1, <2>1
    <2> QED
        BY <1>1, <1>5, <2>1, <2>2
<1>7. \A i \in 1 .. L : s[i].from < s[i].to /\ s[i].to <= n
    BY <1>1 DEF Covers
<1>8. ASSUME NEW i \in 1 .. L
      PROVE  /\ t[i].from = s[i].from /\ t[i].counts = s[i].counts
             /\ t[i].to = IF i = L THEN n + 1 ELSE s[i].to
    <2>1. CASE i = L
        BY <1>3, <1>6, <2>1
    <2>2. CASE i # L
        <3>1. t[i] = s[i]
            BY <1>6, <2>2
        <3>2. t[i].from = s[i].from /\ t[i].to = s[i].to /\ t[i].counts = s[i].counts
            BY <3>1
        <3> QED
            BY <2>2, <3>2
    <2> QED
        BY <2>1, <2>2
<1>9. \A i \in 1 .. L : t[i].from < t[i].to /\ t[i].to <= n + 1
    BY <1>2, <1>7, <1>8
<1>10. ASSUME NEW i \in 1 .. L, NEW j \in 1 .. L, i < j
       PROVE  t[i].to <= t[j].from
    <2>1. i # L
        BY <1>1, <1>10
    <2>2. s[i].to <= s[j].from
        BY <1>1, <1>10 DEF Covers
    <2> QED
        BY <1>8, <2>1, <2>2
<1>11. ASSUME NEW w \in 0 .. (n + 1) - 1
       PROVE  /\ w \in H => \E i \in 1 .. L : Spans(t[i], w)
              /\ \A i \in 1 .. L : Spans(t[i], w) => w \in H /\ t[i].counts = c[w]
    <2>1. CASE w = n
        <3>1. Spans(t[L], w)
            BY <1>1, <1>2, <1>4, <1>7, <1>8, <2>1 DEF Spans
        <3>2. \A i \in 1 .. L : i # L => ~ Spans(t[i], w)
            BY <1>2, <1>7, <1>8, <2>1 DEF Spans
        <3>3. t[L].counts = c[w]
            BY <1>1, <1>4, <1>8, <2>1
        <3> QED
            BY <1>1, <2>1, <3>1, <3>2, <3>3
    <2>2. CASE w # n
        <3>1. w \in 0 .. n - 1
            BY <2>2
        <3>2. \A i \in 1 .. L : Spans(t[i], w) <=> Spans(s[i], w)
            BY <1>2, <1>4, <1>8, <3>1 DEF Spans
        <3>3. /\ w \in H => \E i \in 1 .. L : Spans(s[i], w)
              /\ \A i \in 1 .. L : Spans(s[i], w) => w \in H /\ s[i].counts = c[w]
            BY <1>1, <3>1 DEF Covers
        <3> QED
            BY <1>8, <3>2, <3>3
    <2> QED
        BY <2>1, <2>2
<1>12. ASSUME NEW i \in 1 .. L, NEW j \in 1 .. L, j = i + 1, t[i].to = t[j].from
       PROVE  t[i].counts # t[j].counts
    <2>1. i # L
        BY <1>1, <1>12
    <2> QED
        BY <1>1, <1>8, <1>12, <2>1 DEF Covers
<1>13. Covers(t, c, H, n + 1)
    BY <1>6, <1>9, <1>10, <1>11, <1>12 DEF Covers
<1> QED
    BY <1>6, <1>13

(* The next window, whatever becomes of it.                                *)
LEMMA WindowCovers ==
    ASSUME NEW C, NEW s \in Seq(IntervalsOf(C)), NEW c, NEW H, NEW n \in Nat,
           Covers(s, c, H, n), n \in H => c[n] \in C
    PROVE  /\ Extended(s, c, H, n) \in Seq(IntervalsOf(C))
           /\ Covers(Extended(s, c, H, n), c, H, n + 1)
<1> DEFINE prolongs == s # <<>> /\ Last(s).to = n /\ Last(s).counts = c[n]
<1>1. CASE n \notin H
    BY <1>1, WindowIsSkipped DEF Extended
<1>2. CASE n \in H /\ prolongs
    <2> DEFINE t == [s EXCEPT ![Len(s)].to = n + 1]
    <2>1. Extended(s, c, H, n) = t
        BY <1>2 DEF Extended, Joined
    <2> HIDE DEF t
    <2>2. t = [s EXCEPT ![Len(s)].to = n + 1]
        BY DEF t
    <2>3. t \in Seq(IntervalsOf(C)) /\ Covers(t, c, H, n + 1)
        BY <1>2, <2>2, WindowIsJoined
    <2> QED
        BY <2>1, <2>3
<1>3. CASE n \in H /\ ~ prolongs
    <2> DEFINE t == Append(s, [from |-> n, to |-> n + 1, counts |-> c[n]])
    <2>1. Extended(s, c, H, n) = t
        BY <1>3 DEF Extended, Joined
    <2> HIDE DEF t
    <2>2. t = Append(s, [from |-> n, to |-> n + 1, counts |-> c[n]])
        BY DEF t
    <2>3. t \in Seq(IntervalsOf(C)) /\ Covers(t, c, H, n + 1)
        BY <1>3, <2>2, WindowIsAppended
    <2> QED
        BY <2>1, <2>3
<1> QED
    BY <1>1, <1>2, <1>3

(* After one window more there are still intervals.                        *)
LEMMA ExtendedIs ==
    ASSUME NEW C, NEW s \in Seq(IntervalsOf(C)), NEW c, NEW H, NEW n \in Nat, c[n] \in C
    PROVE  Extended(s, c, H, n) \in Seq(IntervalsOf(C))
<1> DEFINE new == [from |-> n, to |-> n + 1, counts |-> c[n]]
           L == Len(s)
           longer == [s[L] EXCEPT !.to = n + 1]
<1>1. new \in IntervalsOf(C)
    BY DEF IntervalsOf
<1>2. Append(s, new) \in Seq(IntervalsOf(C))
    <2> HIDE DEF new
    <2> QED
        BY <1>1
<1>3. ASSUME s # <<>>
      PROVE  [s EXCEPT ![L].to = n + 1] \in Seq(IntervalsOf(C))
    <2>1. L \in Nat /\ L \in 1 .. L /\ DOMAIN s = 1 .. L /\ s[L] \in IntervalsOf(C)
        BY <1>3
    <2>2. longer \in IntervalsOf(C)
        <3> PICK r \in IntervalsOf(C) : r = s[L]
            BY <2>1
        <3>1. [r EXCEPT !.to = n + 1] \in IntervalsOf(C)
            BY DEF IntervalsOf
        <3> QED
            BY <3>1
    <2>3. [s EXCEPT ![L].to = n + 1] = [s EXCEPT ![L] = longer]
        OBVIOUS
    <2>4. s \in [1 .. L -> IntervalsOf(C)]
        OBVIOUS
    <2> HIDE DEF longer, L
    <2>5. [s EXCEPT ![L] = longer] \in [1 .. L -> IntervalsOf(C)]
        BY <2>2, <2>4
    <2> QED
        BY <2>1, <2>3, <2>5
<1> HIDE DEF new, L
<1> QED
    BY <1>2, <1>3 DEF Extended, Joined, new, L

(* A function on a finite set has finitely many values.                    *)
LEMMA ValuesAreFinite ==
    ASSUME NEW S, IsFiniteSet(S), NEW g
    PROVE  IsFiniteSet({g[n] : n \in S})
<1> DEFINE T == {g[n] : n \in S}
<1>1. (\A n \in S : g[n] \in T) /\ \A y \in T : \E n \in S : g[n] = y
    OBVIOUS
<1> HIDE DEF T
<1>2. IsFiniteSet(T)
    BY <1>1, FewValues
<1> QED
    BY <1>2 DEF T

(* How many windows there are is a number (the last known time of          *)
(* find_vehicle_class_comparison_intervals).                               *)
LEMMA WindowsIsNumber ==
    ASSUME NEW list \in RecordLists, NEW p, NEW previous,
           NEW found, Selects(found, list, p, previous)
    PROVE  Windows(found) \in Nat
<1> DEFINE S == DOMAIN found
           times == (UNION {{found[n].first, found[n].last} : n \in S}) \ {NoTime}
           A == {[n \in S |-> found[n].first][k] : k \in S}
           B == {[n \in S |-> found[n].last][k] : k \in S}
<1>1. IsFiniteSet(S)
    BY SelectionIsFinite
<1>2. IsFiniteSet(A) /\ IsFiniteSet(B)
    <2>1. PICK f, l : f = [n \in S |-> found[n].first] /\ l = [n \in S |-> found[n].last]
        OBVIOUS
    <2>2. IsFiniteSet({f[k] : k \in S}) /\ IsFiniteSet({l[k] : k \in S})
        BY <1>1, ValuesAreFinite
    <2> QED
        BY <2>1, <2>2
<1>3. IsFiniteSet(A \cup B)
    BY <1>2, FS_Union
<1>4. times \subseteq A \cup B
    OBVIOUS
<1>5. IsFiniteSet(times)
    BY <1>3, <1>4, FS_Subset
<1>6. \A n \in S : found[n].first \in Nat \cup {NoTime} /\ found[n].last \in Nat \cup {NoTime}
    BY AnswersAssumption DEF AnswersAssumption, Selects
<1>7. times \in SUBSET Nat
    BY <1>6
<1>8. Windows(found) = IF times = {} THEN 0 ELSE (Max(times) \div IntervalWindow) + 1
    BY DEF Windows
<1> HIDE DEF times
<1>9. times # {} => Max(times) \in Nat
    <2> SUFFICES ASSUME times # {}
                 PROVE  Max(times) \in Nat
        OBVIOUS
    <2>1. Max(times) \in times
        BY <1>5, <1>7, MaxOfNats
    <2> QED
        BY <1>7, <2>1
<1>10. IntervalWindow \in Nat \ {0}
    BY AnswersAssumption DEF AnswersAssumption
<1>11. \A m \in Nat : (m \div IntervalWindow) + 1 \in Nat
    BY <1>10
<1> QED
    BY <1>8, <1>9, <1>11

(* The windows a comparison of two classes holds in, and what they count.  *)
HoldingIn(found, p) ==
    {w \in 0 .. Windows(found) - 1 : Holds(WindowCounts(found, w, p.classes), p.operator)}
CountsIn(found, p) ==
    [w \in 0 .. Windows(found) - 1 |-> WindowCounts(found, w, p.classes)]

(* A sequence of intervals, whatever they count.                           *)
IsIntervals(s) ==
    /\ Len(s) \in Nat /\ DOMAIN s = 1 .. Len(s)
    /\ \A i \in DOMAIN s : i \in Nat /\ s[i].from \in Nat /\ s[i].to \in Nat

(* Merging the windows one after the other covers them all                 *)
(* (_merge_adjacent_intervals).                                            *)
LEMMA IntervalsCover ==
    ASSUME NEW found, NEW p, Windows(found) \in Nat
    PROVE  /\ IsIntervals(Intervals(found, p))
           /\ Covers(Intervals(found, p), CountsIn(found, p), HoldingIn(found, p), Windows(found))
<1> DEFINE N == Windows(found)  c == CountsIn(found, p)  H == HoldingIn(found, p)
           C == {c[w] : w \in 0 .. N - 1}
           S == Seq(IntervalsOf(C))
           At(n) == WindowCounts(found, n, p.classes)
           Add(s, n) == IF Holds(At(n - 1), p.operator) THEN Joined(s, n - 1, At(n - 1)) ELSE s
           step == [r \in S \X (1 .. N) |-> Add(r[1], r[2])]
           Body(g) == [n \in 0 .. N |-> IF n = 0 THEN <<>> ELSE Add(g[n - 1], n)]
           merged == CHOOSE g : g = Body(g)
           Good(s, n) == s \in S /\ Covers(s, c, H, n)
<1>1. N \in Nat
    OBVIOUS
<1>2. \A i \in 1 .. N : i # 0 /\ i - 1 \in 0 .. N - 1 /\ i - 1 \in 0 .. N /\ i \in 0 .. N
            /\ i - 1 \in Nat /\ (i - 1) + 1 = i
    BY <1>1
<1>3. Intervals(found, p) = merged[N]
    BY DEF Intervals
<1>4. ASSUME NEW i \in 1 .. N, NEW s
      PROVE  Add(s, i) = Extended(s, c, H, i - 1)
    <2>1. i - 1 \in 0 .. N - 1
        BY <1>2
    <2>2. c[i - 1] = At(i - 1) /\ (i - 1 \in H <=> Holds(At(i - 1), p.operator))
        BY <2>1 DEF CountsIn, HoldingIn
    <2> HIDE DEF At, c, H
    <2> QED
        BY <2>2 DEF Extended
<1>5. \A w \in 0 .. N - 1 : c[w] \in C
    OBVIOUS
<1> HIDE DEF At, Add, C, c, H, N
<1>6. ASSUME NEW i \in 1 .. N, NEW s \in S
      PROVE  Add(s, i) \in S /\ (Good(s, i - 1) => Good(Add(s, i), i))
    <2> PICK n \in Nat : n = i - 1
        BY <1>2
    <2>1. n + 1 = i /\ c[n] \in C
        BY <1>2, <1>5
    <2>2. Extended(s, c, H, n) \in S
        BY <2>1, ExtendedIs
    <2>3. Covers(s, c, H, n) => Covers(Extended(s, c, H, n), c, H, n + 1)
        BY <2>1, WindowCovers
    <2> QED
        BY <1>4, <2>1, <2>2, <2>3
<1>7. <<>> \in S /\ Good(<<>>, 0)
    BY DEF Covers
<1> HIDE DEF S, Good
<1>8. step \in [S \X (1 .. N) -> S]
    BY <1>6
<1>9. PICK h \in [0 .. N -> S] : h[0] = <<>> /\ \A i \in 1 .. N : h[i] = step[<<h[i - 1], i>>]
    <2> HIDE DEF step
    <2>1. \E h : Unrolls(h, S, <<>>, N, step)
        BY <1>1, <1>7, <1>8, RecursionExists
    <2> QED
        BY <2>1 DEF Unrolls
<1>10. \A s \in S, i \in 1 .. N : step[<<s, i>>] = Add(s, i)
    OBVIOUS
<1>11. h = Body(h)
    <2>1. \A n \in 0 .. N : n = 0 \/ n \in 1 .. N
        BY <1>1
    <2>2. \A n \in 1 .. N : h[n] = Add(h[n - 1], n)
        <3> HIDE DEF step
        <3> QED
            BY <1>2, <1>9, <1>10
    <2>3. \A n \in 0 .. N : h[n] = Body(h)[n]
        BY <1>9, <2>1, <2>2
    <2> QED
        BY <1>9, <2>3
<1>12. merged = Body(merged)
    <2> HIDE DEF Body
    <2>1. \E g : g = Body(g)
        BY <1>11
    <2> QED
        BY <2>1
<1> HIDE DEF merged
<1>13. merged[0] = <<>> /\ \A i \in 1 .. N : merged[i] = Add(merged[i - 1], i)
    <2>1. \A n \in 0 .. N : merged[n] = IF n = 0 THEN <<>> ELSE Add(merged[n - 1], n)
        BY <1>12
    <2>2. 0 \in 0 .. N
        BY <1>1
    <2> QED
        BY <1>2, <2>1, <2>2
<1> DEFINE Bad == {n \in 0 .. N : ~ Good(merged[n], n)}
<1>14. Bad = {}
    <2> SUFFICES ASSUME Bad # {}
                 PROVE  FALSE
        OBVIOUS
    <2>1. PICK m \in Bad : \A n \in Bad : m <= n
        <3>1. Bad \in SUBSET Nat
            BY <1>1
        <3> HIDE DEF Bad
        <3> QED
            BY <3>1, LeastNat
    <2>2. m \in 0 .. N /\ m # 0
        BY <1>7, <1>13
    <2>3. m \in 1 .. N /\ ~ (m <= m - 1)
        BY <1>1, <2>2
    <2>4. Good(merged[m - 1], m - 1)
        BY <1>2, <2>1, <2>3
    <2>5. Good(merged[m], m)
        <3>1. merged[m - 1] \in S
            BY <2>4 DEF Good
        <3> QED
            BY <1>6, <1>13, <2>3, <2>4, <3>1
    <2> QED
        BY <2>1, <2>5
<1>15. Good(merged[N], N)
    <2>1. N \in 0 .. N
        BY <1>1
    <2> QED
        BY <1>14, <2>1
<1> DEFINE s == merged[N]
<1>16. s \in Seq(IntervalsOf(C)) /\ Covers(s, c, H, N)
    BY <1>15 DEF Good, S
<1> HIDE DEF s
<1>17. IsIntervals(s)
    <2>1. /\ Len(s) \in Nat /\ DOMAIN s = 1 .. Len(s)
          /\ \A i \in DOMAIN s : i \in Nat /\ s[i] \in IntervalsOf(C)
        BY <1>16
    <2> QED
        BY <2>1 DEF IntervalsOf, IsIntervals
<1> QED
    BY <1>3, <1>16, <1>17 DEF s, c, H, N

(* The intervals of an answer cover the windows it is about                *)
(* (find_vehicle_class_comparison_intervals).                              *)
LEMMA IntervalsHold ==
    ASSUME AnswersInv
    PROVE  IntervalsCoverWindows
<1> SUFFICES ASSUME NEW k \in DOMAIN answersGiven, answersGiven[k].plan.shape = "intervals",
                    NEW a, a = answersGiven[k]
             PROVE  LET count(n) == WindowCounts(a.found, n, a.plan.classes)
                        Around(n) == {i \in DOMAIN a.result :
                                        a.result[i].from <= n /\ n < a.result[i].to}
                    IN  /\ \A n \in 0 .. Windows(a.found) - 1 :
                                IF Holds(count(n), a.plan.operator)
                                THEN \E i \in Around(n) :
                                        Around(n) = {i} /\ a.result[i].counts = count(n)
                                ELSE Around(n) = {}
                        /\ \A i \in 1 .. Len(a.result) - 1 :
                                a.result[i].to = a.result[i + 1].from =>
                                    a.result[i].counts # a.result[i + 1].counts
    BY DEF IntervalsCoverWindows
<1>1. PICK p \in AcceptedPlans, previous \in {{}, IdsAfter(answersGiven, k - 1)} :
            IsAnswerTo(a, vehicleRecords, p, previous)
    BY AnswersAre
<1> PICK found : found = a.found
    OBVIOUS
<1> PICK s : s = a.result
    OBVIOUS
<1>2. /\ a.plan = p /\ p.shape = "intervals" /\ Selects(found, vehicleRecords, p, previous)
      /\ s = Result(vehicleRecords, found, p) /\ vehicleRecords \in RecordLists
    BY <1>1 DEF IsAnswerTo, AnswersInv
<1>3. s = Intervals(found, p)
    BY <1>2 DEF Result
<1>4. Windows(found) \in Nat
    BY <1>2, WindowsIsNumber
<1> PICK N : N = Windows(found)
    OBVIOUS
<1>5. IsIntervals(s) /\ Covers(s, CountsIn(found, p), HoldingIn(found, p), N)
    BY <1>3, <1>4, IntervalsCover
<1> DEFINE count(n) == WindowCounts(found, n, p.classes)
           Around(n) == {i \in DOMAIN s : s[i].from <= n /\ n < s[i].to}
<1>6. ASSUME NEW n \in 0 .. N - 1
      PROVE  IF Holds(count(n), p.operator)
             THEN \E i \in Around(n) : Around(n) = {i} /\ s[i].counts = count(n)
             ELSE Around(n) = {}
    <2>1. /\ CountsIn(found, p)[n] = count(n)
          /\ n \in HoldingIn(found, p) <=> Holds(count(n), p.operator)
        BY DEF CountsIn, HoldingIn
    <2> DEFINE c == CountsIn(found, p)  H == HoldingIn(found, p)
    <2> HIDE DEF c, H
    <2>2. /\ n \in H => \E i \in DOMAIN s : Spans(s[i], n)
          /\ \A i \in DOMAIN s : Spans(s[i], n) => n \in H /\ s[i].counts = c[n]
        BY <1>5 DEF Covers, c, H
    <2>3. \A i \in DOMAIN s : i \in Around(n) <=> Spans(s[i], n)
        BY DEF Spans
    <2>4. \A i, j \in Around(n) : i = j
        <3>1. \A i, j \in DOMAIN s : i < j => s[i].to <= s[j].from
            BY <1>5 DEF Covers
        <3>2. \A i \in DOMAIN s : i \in Nat /\ s[i].from \in Nat /\ s[i].to \in Nat
            BY <1>5 DEF IsIntervals
        <3> QED
            BY <3>1, <3>2
    <2> HIDE DEF Around, count
    <2>5. CASE Holds(count(n), p.operator)
        <3>1. n \in H
            BY <2>1, <2>5 DEF H
        <3>2. PICK i \in DOMAIN s : Spans(s[i], n)
            BY <2>2, <3>1
        <3>3. i \in Around(n) /\ s[i].counts = count(n)
            BY <2>1, <2>2, <2>3, <3>2 DEF c
        <3>4. Around(n) = {i}
            BY <2>4, <3>3
        <3> QED
            BY <2>5, <3>3, <3>4
    <2>6. CASE ~ Holds(count(n), p.operator)
        <3>1. n \notin H
            BY <2>1, <2>6 DEF H
        <3>2. \A i \in DOMAIN s : i \notin Around(n)
            BY <2>2, <2>3, <3>1
        <3>3. Around(n) = {}
            BY <3>2 DEF Around
        <3> QED
            BY <2>6, <3>3
    <2> QED
        BY <2>5, <2>6
<1>7. ASSUME NEW i \in 1 .. Len(s) - 1, s[i].to = s[i + 1].from
      PROVE  s[i].counts # s[i + 1].counts
    <2>1. Len(s) \in Nat /\ DOMAIN s = 1 .. Len(s)
        BY <1>5 DEF IsIntervals
    <2>2. i \in DOMAIN s /\ i + 1 \in DOMAIN s
        BY <2>1
    <2> QED
        BY <1>5, <1>7, <2>2 DEF Covers
<1> QED
    BY <1>2, <1>6, <1>7

(* Questions about an answer are answered from it, rankings are honest,    *)
(* and intervals cover what they are about (execute_analytics_plan).       *)
THEOREM AnswersHoldTheorem ==
    AnswersSpec => [](FollowUpsNarrow /\ RankingsAreHonest /\ IntervalsCoverWindows)
<1>1. AnswersInv => FollowUpsNarrow /\ RankingsAreHonest /\ IntervalsCoverWindows
    BY FollowUpsHold, RankingsHold, IntervalsHold
<1> QED
    BY <1>1, AnswersInvariant, PTL

-----------------------------------------------------------------------------
(* The gathered properties                                                 *)

(* Each tracker sees every frame of its camera and, of its detections, the *)
(* eligible ones of its class only (process_frames).                       *)
THEOREM DetectionsReachTrackersTheorem == RouteSpec => []DetectionsReachTrackers
<1>1. RouteInv => DetectionsReachTrackers
    BY DEF RouteInv, DetectionsReachTrackers
<1> QED
    BY <1>1, RouteInvariant, PTL

(* No record misses its frame, no frame outlives the run, the best         *)
(* candidate is still there, and the crop files are those of the crops,    *)
(* few and far enough from each other (register_frame, finalize_tracks,    *)
(* flush_camera, _retain_capture_zone_candidate).                          *)
THEOREM EvidenceIsKeptTheorem == EvSpec /\ ZoneSpec => []EvidenceIsKept
<1>1. EvidenceHasItsFrames /\ BestCandidateSurvives /\ CropFilesMatch /\ CropsAreSpaced
        => EvidenceIsKept
    BY DEF EvidenceIsKept
<1> QED
    BY <1>1, RecordsHaveFrames, BestIsNeverLost, CropFilesMatchTheorem,
       CropsAreSpacedTheorem, PTL

(* The status, the artifacts and the rows of a run agree at every moment,  *)
(* short of a kill, whatever it fails at (the end of run_pipeline, its     *)
(* handler, and the import).                                               *)
THEOREM PublishedRunsAreTrueTheorem == PubSpec => []PublishedRunsAreTrue
<1>1. OutcomesAreTrue /\ RowsAreWhole => PublishedRunsAreTrue
    BY DEF PublishedRunsAreTrue
<1> QED
    BY <1>1, OutcomesAreTrueTheorem, RowsAreWholeTheorem, PTL

(* A live client that lost nothing sees what is, and a completed run       *)
(* leaves no track without its colour (runtime_state.py, live_updates).    *)
THEOREM LiveViewsAreTrueTheorem == LiveSpec => []LiveViewsAreTrue
<1>1. ClientsCatchUp /\ ColoursAreReported => LiveViewsAreTrue
    BY DEF LiveViewsAreTrue
<1> QED
    BY <1>1, EveryClientCatchesUp, EveryColourIsReported, PTL

(* A run reads a whole and valid configuration whatever is saved beside    *)
(* it, and validation combines the layers in their order and is stable     *)
(* (config_service.py, evidence.py).                                       *)
THEOREM ConfigurationsHoldTheorem == ConfigSpec /\ RulesSpec => []ConfigurationsHold
<1>1. /\ RunsReadValidConfigs /\ ClonesReplaceOnlyRivals /\ NoTempsLeft
      /\ NormalizedOnce /\ LayersDecide /\ LimitsFitTheModules
      => ConfigurationsHold
    BY DEF ConfigurationsHold
<1> QED
    BY <1>1, RunsStartFromValidFiles, OnlyRivalsAreReplaced, TempsAreRemoved,
       NormalizedOnceTheorem, LayersDecideTheorem, LimitsFitTheorem, PTL

(* Tracks become one vehicle only when every pair agrees or a plate        *)
(* outweighs a gap, and a track joins an earlier one only where no other   *)
(* comes close (vehicle_identity.py, its experiment, and                   *)
(* track_reconciliation.py).                                               *)
THEOREM IdentitiesAgreeTheorem == IdentitySpec /\ ReconSpec => []IdentitiesAgree
<1>1. VehiclesAgree /\ PlatesOutweighOnlyGaps /\ LinksAreClear => IdentitiesAgree
    BY DEF IdentitiesAgree
<1> QED
    BY <1>1, VehiclesAgreeTheorem, PlatesOutweighTheorem, LinksAreClearTheorem, PTL

(* The rows of a run are those of its files, however often it is imported, *)
(* a record finds the track it is of, and what is read back of the rows,   *)
(* of the files and through the API is the same (the importers, the two    *)
(* repositories and api_app.py).                                           *)
THEOREM ImportsAreFaithfulTheorem == ImportSpec /\ RecordsSpec => []ImportsAreFaithful
<1>1. /\ RowsFollowFiles /\ RecordsFindTheirTracks
      /\ ReadersAgree /\ LiveOnlyAdds /\ LinksLeadBack /\ PlatesAreRead
      => ImportsAreFaithful
    BY DEF ImportsAreFaithful
<1> QED
    BY <1>1, RowsFollowFilesTheorem, RecordsFindTheirTracksTheorem, ReadersAgreeTheorem,
       LiveOnlyAddsTheorem, LinksLeadBackTheorem, PlatesAreReadTheorem, PTL

(* Of rival claims to a plate at most one is kept, whatever order the      *)
(* tracks come in, and a text is that of a plate that was found, and the   *)
(* only one near what was read (_resolve_plate_association_conflicts and   *)
(* validate_indian_plate).                                                 *)
THEOREM PlatesHaveOwnersTheorem == PlateSpec /\ PlateReadingSpec => []PlatesHaveOwners
<1>1. OneOwnerPerPlate /\ DecisionsAreFair /\ PlatesAreCertain /\ TextsAreOfPlates
        => PlatesHaveOwners
    BY DEF PlatesHaveOwners
<1> QED
    BY <1>1, OneOwnerTheorem, DecisionsFairTheorem, PlatesCertainTheorem,
       TextsOfPlatesTheorem, PTL

(* Every crop of a track is asked about or given up for a reason, small    *)
(* crops are a last resort, and agreement decides                          *)
(* (vehicle_attribute_flow.py, enrichment_manager.py).                     *)
THEOREM AttributesAreAccountedTheorem == AttrSpec => []AttributesAreAccounted
<1>1. AttrInv => AttributesAreAccounted
    BY SmallCropsHold, ColoursHold, BodiesHold, AgreementHolds DEF AttributesAreAccounted
<1>2. AttrSpec => []AttrInv
    BY AttrInitially, AttrStep, PTL DEF AttrSpec
<1> QED
    BY <1>1, <1>2, PTL

(* The pages of an answer skip no vehicle that all of them would let       *)
(* through, the plan that is executed is valid and means what the parser   *)
(* understood, and rankings, intervals and questions about an earlier      *)
(* answer leave nothing out and add nothing (video_chat.py,                *)
(* video_chat_plan_validation.py, video_chat_execution.py).                *)
THEOREM AnswersAreCompleteTheorem ==
    ChatSpec /\ PlanSpec /\ AnswersSpec => []AnswersAreComplete
<1>1. /\ NothingIsSkipped /\ SerialPagesAreExact /\ RepairsStayValid /\ ParserDecides
      /\ FollowUpsNarrow /\ RankingsAreHonest /\ IntervalsCoverWindows
      => AnswersAreComplete
    BY DEF AnswersAreComplete
<1> QED
    BY <1>1, ChatPagesTheorem, PlansHoldTheorem, AnswersHoldTheorem, PTL
=============================================================================
