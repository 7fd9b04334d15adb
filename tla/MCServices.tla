------------------------------ MODULE MCServices ------------------------------
(***************************************************************************)
(* Small instances of the modules that share no state with one another:    *)
(* one behaviour exercises one of them, the part, and leaves the others in *)
(* an initial state, so that their state spaces add up and do not          *)
(* multiply.                                                               *)
(***************************************************************************)
EXTENDS Services

VARIABLE part

CONSTANTS a1, a2, b1, b2, b3

(* Each part names its own tracks, cameras or requests after these.        *)
Twins == {a1, a2}
Triple == {b1, b2, b3}
Interchangeable == Permutations(Twins) \cup Permutations(Triple)

-----------------------------------------------------------------------------
(* Values of constants that a configuration file cannot write.             *)

ProfileOf(top, saved, gap, confirm) ==
    [top |-> top, bottom |-> 2, saved |-> saved, gap |-> gap, confirm |-> confirm]
SomeProfiles == {ProfileOf(1, 2, 2, TRUE), ProfileOf(2, 1, 1, FALSE)}

Fact(fails, overlap, score) == [fails |-> fails, overlap |-> overlap, score |-> score]
SomeFacts ==
    {Fact({}, "none", s) : s \in {50, 71, 90}} \cup
    {Fact({}, "duplicate", 90), Fact({"gap"}, "none", 90), Fact({"jump"}, "neither", 90),
     Fact({}, "distinct", 90), Fact({"jump", "class"}, "duplicate", 90)}
SomeReads ==
    {[text |-> "none", quality |-> "UNUSABLE"], [text |-> "A", quality |-> "HIGH"],
     [text |-> "B", quality |-> "HIGH"], [text |-> "A1", quality |-> "MEDIUM"]}
OneCharacterApart(a, b) == {a, b} = {"A", "A1"}
Unlike(a, b) == {a, b} = {"A", "B"}

(* The quotes of "nested" are more than one normalization takes off.       *)
SomeCleaning == ("plain" :> "plain") @@ ("invalid" :> "invalid") @@ ("quoted" :> "plain") @@
                ("nested" :> "quoted")

Row4(id, status, first, last_) ==
    [id |-> id, status |-> status, first |-> first, last |-> last_]
SomeTracks == {Row4("a", "COMPLETED", 1, 2), Row4("a", "DISCARDED", 3, 4),
               Row4("b", "COMPLETED", 1, 4), Row4("a", "DISCARDED", 1, 3)}
SomeObservations == {[id |-> "a", frame |-> 1], [id |-> "a", frame |-> 4]}
SomeEnrichments ==
    {[id |-> "a", frame |-> 1, colour |-> "red"], [id |-> "a", frame |-> 4, colour |-> "blue"],
     [id |-> "b", frame |-> 9, colour |-> "red"]}

SomeDetections ==
    {[class |-> "car", box |-> "fine"], [class |-> "car", box |-> "small"],
     [class |-> "car", box |-> "broken"], [class |-> "truck", box |-> "outside"]}

Crop4(frame, origin, tier, size, grade, state_) ==
    [frame |-> frame, source |-> origin, tier |-> tier, size |-> size, quality |-> grade,
     state |-> state_]
SomeCrops ==
    {<<>>,
     <<Crop4(1, "raw", "below", "small", 30, "unreadable")>>,
     <<Crop4(1, "existing", "acceptable", "usable", 30, "fine"),
       Crop4(1, "existing", "acceptable", "usable", 30, "fine"),
       Crop4(4, "existing", "acceptable", "preferred", 45, "fine")>>,
     <<Crop4(1, "existing", "below", "usable", 80, "fine"),
       Crop4(2, "raw", "acceptable", "usable", 40, "fine"),
       Crop4(3, "raw", "preferred", "preferred", 35, "penalized")>>,
     <<Crop4(2, "existing", "preferred", "preferred", 50, "fine"),
       Crop4(6, "zone", "below", "small", 90, "fine"),
       Crop4(2, "raw", "preferred", "preferred", 20, "fine"),
       Crop4(3, "raw", "acceptable", "usable", 5, "fine")>>,
     <<Crop4(5, "zone", "below", "usable", 20, "fine"),
       Crop4(7, "existing", "below", "small", 60, "unreadable"),
       Crop4(9, "raw", "below", "usable", 20, "fine")>>}

SomeLetters == {"A", "B", "I", "L"}
SomeDigits == {"1", "8"}
SomeLookAlikes == {<<"1", "I">>, <<"1", "L">>, <<"8", "B">>}
SomeStandard == {<<"L", "D", "L", "D">>, <<"L", "D", "D", "L", "D">>, <<"L", "D", "L", "L", "D">>}
SomeBharat == {<<"D", "B", "D", "L">>}
SomeStates == {<<"A">>, <<"L">>}
SomeTexts == {<<>>} \cup UNION {[1..n -> SomeLetters \cup SomeDigits] : n \in 4..5}

Fragment(id, frames, places, class_, colour_) ==
    [id |-> id, camera |-> "cam", status |-> "COMPLETED", first |-> frames[1], last |-> frames[2],
     from |-> places[1], to |-> places[2], class |-> class_, colour |-> colour_, timed |-> TRUE]
SomeFragments ==
    {Fragment(1, <<1, 3>>, <<0, 4>>, "CAR", "RED"),
     [Fragment(1, <<1, 3>>, <<0, 4>>, "CAR", "RED") EXCEPT !.camera = "other"],
     Fragment(2, <<1, 4>>, <<1, 7>>, "UNKNOWN", "RED"),
     Fragment(2, <<2, 2>>, <<4, 4>>, "TRUCK", "UNKNOWN"),
     Fragment(3, <<5, 6>>, <<8, 10>>, "CAR", "RED"),
     Fragment(3, <<4, 6>>, <<6, 10>>, "UNKNOWN", "GREY"),
     [Fragment(3, <<5, 6>>, <<8, 6>>, "CAR", "RED") EXCEPT !.status = "DISCARDED"],
     Fragment(4, <<5, 7>>, <<8, 12>>, "CAR", "BLACK"),
     Fragment(4, <<8, 9>>, <<13, 15>>, "TRUCK", "GREY"),
     Fragment(4, <<8, 9>>, <<13, 11>>, "CAR", "GREY"),
     [Fragment(4, <<7, 7>>, <<10, 10>>, "CAR", "GREY") EXCEPT !.timed = FALSE]}
CloseTo(distance) == IF distance = 0 THEN 100 ELSE IF distance < 3 THEN 80 ELSE 50
AlikeColours == {{"BLACK", "GREY"}}

In(field, value) == Condition(field, "in", {value})
HoldsNothing == Combined("or", <<NoFilter>>)
SomeFilters ==
    {NoFilter, In("class", "CAR"), Not(In("camera", "C1")), In("plate_presence", "readable"),
     Combined("or", <<In("vehicle_type", "car"), In("camera", "c2")>>),
     Combined("and", <<Not(In("class", "TRUCK")), In("run", "R1"), NoFilter>>),
     Combined("not", <<In("class", "CAR"), In("run", "R1")>>), HoldsNothing}
CarsAgainstCamera ==
    [operation |-> "winner", left |-> In("class", "CAR"), right |-> In("camera", "C1")]
CarsOverTime ==
    [operation |-> ">", left |-> In("class", "CAR"), right |-> In("class", "MOTORCYCLE")]
Proposal(filters, group, shape, order, metric, comparison) ==
    [filters |-> filters, group |-> group, shape |-> shape, order |-> order, metric |-> metric,
     comparison |-> comparison, cameras |-> {}]
SomeProposals ==
    {Proposal(f, g, "scalar", "none", "none", NoComparison) :
        f \in SomeFilters, g \in {<<>>, <<"camera_id">>}} \cup
    {Proposal(In("class", "CAR"), <<>>, "comparison", "none", "count", CarsAgainstCamera),
     Proposal(NoFilter, <<>>, "comparison", "none", "count",
              [CarsAgainstCamera EXCEPT !.right = HoldsNothing]),
     Proposal(NoFilter, <<"camera", "class">>, "grouped", "none", "count", NoComparison),
     Proposal(NoFilter, <<"class">>, "ranking", "none", "none", NoComparison),
     Proposal(NoFilter, <<"class">>, "ranking", "asc", "incomplete", NoComparison),
     Proposal(NoFilter, <<>>, "comparison", "none", "count", NoComparison),
     Proposal(NoFilter, <<"engine">>, "grouped", "none", "count", NoComparison)}
NotParsed == [parsed |-> FALSE, filters |-> NoFilter, metric |-> "none", comparison |-> NoComparison]
Parsed(filters, comparison) ==
    [parsed |-> TRUE, filters |-> filters, metric |-> "count", comparison |-> comparison]
PlainQuestion ==
    [candidate |-> NotParsed, included |-> <<>>, excluded |-> <<>>, scope |-> "none", summary |-> FALSE,
     ranked |-> "none", order |-> "none", cameras |-> {}, sameNamed |-> FALSE]
SomeQuestions ==
    {[PlainQuestion EXCEPT !.candidate = c, !.cameras = cams] :
        c \in {NotParsed, Parsed(In("class", "CAR"), NoComparison), Parsed(NoFilter, CarsAgainstCamera),
               Parsed(NoFilter, CarsOverTime)},
        cams \in {{}, {"C1"}, {"C9"}}} \cup
    {[PlainQuestion EXCEPT !.included = <<"CAR", "VAN">>, !.excluded = <<"TRUCK">>,
                           !.ranked = "camera", !.order = o, !.sameNamed = same] :
        o \in {"none", "desc"}, same \in BOOLEAN} \cup
    {[PlainQuestion EXCEPT !.scope = "camera", !.summary = s, !.cameras = {"C2"}, !.order = o] :
        s \in BOOLEAN, o \in {"none", "asc"}}
SomeAliases == ("vehicle_type" :> "class") @@ ("car" :> "CAR") @@ ("c2" :> "C2") @@ ("camera_id" :> "camera")
SomeRunScopes == {{"R1"}, {"R1", "R2"}}
CamerasOfRuns == ("R1" :> {"C1"}) @@ ("R2" :> {"C1", "C2"})

Vehicle(id, run, camera, class_, first, last_) ==
    [id |-> id, run |-> run, camera |-> camera, class |-> class_, colour |-> "RED",
     plate |-> "missing", first |-> first, last |-> last_]
SomeRecordLists ==
    {<<>>,
     <<Vehicle(1, "R1", "C1", "CAR", 0, 2), Vehicle(2, "R1", "C2", "TRUCK", 1, 6),
       Vehicle(1, "R2", "C1", "CAR", 5, 9), Vehicle(2, "R2", "C1", "VAN", NoTime, 3),
       Vehicle(3, "R2", "C2", "BUS", 4, NoTime)>>,
     <<Vehicle(1, "R1", "C1", "BUS", 3, 3), Vehicle(2, "R1", "C1", "CAR", 2, 4),
       Vehicle(3, "R1", "C2", "CAR", 4, 9), Vehicle(4, "R1", "C1", "VAN", 8, 9),
       Vehicle(1, "R2", "C1", "TRUCK", 2, 2), Vehicle(2, "R2", "C1", "VAN", 2, 2)>>}
PlainPlan ==
    [filters |-> NoFilter, group |-> <<>>, shape |-> "list", order |-> "none", metric |-> "count",
     comparison |-> NoComparison, cameras |-> {}, notCameras |-> {}, runs |-> {"R1", "R2"},
     from |-> NoTime, to |-> NoTime, limit |-> 0, refers |-> FALSE,
     classes |-> <<"CAR", "TRUCK">>, operator |-> ">"]
RunAgainstRun ==
    [operation |-> "winner", left |-> Condition("run", "eq", {"R1"}),
     right |-> Condition("run", "eq", {"R2"})]
SomePlans ==
    {[PlainPlan EXCEPT !.filters = f, !.refers = refers, !.runs = runs] :
        f \in {NoFilter, Condition("class", "neq", {"CAR"}), Not(In("camera", "C1"))},
        refers \in BOOLEAN, runs \in SomeRunScopes} \cup
    {[PlainPlan EXCEPT !.from = 3, !.to = 4, !.refers = TRUE], [PlainPlan EXCEPT !.shape = "summary"],
     [PlainPlan EXCEPT !.notCameras = {"C1"}],
     [PlainPlan EXCEPT !.shape = "grouped", !.group = <<"run_camera">>, !.refers = TRUE],
     [PlainPlan EXCEPT !.shape = "grouped", !.group = <<"plate_presence">>, !.cameras = {"C1"}],
     [PlainPlan EXCEPT !.shape = "comparison", !.refers = TRUE, !.comparison = RunAgainstRun,
                       !.filters = Not(Condition("class", "eq", {"BUS"}))]} \cup
    {[PlainPlan EXCEPT !.shape = "ranking", !.order = o, !.group = <<g>>, !.limit = l] :
        o \in {"asc", "desc"}, g \in {"class", "camera"}, l \in {0, 1}} \cup
    {[PlainPlan EXCEPT !.shape = "intervals", !.operator = o, !.refers = refers] :
        o \in {">", "<", "="}, refers \in BOOLEAN}

SavedTrack(camera, number, class_, colour_, plate_, first, last_) ==
    [id |-> <<camera, number>>, status |-> "COMPLETED", class |-> class_, colour |-> colour_,
     plate |-> plate_, detected |-> plate_ # "none", enriched |-> TRUE,
     first |-> first, last |-> last_]
SavedVehicle(key, class_, colour_, plate_) ==
    [key |-> key, class |-> class_, colour |-> colour_, plate |-> plate_, cameras |-> {"C1"}]
Setting(enabled, frames) == [enabled |-> enabled, frames |-> frames]
SomeRecordings ==
    {[tracks |-> {SavedTrack("C1", 1, "CAR", "RED", "P", 0, 4),
                  [SavedTrack("C2", 1, "none", "none", "none", 3, 6) EXCEPT !.enriched = FALSE,
                                                                            !.status = "DISCARDED"]},
      vehicles |-> {SavedVehicle("V1", "CAR", "RED", "P"), SavedVehicle("V2", "CAR", "none", "none")},
      cameras |-> ("C1" :> Setting("true", TRUE)) @@ ("C2" :> Setting("false", TRUE))
                  @@ ("C3" :> Setting("true", FALSE))],
     [tracks |-> {SavedTrack("C1", 1, "CAR", "BLUE", "none", 1, 2),
                  [SavedTrack("C1", 2, "BUS", "none", "Q", 5, 6) EXCEPT !.detected = FALSE]},
      vehicles |-> {},
      cameras |-> ("C1" :> Setting("absent", TRUE)) @@ ("C2" :> Setting("absent", FALSE))
                  @@ ("C3" :> Setting("false", FALSE))]}
RecordQuestion(run) ==
    [run |-> run, camera |-> "C1", class |-> "any", colour |-> "any", number |-> 1,
     plate |-> "any", from |-> 0, to |-> 99]
SomeRecordQuestions ==
    UNION {LET q == RecordQuestion(run)
           IN {q, [q EXCEPT !.class = "CAR", !.number = 0], [q EXCEPT !.colour = "UNKNOWN"],
               [q EXCEPT !.camera = "any", !.plate = "P", !.colour = "RED"],
               [q EXCEPT !.camera = "any", !.number = 0, !.plate = "blank", !.from = 2, !.to = 4]} :
             run \in 0..3}
SomeRecordPaths ==
    {<<"evidence", "C1", "a.jpg">>, <<"tracked_frames", "C1", "f.jpg">>, <<"summary.json">>,
     <<"track_reconciliation_test", "visual_evidence", "x.jpg">>}
SomePlateCases ==
    [members : UNION {[1..n -> [text : 0..2, quality : {"HIGH", "LOW"}, long : {TRUE}]] : n \in 1..3},
     reasons : {{}, {"PLATE_PARTIAL_MATCH"}}]

-----------------------------------------------------------------------------

Parts == {"evidence", "zone", "publication", "live", "saves", "plates", "identity",
          "import", "chat", "rules", "routing", "attributes", "reading", "reconciliation", "planning",
          "answers", "records"}

(* A part with many initial states has one of them while it is idle.       *)
IdleSaves == files = [n \in ConfigNames |-> "absent"] /\ ConfigInit
IdleImport ==
    /\ runFiles = [tracks |-> <<Row4("b", "COMPLETED", 1, 4)>>, observations |-> {},
                   enrichment |-> <<>>, vehicles |-> <<>>, outside |-> 0]
    /\ ImportInit
IdleChat == unresolved = {} /\ ChatInit
IdleRules ==
    /\ rawLimits = [name \in {"max_frames_per_camera"} |-> 1]
    /\ rawCameras = <<>> /\ rawZone = PlainZone
    /\ RulesInit
IdleRouting == roi = {} /\ perClass = FALSE /\ tensor = FALSE /\ quality = FALSE /\ RouteInit
IdleAttributes ==
    given = <<>> /\ vehicle = "CAR" /\ mode = "flow" /\ source = "zone" /\ AttrInit
IdleReading ==
    setup = [detects |-> FALSE, reads |-> FALSE, saves |-> FALSE, model |-> "missing"]
        /\ PlateReadingInit
IdleReconciliation == ordered = <<>> /\ ReconInit
IdleProposal == Proposal(NoFilter, <<"class">>, "ranking", "none", "none", NoComparison)
IdlePlanning ==
    asked = PlainQuestion /\ proposal = IdleProposal /\ runScope = {"R1"} /\ PlanInit
IdleAnswers == vehicleRecords = <<>> /\ AnswersInit

(* An operator wrote one file at most; requests make others from it.       *)
BusySaves == ConfigInit /\ \E n \in ConfigNames : files[n] = "absent"

(* Of the three vehicles only the second may have no evidence.             *)
BusyChat == ChatInit /\ unresolved \subseteq {2}

ServicesInit ==
    /\ part \in Parts
    /\ EvInit /\ ZoneInit /\ PubInit /\ LiveInit /\ PlateInit /\ IdentityInit /\ RecordsInit
    /\ IF part = "saves" THEN BusySaves ELSE IdleSaves
    /\ IF part = "import" THEN ImportInit ELSE IdleImport
    /\ IF part = "chat" THEN BusyChat ELSE IdleChat
    /\ IF part = "rules" THEN RulesInit ELSE IdleRules
    /\ IF part = "routing" THEN RouteInit ELSE IdleRouting
    /\ IF part = "attributes" THEN AttrInit ELSE IdleAttributes
    /\ IF part = "reading" THEN PlateReadingInit ELSE IdleReading
    /\ IF part = "reconciliation" THEN ReconInit ELSE IdleReconciliation
    /\ IF part = "planning" THEN PlanInit ELSE IdlePlanning
    /\ IF part = "answers" THEN AnswersInit ELSE IdleAnswers

ServicesNext ==
    /\ UNCHANGED part
    /\ IF part = "evidence" THEN EvNext ELSE UNCHANGED evVars
    /\ IF part = "zone" THEN ZoneNext ELSE UNCHANGED zoneVars
    /\ IF part = "publication" THEN PubNext ELSE UNCHANGED pubVars
    /\ IF part = "live" THEN LiveNext ELSE UNCHANGED liveVars
    /\ IF part = "saves" THEN ConfigNext ELSE UNCHANGED configVars
    /\ IF part = "plates" THEN PlateNext ELSE UNCHANGED plateVars
    /\ IF part = "identity" THEN IdentityNext ELSE UNCHANGED identityVars
    /\ IF part = "import" THEN ImportNext ELSE UNCHANGED importVars
    /\ IF part = "chat" THEN ChatNext ELSE UNCHANGED chatVars
    /\ IF part = "rules" THEN RulesNext ELSE UNCHANGED rulesVars
    /\ IF part = "routing" THEN RouteNext ELSE UNCHANGED routeVars
    /\ IF part = "attributes" THEN AttrNext ELSE UNCHANGED attrVars
    /\ IF part = "reading" THEN PlateReadingNext ELSE UNCHANGED plateReadingVars
    /\ IF part = "reconciliation" THEN ReconNext ELSE UNCHANGED reconVars
    /\ IF part = "planning" THEN PlanNext ELSE UNCHANGED planVars
    /\ IF part = "answers" THEN AnswersNext ELSE UNCHANGED answerVars
    /\ IF part = "records" THEN RecordsNext ELSE UNCHANGED recordVars

ServicesVars == <<part, evVars, zoneVars, pubVars, liveVars, configVars, plateVars,
                  identityVars, importVars, chatVars, rulesVars, routeVars, attrVars,
                  plateReadingVars, reconVars, planVars, answerVars, recordVars>>
ServicesSpec == ServicesInit /\ [][ServicesNext]_ServicesVars

==============================================================================
