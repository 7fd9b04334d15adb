------------------------------- MODULE Services -------------------------------
(***************************************************************************)
(* The modules that share no state with one another, side by side, and     *)
(* what they promise, gathered by what it is about.  The conjuncts are     *)
(* stated and explained in the modules they belong to.                     *)
(***************************************************************************)
EXTENDS EvidenceCache, CaptureZone, RunPublication, RuntimeEvents, ConfigSaves,
        PlateOwnership, VehicleIdentity, RunImport, ChatSession, ConfigRules,
        DetectorRouting, TrackAttributes, PlateReading, TrackReconciliation, RunRecords,
        QueryAnswers

(* Evidence of a track is neither lost nor left behind: no record misses   *)
(* its frame, the best candidate is still there, and the crop files are    *)
(* those of the crops that are kept, few and far enough from each other    *)
(* (evidence.py).                                                          *)
EvidenceIsKept ==
    EvidenceHasItsFrames /\ BestCandidateSurvives /\ CropFilesMatch /\ CropsAreSpaced

(* The status, the artifacts and the rows of a run agree at every moment a *)
(* reader may look, except after a kill (the end of run_pipeline, its      *)
(* handler, and the import).                                               *)
PublishedRunsAreTrue == OutcomesAreTrue /\ RowsAreWhole

(* Every live client that lost nothing sees what is, and a completed run   *)
(* leaves no track without its colour (runtime_state.py, live_updates).    *)
LiveViewsAreTrue == ClientsCatchUp /\ ColoursAreReported

(* A run reads a whole and valid configuration whatever is saved beside it,*)
(* and validation combines the layers of camera settings in their order    *)
(* (config_service.py, evidence.py).                                       *)
ConfigurationsHold ==
    /\ RunsReadValidConfigs /\ ClonesReplaceOnlyRivals /\ NoTempsLeft
    /\ NormalizedOnce /\ LayersDecide /\ LimitsFitTheModules

(* A plate is read only where it is certain, and has one owner, decided    *)
(* the same way in whatever order the results arrive                       *)
(* (_run_plate_enrichment, validate_indian_plate, and pipeline.py's        *)
(* resolution of plate conflicts).                                         *)
PlatesHaveOwners ==
    OneOwnerPerPlate /\ DecisionsAreFair /\ PlatesAreCertain /\ TextsAreOfPlates

(* Tracks become one vehicle only when every pair agrees or a plate        *)
(* outweighs a gap, and a track joins an earlier one only where no other   *)
(* comes close (vehicle_identity.py, its experiment, and                   *)
(* track_reconciliation.py).                                               *)
IdentitiesAgree == VehiclesAgree /\ PlatesOutweighOnlyGaps /\ LinksAreClear

(* The rows of a run are those of its files, however often it is imported, *)
(* a record finds the track it is of, and what is read back of the rows,   *)
(* of the files and through the API is the same, links and plates included *)
(* (the importers, the two repositories and api_app.py).                   *)
ImportsAreFaithful ==
    /\ RowsFollowFiles /\ RecordsFindTheirTracks
    /\ ReadersAgree /\ LiveOnlyAdds /\ LinksLeadBack /\ PlatesAreRead

(* The pages of an answer skip no vehicle that all of them would let       *)
(* through, and neither skip nor repeat one when a session asks one        *)
(* question after the other whose plan loses nothing in its conversion;    *)
(* the plan that is executed is valid and means what the parser            *)
(* understood; rankings, intervals and questions about an earlier answer   *)
(* leave nothing out and add nothing                                       *)
(* (video_chat.py, api_app.py, video_chat_execution.py).                   *)
AnswersAreComplete ==
    /\ NothingIsSkipped /\ SerialPagesAreExact /\ RepairsStayValid /\ ParserDecides
    /\ FollowUpsNarrow /\ RankingsAreHonest /\ IntervalsCoverWindows

(* Each tracker sees every frame of its camera and, of its detections, the *)
(* eligible ones of its class only (detector_tracker.py).                  *)
DetectionsReachTrackers == TrackersSeeEveryFrame /\ OnlyEligibleTracked

(* Every crop of a track is asked about or given up for a reason, small    *)
(* crops are a last resort, and agreement decides (vehicle_enrichment).    *)
AttributesAreAccounted ==
    SmallCropsAreLast /\ ColoursAreAccounted /\ BodiesAreApart /\ AgreementCounts

==============================================================================
