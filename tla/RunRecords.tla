------------------------------- MODULE RunRecords -----------------------------
(***************************************************************************)
(* What is read back of the runs: by RunRepository from the directories of *)
(* the runs (src/run_repository.py), by PostgresRunRepository from the     *)
(* imported rows (src/postgres_run_repository.py), and by the API,         *)
(* which puts the live state of the run on air before one of the two       *)
(* (src/api_app.py).                                                       *)
(*                                                                         *)
(* A run is a number: names are times of starting, so a later run has the  *)
(* greater name.  The summaries, metrics and scores that are copied to the *)
(* answer are left out, and so is the order of the lists; "none" is a      *)
(* value that is not there.  What an import writes is the subject of       *)
(* RunImport, here it copies the run.                                      *)
(***************************************************************************)
EXTENDS Naturals, Sequences, FiniteSets, SequencesExt

CONSTANTS
    MaxArchived,      \* bound: runs
    Recordings,         \* what a run can hold: [tracks, vehicles, cameras]
    RecordQuestions,  \* [run, camera, class, colour, number, plate, from, to]
    RecordPaths,      \* files below a run's directory
    PlateCases        \* vehicles of the plate-assisted experiment: [members, reasons]

NotPlain == {"", ".", ".."}

(* Tracks are of cameras with frames, and the cameras of a vehicle are     *)
(* those of its tracks.  The files are those the program writes, with      *)
(* plain names.                                                            *)
ASSUME RecordsAssumption ==
    /\ MaxArchived \in Nat
    /\ \A c \in Recordings : \A t \in c.tracks :
          t.id[1] \in DOMAIN c.cameras /\ c.cameras[t.id[1]].frames
    /\ \A c \in Recordings : \A v \in c.vehicles : v.cameras \subseteq {t.id[1] : t \in c.tracks}
    /\ \A q \in RecordQuestions :
          q = [run |-> q.run, camera |-> q.camera, class |-> q.class, colour |-> q.colour,
               number |-> q.number, plate |-> q.plate, from |-> q.from, to |-> q.to]
    /\ \A path \in RecordPaths :
          path \in Seq(STRING) /\ ToSet(path) \cap NotPlain = {}
    /\ \A case \in PlateCases :
          /\ case.members \in Seq(ToSet(case.members))
          /\ \A m \in ToSet(case.members) : m.text \in Nat

VARIABLES
    folders,  \* for each run that has a directory, in order of starting: [stage, holds, tried]
    finishes, \* the runs in the order in which they finished
    imported, \* the runs that have rows
    onAir,    \* the run of the live state and its live tracks
    replied  \* the last question with its answers

recordVars == <<folders, finishes, imported, onAir, replied>>

All == 0
Latest == MaxArchived + 1
OffAir == [run |-> 0, tracks |-> {}]
NoAnswer == [kind |-> "none"]

Finished(r) == folders[r].stage = "finished"
TracksIn(r) == IF Finished(r) THEN folders[r].holds.tracks ELSE {}
VehiclesIn(r) == IF Finished(r) THEN folders[r].holds.vehicles ELSE {}

RecordsInit ==
    /\ folders = <<>> /\ finishes = <<>> /\ imported = {}
    /\ onAir = OffAir
    /\ replied = NoAnswer

-----------------------------------------------------------------------------
(* Runs. *)

(* The pipeline of this process shows its run, another process's does not. *)
StartRun ==
    /\ Len(folders) < MaxArchived
    /\ \E c \in Recordings :
          folders' = Append(folders, [stage |-> "started", holds |-> c, tried |-> FALSE])
    /\ onAir' \in {onAir, [run |-> Len(folders) + 1, tracks |-> {}]}
    /\ replied' = NoAnswer
    /\ UNCHANGED <<finishes, imported>>

ShowTrack ==
    /\ onAir.run # 0 /\ ~Finished(onAir.run)
    /\ \E t \in folders[onAir.run].holds.tracks \ onAir.tracks :
          onAir' = [onAir EXCEPT !.tracks = @ \cup {t}]
    /\ replied' = NoAnswer
    /\ UNCHANGED <<folders, finishes, imported>>

FinishRun(r) ==
    /\ ~Finished(r)
    /\ folders' = [folders EXCEPT ![r].stage = "finished"]
    /\ finishes' = Append(finishes, r)
    /\ replied' = NoAnswer
    /\ UNCHANGED <<imported, onAir>>

ImportRows(r) ==
    /\ Finished(r) /\ r \notin imported
    /\ imported' = imported \cup {r}
    /\ replied' = NoAnswer
    /\ UNCHANGED <<folders, finishes, onAir>>

(* An offline experiment leaves its result in the run's directory. *)
Experiment(r) ==
    /\ Finished(r) /\ ~folders[r].tried
    /\ folders' = [folders EXCEPT ![r].tried = TRUE]
    /\ replied' = NoAnswer
    /\ UNCHANGED <<finishes, imported, onAir>>

-----------------------------------------------------------------------------
(* Which runs a question is about. *)

Newest(S) == {r \in S : \A q \in S : q <= r}
PlaceOf(r) == CHOOSE i \in DOMAIN finishes : finishes[i] = r
LastFinished(S) == {r \in S : \A q \in S : PlaceOf(q) <= PlaceOf(r)}

FilesAsked(run) ==
    CASE run = All -> DOMAIN folders
      [] run = Latest -> Newest(DOMAIN folders)
      [] OTHER -> {run} \cap DOMAIN folders
RowsAsked(run) ==
    CASE run = All -> imported
      [] run = Latest -> LastFinished(imported)
      [] OTHER -> {run} \cap imported

-----------------------------------------------------------------------------
(* Tracks and vehicles. *)

Coalesced(v) == IF v = "none" THEN "UNKNOWN" ELSE v

(* A track as the files tell it, and as its row does: a track without a    *)
(* class is UNKNOWN once it is enriched, and in every row; a text without  *)
(* a detected plate is not imported.                                       *)
FileTrack(t) ==
    [id |-> t.id, status |-> t.status, colour |-> t.colour, plate |-> t.plate,
     first |-> t.first, last |-> t.last,
     class |-> IF t.enriched THEN Coalesced(t.class) ELSE t.class]
RowTrack(t) ==
    [FileTrack(t) EXCEPT !.class = Coalesced(t.class),
                         !.plate = IF t.detected THEN t.plate ELSE "none"]

Wanted(value, asked) == asked = "any" \/ value = asked
InQuestion(t, q) ==
    /\ Wanted(t.id[1], q.camera)
    /\ q.number = 0 \/ t.id[2] = q.number
    /\ q.from <= t.last /\ t.first <= q.to

(* list_tracks *)
FileTracks(q) ==
    {x \in UNION {{[run |-> r, track |-> FileTrack(t)] : t \in TracksIn(r)} : r \in FilesAsked(q.run)} :
        /\ InQuestion(x.track, q)
        /\ Wanted(x.track.class, q.class) /\ Wanted(x.track.colour, q.colour)}
RowTracks(q) ==
    {x \in UNION {{[run |-> r, track |-> RowTrack(t)] : t \in TracksIn(r)} : r \in RowsAsked(q.run)} :
        /\ InQuestion(x.track, q)
        /\ Wanted(x.track.class, q.class) /\ Wanted(Coalesced(x.track.colour), q.colour)}

(* get_track: the first in the order of the runs' names, backwards. *)
FirstFound(found) == {x \in found : \A y \in found : y.run <= x.run}
TrackQuestion(q) == [q EXCEPT !.class = "any", !.colour = "any", !.from = 0, !.to = 99]
FileTrackOf(q) == FirstFound(FileTracks(TrackQuestion(q)))
RowTrackOf(q) == FirstFound(RowTracks(TrackQuestion(q)))

(* list_physical_vehicles.  A "blank" plate is one of punctuation, which   *)
(* is no text: the files have it match the vehicles without a plate, the   *)
(* rows have it match every vehicle.                                       *)
PlainText(text) == IF text = "blank" THEN "none" ELSE text
FileVehicles(q) ==
    {x \in UNION {{[run |-> r, vehicle |-> v] : v \in VehiclesIn(r)} : r \in FilesAsked(q.run)} :
        /\ Wanted(x.vehicle.class, q.class) /\ Wanted(x.vehicle.colour, q.colour)
        /\ q.plate = "any" \/ x.vehicle.plate = PlainText(q.plate)}
RowVehicles(q) ==
    {x \in UNION {{[run |-> r, vehicle |-> v] : v \in VehiclesIn(r)} : r \in RowsAsked(q.run)} :
        /\ Wanted(Coalesced(x.vehicle.class), q.class)
        /\ Wanted(Coalesced(x.vehicle.colour), q.colour)
        /\ q.plate \in {"any", "blank"} \/ x.vehicle.plate = q.plate}

(* list_vehicle_records: the vehicles, or without any the completed tracks. *)
Everything(run) ==
    [run |-> run, camera |-> "any", class |-> "any", colour |-> "any", number |-> 0,
     plate |-> "any", from |-> 0, to |-> 99]
RecordsOf(vehicles, tracks) ==
    IF vehicles # {} THEN {<<x.run, x.vehicle.key>> : x \in vehicles}
    ELSE {<<x.run, x.track.id>> : x \in {y \in tracks : y.track.status = "COMPLETED"}}
FileRecords(run) == RecordsOf(FileVehicles(Everything(run)), FileTracks(Everything(run)))
RowRecords(run) == RecordsOf(RowVehicles(Everything(run)), RowTracks(Everything(run)))

-----------------------------------------------------------------------------
(* Cameras and counts. *)

TrackedCameras(r) == {t.id[1] : t \in TracksIn(r)}

(* list_cameras: those of the tracks and those that took part, which are   *)
(* the enabled ones of the configuration and those the summary counts for. *)
FileCameras(run) ==
    UNION {LET cameras == folders[r].holds.cameras
           IN TrackedCameras(r) \cup
              {c \in DOMAIN cameras : cameras[c].enabled = "true"
                                      \/ (Finished(r) /\ cameras[c].frames)} :
             r \in Newest(FilesAsked(run))}
(* A camera that is off and has no frame has no row; all runs together     *)
(* have no cameras.                                                        *)
RowCameras(run) ==
    UNION {LET cameras == folders[r].holds.cameras
               rows == {c \in DOMAIN cameras : cameras[c].enabled # "false" \/ cameras[c].frames}
           IN {c \in rows : cameras[c].enabled = "true" \/ cameras[c].frames
                            \/ c \in TrackedCameras(r)} :
             r \in IF run = All THEN {} ELSE RowsAsked(run)}

(* list_runs and get_run *)
CountsOf(r) ==
    LET raw == Cardinality(TracksIn(r))
        vehicles == Cardinality(VehiclesIn(r))
    IN [run |-> r, raw |-> raw, vehicles |-> vehicles,
        completed |-> Cardinality({t \in TracksIn(r) : t.status = "COMPLETED"}),
        tracks |-> IF vehicles # 0 THEN vehicles ELSE raw]
FileRuns == {CountsOf(r) : r \in DOMAIN folders}
RowRuns == {CountsOf(r) : r \in imported}

-----------------------------------------------------------------------------
(* Experiments. *)

FileExperiment(run) ==
    LET asked == FilesAsked(run)
    IN IF run = All \/ asked = {} THEN "not found"
       ELSE IF \E r \in asked : folders[r].tried THEN "available" ELSE "not run"
RowExperiment(run) ==
    IF run = All \/ RowsAsked(run) = {} THEN "not found" ELSE "not run"

(* The plate of a vehicle from the readings of its tracks and the reasons  *)
(* of the merges between them.  A text is a number, 0 for none, in their   *)
(* alphabetical order.                                                     *)
ReadingStatus(m) ==
    IF m.text = 0 THEN "NO READABLE PLATE"
    ELSE IF m.quality = "HIGH" /\ m.long THEN "EXACT"
    ELSE IF m.quality \in {"HIGH", "MEDIUM"} THEN "PARTIAL"
    ELSE "LOW CONFIDENCE"
MostCommon(members) ==
    LET texts == {m.text : m \in ToSet(members)} \ {0}
        count(x) == Cardinality({i \in DOMAIN members : members[i].text = x})
        best == {x \in texts : \A y \in texts : count(y) <= count(x)}
    IN IF best = {} THEN 0 ELSE CHOOSE x \in best : \A y \in best : x <= y
VehiclePlate(case) ==
    LET statuses == {ReadingStatus(m) : m \in ToSet(case.members)}
    IN [text |-> MostCommon(case.members),
        status |-> IF "PLATE_EXACT_MATCH" \in case.reasons THEN "EXACT"
                   ELSE IF "PLATE_PARTIAL_MATCH" \in case.reasons THEN "PARTIAL"
                   ELSE IF "EXACT" \in statuses THEN "EXACT"
                   ELSE IF "PARTIAL" \in statuses THEN "PARTIAL"
                   ELSE "NO READABLE PLATE"]

-----------------------------------------------------------------------------
(* Media. *)

RowRoots ==
    [evidence |-> <<"evidence">>,
     florence_selected_crops |-> <<"05_florence_selected_crops">>,
     track_crops |-> <<"04_track_crops">>,
     body_type_selected_crops |-> <<"07_body_type_selected_crops">>,
     tracked_frames |-> <<"tracked_frames">>,
     detected_frames |-> <<"detected_frames">>,
     raw_frames |-> <<"raw_frames">>]
ExperimentRoots ==
    [track_reconciliation_visual |-> <<"track_reconciliation_test", "visual_evidence">>,
     plate_assisted_contact_sheets |->
         <<"vehicle_identity_test", "plate_assisted", "contact_sheets">>]
FileRoots ==
    [c \in DOMAIN RowRoots \cup DOMAIN ExperimentRoots |->
        IF c \in DOMAIN RowRoots THEN RowRoots[c] ELSE ExperimentRoots[c]]

(* A file by its category and its place below it. *)
Reference(roots, path) ==
    {[category |-> c, parts |-> SubSeq(path, Len(roots[c]) + 1, Len(path))] :
        c \in {d \in DOMAIN roots : IsPrefix(roots[d], path)}}
(* resolve_media_path: the file that is there, if all parts are plain names. *)
FileAt(roots, reference) ==
    LET path == roots[reference.category] \o reference.parts
    IN IF path \in RecordPaths /\ ToSet(reference.parts) \cap NotPlain = {}
       THEN {path} ELSE {}

-----------------------------------------------------------------------------
(* The API. *)

(* /api/tracks: rows are merged by the id of the track alone, so of the    *)
(* runs with one id the first is listed; live tracks count as the run on   *)
(* air, whatever run and time the question names.                          *)
ApiTracks(persisted, q) ==
    LET live == {[run |-> onAir.run, id |-> t.id, live |-> TRUE] :
                    t \in {u \in onAir.tracks : /\ Wanted(u.class, q.class)
                                                /\ q.colour = "any"
                                                /\ Wanted(u.id[1], q.camera)
                                                /\ q.number = 0 \/ u.id[2] = q.number}}
        hidden == {t.id : t \in onAir.tracks}
    IN live \cup
       {[run |-> x.run, id |-> x.track.id, live |-> FALSE] :
          x \in {y \in persisted : /\ y.track.id \notin hidden
                                   /\ \A z \in persisted : z.track.id = y.track.id => y.run <= z.run}}

(* /api/tracks/{camera}/{track}: a live track is found first. *)
ApiTrack(found, q) ==
    LET live == {t \in onAir.tracks : Wanted(t.id[1], q.camera) /\ t.id[2] = q.number}
    IN IF live # {} THEN {[run |-> onAir.run, id |-> t.id] : t \in live}
       ELSE {[run |-> x.run, id |-> x.track.id] : x \in found}

(* /api/cameras: those of the run on air, whatever run is asked for. *)
ApiCameras(persisted) ==
    IF onAir.run = 0 THEN persisted
    ELSE LET cameras == folders[onAir.run].holds.cameras
         IN {c \in DOMAIN cameras : cameras[c].enabled # "false"}

(* /api/filter-options: the cameras of the vehicles, or without any those  *)
(* of the tracks, and the repository's runs.                               *)
ApiFilterCameras(vehicles, tracks) ==
    LET ofVehicles == UNION {x.vehicle.cameras : x \in vehicles}
    IN IF ofVehicles # {} THEN ofVehicles ELSE {x.track.id[1] : x \in tracks}

(* /api/runs *)
ApiRuns(runs) ==
    {[run |-> c.run, live |-> FALSE] : c \in {d \in runs : d.run # onAir.run}} \cup
    (IF onAir.run = 0 THEN {} ELSE {[run |-> onAir.run, live |-> TRUE]})

(* /api/vehicle-search and /api/video-chat read the records of one run, if *)
(* it is there; in file mode its tracks.json must be.                      *)
FileSearch(run) ==
    LET asked == FilesAsked(run)
    IN IF run = All \/ asked = {} THEN [found |-> "no run", records |-> {}]
       ELSE IF \E r \in asked : ~Finished(r) THEN [found |-> "no tracks", records |-> {}]
       ELSE [found |-> "run", records |-> FileRecords(run)]
RowSearch(run) ==
    IF run = All \/ RowsAsked(run) = {} THEN [found |-> "no run", records |-> {}]
    ELSE [found |-> "run", records |-> RowRecords(run)]

AnswerTo(q) ==
    [kind |-> "records", question |-> q,
     files |-> [tracks |-> FileTracks(q), track |-> FileTrackOf(q),
                vehicles |-> FileVehicles(q), cameras |-> FileCameras(q.run),
                experiment |-> FileExperiment(q.run), search |-> FileSearch(q.run)],
     rows |-> [tracks |-> RowTracks(q), track |-> RowTrackOf(q),
               vehicles |-> RowVehicles(q), cameras |-> RowCameras(q.run),
               experiment |-> RowExperiment(q.run), search |-> RowSearch(q.run)],
     fileRuns |-> ApiRuns(FileRuns), rowRuns |-> ApiRuns(RowRuns),
     fileApi |-> ApiTracks(FileTracks(q), q), rowApi |-> ApiTracks(RowTracks(q), q),
     fileOne |-> ApiTrack(FileTrackOf(q), q),
     fileCameras |-> ApiCameras(FileCameras(q.run)),
     filter |-> ApiFilterCameras(FileVehicles(Everything(q.run)), FileTracks(Everything(q.run)))]

(* One question is asked of a state: the answers change nothing. *)
Ask(q) ==
    /\ replied = NoAnswer
    /\ replied' = AnswerTo(q)
    /\ UNCHANGED <<folders, finishes, imported, onAir>>

(* These depend on no run: they are asked before the first one starts. *)
ShowMedia(path) ==
    /\ folders = <<>> /\ replied = NoAnswer
    /\ replied' = [kind |-> "media", path |-> path,
                    files |-> Reference(FileRoots, path), rows |-> Reference(RowRoots, path)]
    /\ UNCHANGED <<folders, finishes, imported, onAir>>

ShowPlate(case) ==
    /\ folders = <<>> /\ replied = NoAnswer
    /\ replied' = [kind |-> "plate", case |-> case, plate |-> VehiclePlate(case)]
    /\ UNCHANGED <<folders, finishes, imported, onAir>>

RecordsNext ==
    \/ StartRun \/ ShowTrack
    \/ \E r \in DOMAIN folders : FinishRun(r) \/ ImportRows(r) \/ Experiment(r)
    \/ \E q \in RecordQuestions : Ask(q)
    \/ \E path \in RecordPaths : ShowMedia(path)
    \/ \E case \in PlateCases : ShowPlate(case)

RecordsSpec == RecordsInit /\ [][RecordsNext]_recordVars

-----------------------------------------------------------------------------
(* Both repositories give one answer about a finished and imported run,    *)
(* unless it turns on a value that is not there; about the latest run they *)
(* do when the run that started last finished last and is imported.        *)
Settled(run) ==
    IF run = Latest
    THEN finishes # <<>> /\ Last(finishes) = Len(folders) /\ Last(finishes) \in imported
    ELSE run \in imported
Known(q) == {q.class, q.colour} \cap {"UNKNOWN", "none"} = {} /\ q.plate # "blank"
ReadersAgree ==
    LET q == replied.question
        ids(found) == {<<x.run, x.track.id, x.track.colour>> : x \in found}
    IN replied.kind = "records" /\ Settled(q.run) =>
        /\ replied.files.cameras = replied.rows.cameras
        /\ replied.files.search = replied.rows.search
        /\ ids(replied.files.track) = ids(replied.rows.track)
        /\ Known(q) => /\ ids(replied.files.tracks) = ids(replied.rows.tracks)
                       /\ replied.files.vehicles = replied.rows.vehicles

(* The live state only adds: of a question about one run, what the         *)
(* repository knows is listed unless it is live, no run is listed twice,   *)
(* and a search answers about a run that is finished.  The cameras offered *)
(* as a filter are those of the repository's tracks.                       *)
LiveOnlyAdds ==
    LET q == replied.question
        listed(found) == {x.track.id : x \in found}
        shown(api) == {x.id : x \in {y \in api : ~y.live}}
        live == {t.id : t \in onAir.tracks}
        once(runs) == \A a, b \in runs : a.run = b.run => a = b
    IN replied.kind = "records" =>
        /\ q.run # All => /\ shown(replied.fileApi) = listed(replied.files.tracks) \ live
                          /\ shown(replied.rowApi) = listed(replied.rows.tracks) \ live
        /\ once(replied.fileRuns) /\ once(replied.rowRuns)
        /\ replied.files.search.found = "run" => \A r \in FilesAsked(q.run) : Finished(r)
        /\ replied.fileOne = {} => replied.files.track = {}
        /\ replied.filter \subseteq UNION {TrackedCameras(r) : r \in FilesAsked(q.run)}
        /\ onAir.run = 0 => replied.fileCameras = replied.files.cameras

(* A link to a file leads to this file, in both modes to the same.         *)
LinksLeadBack ==
    replied.kind = "media" =>
        /\ \A x \in replied.files : FileAt(FileRoots, x) = {replied.path}
        /\ \A x \in replied.rows : FileAt(RowRoots, x) = {replied.path}
        /\ Cardinality(replied.files) <= 1 /\ replied.rows \subseteq replied.files

(* The plate shown for a vehicle is the reading of one of its tracks, and  *)
(* is shown as exact only for a track read so or a merge made so.          *)
PlatesAreRead ==
    replied.kind = "plate" =>
        LET readings == {m.text : m \in ToSet(replied.case.members)}
        IN /\ replied.plate.text = 0 <=> readings \subseteq {0}
           /\ replied.plate.text # 0 => replied.plate.text \in readings
           /\ replied.plate.status = "EXACT" =>
                 \/ \E m \in ToSet(replied.case.members) : ReadingStatus(m) = "EXACT"
                 \/ "PLATE_EXACT_MATCH" \in replied.case.reasons
=============================================================================
