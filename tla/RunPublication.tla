---------------------------- MODULE RunPublication ----------------------------
(***************************************************************************)
(* What a run leaves behind: run_pipeline (src/pipeline.py) writes the     *)
(* status and the artifacts of the run, one plain file after the other,    *)
(* announces the outcome, imports the run into the database and returns.   *)
(* The file repository (src/run_repository.py) and the importer            *)
(* (src/importers/) read what is on disk at any time.                      *)
(*                                                                         *)
(* A file is written in two steps and can be found torn between them.  Any *)
(* step may raise, and the process may be killed at any moment: run control*)
(* cancels a run that way, and a machine may stop.                         *)
(*                                                                         *)
(* Abstracted: what the files say.  Of the artifacts, those stand here that*)
(* the importer or a reader opens; the metrics and reports written between *)
(* them are not told apart from their neighbours.                          *)
(***************************************************************************)
EXTENDS Naturals, Sequences

CONSTANT Imports  \* bound: the imports an operator makes of the run

ASSUME ImportsAssumption == Imports \in Nat

VARIABLES
    script,    \* the part of run_pipeline that runs: its body or its handler
    at,        \* the step of the script that is next
    disk,      \* what each file holds
    torn,      \* the file being written, "none" between two writes
    exitCode,  \* how the process ended, "none" while it runs
    announced, \* the status of the last run_completed event
    database,  \* the rows of the run in the database, NoRows before an import
    imports    \* the imports the operator has made

pubVars == <<script, at, disk, torn, exitCode, announced, database, imports>>

Artifacts == {"tracks", "evidence", "enrichment", "vehicles"}
Files == Artifacts \cup {"metadata", "summary"}
NoRows == [status |-> "absent", parts |-> {}]

(* The steps of run_pipeline from the creation of the run's directory on,  *)
(* in its order: <<"write", file, what it holds then>>, or another step.   *)
StartSteps == << <<"write", "metadata", "CREATED">>, <<"write", "metadata", "RUNNING">>,
                 <<"process">> >>
TrackSteps == << <<"write", "metadata", "COMPLETED">>, <<"write", "tracks", "whole">>,
                 <<"write", "evidence", "whole">> >>
ResultSteps == << <<"write", "enrichment", "whole">>, <<"write", "vehicles", "whole">> >>
SummarySteps == << <<"write", "summary", "COMPLETED">> >>
EndSteps == << <<"announce", "COMPLETED">>, <<"reset">>, <<"import">>, <<"exit", "0">> >>

MainScript == StartSteps \o TrackSteps \o ResultSteps \o SummarySteps \o EndSteps

(* Mutant: the handler ends with the exit code of a success.               *)
FaultyFailScript ==
    << <<"write", "metadata", "FAILED">>, <<"announce", "FAILED">>,
       <<"write", "summary", "FAILED">>, <<"exit", "0">> >>

(* The exception handler.                                                  *)
FailScript ==
    << <<"write", "metadata", "FAILED">>, <<"announce", "FAILED">>,
       <<"write", "summary", "FAILED">>, <<"exit", "1">> >>

Step == IF script = "main" THEN MainScript[at] ELSE FailScript[at]

PubTypeOK ==
    /\ script \in {"main", "fail"}
    /\ at \in 1..Len(MainScript)
    /\ disk \in [Files -> {"absent", "torn", "whole", "CREATED", "RUNNING",
                           "COMPLETED", "FAILED"}]
    /\ torn \in Files \cup {"none"}
    /\ exitCode \in {"none", "0", "1", "raised", "killed"}
    /\ announced \in {"none", "COMPLETED", "FAILED"}
    /\ database \in [status : {"absent", "UNKNOWN", "CREATED", "RUNNING", "COMPLETED",
                               "FAILED"}, parts : SUBSET Artifacts]
    /\ imports \in Nat

PubInit ==
    /\ script = "main" /\ at = 1
    /\ disk = [f \in Files |-> "absent"]
    /\ torn = "none" /\ exitCode = "none" /\ announced = "none"
    /\ database = NoRows /\ imports = 0

Running == exitCode = "none"

-----------------------------------------------------------------------------
(* The process                                                             *)

(* save_metadata, the save_* functions of RunOutputManager and the plain   *)
(* writes of run_pipeline: open truncates, and the text follows.           *)
BeginWrite ==
    /\ Running /\ torn = "none" /\ Step[1] = "write"
    /\ disk' = [disk EXCEPT ![Step[2]] = "torn"]
    /\ torn' = Step[2]
    /\ UNCHANGED <<script, at, exitCode, announced, database, imports>>

EndWrite ==
    /\ Running /\ torn # "none"
    /\ disk' = [disk EXCEPT ![torn] = Step[3]]
    /\ torn' = "none"
    /\ at' = at + 1
    /\ UNCHANGED <<script, exitCode, announced, database, imports>>

(* The main loop and the shutdown of its components; and reset_all.        *)
Proceed ==
    /\ Running /\ Step[1] \in {"process", "reset"}
    /\ at' = at + 1
    /\ UNCHANGED <<script, disk, torn, exitCode, announced, database, imports>>

(* mark_run_completed                                                      *)
Announce ==
    /\ Running /\ Step[1] = "announce"
    /\ announced' = Step[2]
    /\ at' = at + 1
    /\ UNCHANGED <<script, disk, torn, exitCode, database, imports>>

Exit ==
    /\ Running /\ Step[1] = "exit"
    /\ exitCode' = Step[2]
    /\ UNCHANGED <<script, at, disk, torn, announced, database, imports>>

(* A step raises: the body goes on in its handler, but the first metadata  *)
(* is written before the try statement, and the handler has none.          *)
Raise ==
    /\ Running
    /\ Step[1] \in {"write", "process", "reset"}
    /\ torn' = "none"
    /\ IF script = "main" /\ at > 1
       THEN script' = "fail" /\ at' = 1 /\ UNCHANGED exitCode
       ELSE exitCode' = "raised" /\ UNCHANGED <<script, at>>
    /\ UNCHANGED <<disk, announced, database, imports>>

Kill ==
    /\ Running
    /\ exitCode' = "killed" /\ torn' = "none"
    /\ UNCHANGED <<script, at, disk, announced, database, imports>>

-----------------------------------------------------------------------------
(* Readers                                                                 *)

Statuses == {"CREATED", "RUNNING", "COMPLETED", "FAILED"}
Whole(a) == disk[a] = "whole"

(* RunRepository.list_runs: a file that is absent or does not parse counts *)
(* as empty, and the summary goes before the metadata.                     *)
ListedStatus ==
    IF disk["summary"] \in Statuses THEN disk["summary"]
    ELSE IF disk["metadata"] \in Statuses THEN disk["metadata"]
    ELSE "UNKNOWN"

(* _map_processing_run: here the metadata goes before the summary.         *)
ImportedStatus ==
    IF disk["metadata"] \in Statuses THEN disk["metadata"]
    ELSE IF disk["summary"] \in Statuses THEN disk["summary"]
    ELSE "UNKNOWN"

(* _load_run_files_for_report: the tracks must be there, the other files   *)
(* may be missing, and none may be malformed.                              *)
Importable == Whole("tracks") /\ \A f \in Files : disk[f] # "torn"

(* insert_reference_run is one transaction: it commits the rows of what is *)
(* on disk or it leaves the database as it was.                            *)
ImportRun ==
    \/ /\ Importable
       /\ database' = [status |-> ImportedStatus, parts |-> {a \in Artifacts : Whole(a)}]
    \/ UNCHANGED database

(* _run_post_run_db_import_if_enabled: what the import raises is logged.   *)
ImportAfterRun ==
    /\ Running /\ Step[1] = "import"
    /\ ImportRun
    /\ at' = at + 1
    /\ UNCHANGED <<script, disk, torn, exitCode, announced, imports>>

(* The operator imports the run later, as the importer's command line is   *)
(* made for: the run is over, however it ended.                            *)
OperatorImport ==
    /\ ~ Running /\ imports < Imports
    /\ imports' = imports + 1
    /\ ImportRun
    /\ UNCHANGED <<script, at, disk, torn, exitCode, announced>>

PubNext ==
    \/ BeginWrite \/ EndWrite \/ Proceed \/ Announce \/ Exit
    \/ Raise \/ Kill
    \/ ImportAfterRun \/ OperatorImport

PubSpec == PubInit /\ [][PubNext]_pubVars

-----------------------------------------------------------------------------
(* Properties                                                              *)

(* What the files and the exit code tell a reader is true: a summary that  *)
(* says COMPLETED is about a run whose artifacts are all there; so is an   *)
(* exit code of zero, and both readers say COMPLETED then; after an exit   *)
(* code of one both say FAILED (run_pipeline's order of writes, its        *)
(* handler, and the two precedences of the readers).                       *)
OutcomesAreTrue ==
    /\ disk["summary"] = "COMPLETED" => \A a \in Artifacts : Whole(a)
    /\ exitCode = "0" => /\ ListedStatus = "COMPLETED" /\ ImportedStatus = "COMPLETED"
                         /\ \A a \in Artifacts : Whole(a)
    /\ exitCode = "1" => ListedStatus = "FAILED" /\ ImportedStatus = "FAILED"

(* The rows of a run never show less than its files showed: rows exist     *)
(* only with the tracks, rows of a run whose process ended by itself hold  *)
(* everything, and rows that say COMPLETED and hold less belong to a run   *)
(* whose process died (import_completed_run, insert_reference_run).        *)
RowsAreWhole ==
    LET whole == database.parts = Artifacts
    IN /\ database # NoRows => "tracks" \in database.parts
       /\ exitCode = "0" /\ database # NoRows => whole /\ database.status = "COMPLETED"
       /\ database.status = "COMPLETED" /\ ~ whole => exitCode \in {"killed", "raised"}

(* docs/RUN_CONTROL.md:38: partial artifacts "are not reported as completed*)
(* unless the subprocess exits successfully".                              *)
KilledRunsAreNotReportedCompleted == exitCode = "killed" => ListedStatus # "COMPLETED"
=============================================================================
