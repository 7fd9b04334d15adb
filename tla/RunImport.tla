------------------------------- MODULE RunImport ------------------------------
(***************************************************************************)
(* How the files of a finished run become rows: build_dry_run gives every  *)
(* track a unique name and finds the track of every other record           *)
(* (src/importers/run_file_importer.py), build_payload gives rows          *)
(* their ids and DatabaseRunWriter writes them in one transaction          *)
(* (src/importers/db_writer.py).  The enrichment and the vehicles of a     *)
(* run can be computed anew from its other files and imported again.       *)
(*                                                                         *)
(* A name is <<id, 0>> for a track that keeps the id of the file, and      *)
(* <<id, n>> for the n-th track of the file when it is renamed.  The       *)
(* typed columns, the metadata and the field mapping report are left out;  *)
(* of the media only the files outside the run's directory matter.  The    *)
(* tables are those that the statements assume: ids are primary keys, and  *)
(* the columns of an ON CONFLICT are unique.                               *)
(***************************************************************************)
EXTENDS Naturals, Sequences, FiniteSets, SequencesExt, Functions

CONSTANTS
    TrackRows,      \* rows of tracks.json: [id, status, first, last]
    MaxRows,        \* bound: how many of them a run has
    Observations,   \* rows of observations.csv: [id, frame]
    Enrichments,    \* rows of vehicle_enrichment.json: [id, frame, colour]
    MaxEnrichments, \* bound: how many of them a run has
    MaxOutside      \* bound: crops that lie outside the run's directory

ASSUME ImportAssumption ==
    /\ \A r \in TrackRows : r.status \in {"COMPLETED", "DISCARDED"}
                            /\ r.first \in Nat /\ r.last \in Nat
    /\ \A o \in Observations \cup Enrichments : o.frame \in Nat
    /\ MaxRows \in Nat /\ MaxEnrichments \in Nat /\ MaxOutside \in Nat

VARIABLES
    runFiles, \* what the run's directory holds
    stored,   \* the rows of the run
    last      \* the files and the outcome of the last import

importVars == <<runFiles, stored, last>>

NoRun == [tracks |-> {}, observations |-> {}, predictions |-> {}, members |-> {},
          outside |-> 0]

CompletedIds(tracks) == {r.id : r \in {q \in ToSet(tracks) : q.status = "COMPLETED"}}

ImportInit ==
    /\ \E tracks \in UNION {[1..n -> TrackRows] : n \in 1..MaxRows},
          observations \in SUBSET Observations, outside \in 0..MaxOutside :
          runFiles = [tracks |-> tracks, observations |-> observations,
                      enrichment |-> <<>>, vehicles |-> <<>>, outside |-> outside]
    /\ stored = NoRun
    /\ last = [files |-> <<>>, outcome |-> "none"]

(* Another enrichment of the run, and another grouping of its completed    *)
(* tracks into vehicles, which are told apart by their position.           *)
Rebuild ==
    /\ runFiles.enrichment = <<>> \/ last.outcome = "imported"
    /\ \E enrichment \in UNION {[1..n -> Enrichments] : n \in 0..MaxEnrichments},
          vehicles \in {<<CompletedIds(runFiles.tracks)>>,
                        SetToSeq({{id} : id \in CompletedIds(runFiles.tracks)})} :
          /\ runFiles' = [runFiles EXCEPT !.enrichment = enrichment, !.vehicles = vehicles]
          /\ runFiles' # runFiles
    /\ last' = [last EXCEPT !.outcome = "none"]
    /\ UNCHANGED stored

-----------------------------------------------------------------------------
(* build_dry_run: names *)

Occurrences(tracks, id) == {n \in DOMAIN tracks : tracks[n].id = id}
Completed(tracks, id) ==
    {n \in Occurrences(tracks, id) : tracks[n].status = "COMPLETED"}

(* Of several tracks with one id the only completed one keeps it. *)
(* Mutant: the first one keeps it. *)
FaultyNameOf(tracks, n) ==
    IF \A m \in Occurrences(tracks, tracks[n].id) : n <= m
    THEN <<tracks[n].id, 0>> ELSE <<tracks[n].id, n>>
NameOf(tracks, n) ==
    LET id == tracks[n].id
    IN IF Occurrences(tracks, id) = {n} \/ Completed(tracks, id) = {n}
       THEN <<id, 0>> ELSE <<id, n>>

(* _resolve_track_ref: the track a record with an id and a frame is about. *)
Only(S) == IF Cardinality(S) = 1 THEN S ELSE {}
TracksMeant(tracks, id, frame) ==
    LET candidates == Occurrences(tracks, id)
        inRange == {n \in candidates : tracks[n].first <= frame /\ frame <= tracks[n].last}
        first == {n \in candidates : \A m \in candidates : n <= m}
        choice == IF Only(candidates) # {} THEN candidates
                  ELSE IF Only(inRange) # {} THEN inRange
                  ELSE IF Only(Completed(tracks, id)) # {} THEN Completed(tracks, id)
                  ELSE first
    IN {NameOf(tracks, n) : n \in choice}

(* The errors that stop an import: a record without a track, and two       *)
(* completed tracks with one id.                                           *)
Errors(f) ==
    \/ \E r \in f.observations \cup ToSet(f.enrichment) : Occurrences(f.tracks, r.id) = {}
    \/ \E id \in CompletedIds(f.tracks) : Cardinality(Completed(f.tracks, id)) > 1

-----------------------------------------------------------------------------
(* build_payload *)

TheRef(tracks, r) == CHOOSE name \in TracksMeant(tracks, r.id, r.frame) : TRUE

(* The colour of a track is that of the last enrichment row about it. *)
ColourOf(f, name) ==
    LET about == {i \in DOMAIN f.enrichment : TheRef(f.tracks, f.enrichment[i]) = name}
    IN IF about = {} THEN "none"
       ELSE f.enrichment[CHOOSE i \in about : \A j \in about : j <= i].colour

(* A member is found by its id alone, among the tracks that kept theirs;   *)
(* of two vehicles that claim one track the later has it.                  *)
Members(f) ==
    LET names == {NameOf(f.tracks, n) : n \in DOMAIN f.tracks}
        claimed(id) == {v \in DOMAIN f.vehicles : id \in f.vehicles[v]}
    IN {[name |-> name, vehicle |-> CHOOSE v \in claimed(name[1]) :
                                       \A w \in claimed(name[1]) : w <= v] :
           name \in {m \in names : m[2] = 0 /\ claimed(m[1]) # {}}}

Payload(f) ==
    [tracks |-> {[name |-> NameOf(f.tracks, n), status |-> f.tracks[n].status,
                  colour |-> ColourOf(f, NameOf(f.tracks, n))] : n \in DOMAIN f.tracks},
     observations |-> {[name |-> TheRef(f.tracks, o), frame |-> o.frame] :
                         o \in f.observations},
     predictions |-> {[name |-> TheRef(f.tracks, f.enrichment[i]), index |-> i,
                       colour |-> f.enrichment[i].colour] : i \in DOMAIN f.enrichment},
     members |-> Members(f), outside |-> f.outside]

-----------------------------------------------------------------------------
(* insert_reference_run *)

(* All crops outside the run's directory get one id: a second row with it, *)
(* or one that is there from an earlier import, breaks the primary key,    *)
(* and the transaction ends with nothing written.                          *)
Collides(f, replace) ==
    f.outside > 1 \/ (f.outside = 1 /\ ~replace /\ stored.outside > 0)

(* _upsert_table: a row replaces the one with its name. *)
Upsert(old, new) == new \cup {r \in old : \A q \in new : q.name # r.name}

(* _delete_rebuilt_children: the rows that an upsert would not replace.    *)
Rebuilt(old) == [old EXCEPT !.predictions = {}, !.members = {}]

Import(replace) ==
    /\ IF Errors(runFiles) \/ Collides(runFiles, replace)
       THEN /\ last' = [files |-> runFiles, outcome |-> "refused"]
            /\ UNCHANGED stored
       ELSE LET new == Payload(runFiles)
                old == Rebuilt(IF replace THEN NoRun ELSE stored)
            IN /\ stored' = [tracks |-> Upsert(old.tracks, new.tracks),
                             observations |-> old.observations \cup new.observations,
                             predictions |-> old.predictions \cup new.predictions,
                             members |-> Upsert(old.members, new.members),
                             outside |-> new.outside]
               /\ last' = [files |-> runFiles, outcome |-> "imported"]
    /\ UNCHANGED runFiles

ImportNext == Rebuild \/ \E replace \in BOOLEAN : Import(replace)

ImportSpec == ImportInit /\ [][ImportNext]_importVars

-----------------------------------------------------------------------------
(* After an import the rows are those of the files, and no other: none is  *)
(* left from an earlier enrichment or grouping, and no two tracks of       *)
(* tracks.json, discarded ones included, share a row.                      *)
RowsFollowFiles ==
    last.outcome = "imported" =>
        /\ stored = Payload(last.files)
        /\ Cardinality({r.name : r \in stored.tracks}) = Len(last.files.tracks)

(* A vehicle's members are the rows of its completed tracks, each of them  *)
(* in a vehicle, and an observation in the range of one track of its id is *)
(* that track's.                                                           *)
RecordsFindTheirTracks ==
    LET completed == {r.name : r \in {q \in stored.tracks : q.status = "COMPLETED"}}
        f == last.files
    IN last.outcome = "imported" =>
        /\ {m.name : m \in stored.members} \subseteq completed
        /\ f.vehicles # <<>> => completed \subseteq {m.name : m \in stored.members}
        /\ \A o \in f.observations : \A n \in Occurrences(f.tracks, o.id) :
              /\ f.tracks[n].first <= o.frame /\ o.frame <= f.tracks[n].last
              /\ \A m \in Occurrences(f.tracks, o.id) \ {n} :
                    o.frame \notin f.tracks[m].first .. f.tracks[m].last
              => [name |-> NameOf(f.tracks, n), frame |-> o.frame] \in stored.observations
=============================================================================
