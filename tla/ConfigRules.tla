----------------------------- MODULE ConfigRules -----------------------------
(***************************************************************************)
(* What a configuration becomes before anything runs (_validate_config of  *)
(* src/pipeline.py, and the second normalization that EvidenceCollector of *)
(* src/evidence.py applies to its result).                                 *)
(*                                                                         *)
(* A mapping of the file is a function whose domain are the keys that are  *)
(* set.  Two things are modelled: the limits the other modules assume, and *)
(* the layers of the capture zone, where the profile a camera uses for a   *)
(* class of vehicle comes from up to six places that are merged twice, by  *)
(* two pieces of code written apart.                                       *)
(***************************************************************************)
EXTENDS Integers, Sequences, FiniteSets

CONSTANTS
    ZoneClasses,    \* vehicle classes a profile may be given for
    ZoneCameras,    \* cameras that may have an entry of their own
    TopRatios, BottomRatios,    \* ratios an entry may set, in some unit
    LimitValues     \* numbers a limit may be set to

VARIABLES
    rawLimits,      \* the numbers of the file
    rawCameras,     \* its list of cameras
    rawZone,        \* its evidence.capture_zone section
    stage,          \* "loaded", "validated", "collecting", "rejected", "refused"
    validated,      \* the capture zone after _validate_config
    collected       \* the capture zone of the collector

rulesVars == <<rawLimits, rawCameras, rawZone, stage, validated, collected>>

Fields == {"top", "bottom"}
BaseProfile == [top |-> 1, bottom |-> 3]        \* 0.55 and 0.72
Nothing == [f \in {} |-> 0]

RulesAssumption ==
    /\ TopRatios \subseteq Nat /\ BottomRatios \subseteq Nat
    /\ LimitValues \subseteq Int
ASSUME RulesAssumption

(* The entries a file may hold: each field may be set or not.              *)
Entries ==
    {e \in UNION {[S -> TopRatios \cup BottomRatios] : S \in SUBSET Fields} :
        /\ "top" \in DOMAIN e => e["top"] \in TopRatios
        /\ "bottom" \in DOMAIN e => e["bottom"] \in BottomRatios}

PartialMaps(D, V) == UNION {[S -> V] : S \in SUBSET D}

CameraEntries == [root : Entries, default : Entries, class : PartialMaps(ZoneClasses, Entries)]

Zones == [root : Entries, default : Entries, class : PartialMaps(ZoneClasses, Entries),
          cameras : PartialMaps(ZoneCameras, CameraEntries)]

PlainZone == [root |-> Nothing, default |-> Nothing, class |-> Nothing, cameras |-> Nothing]

-----------------------------------------------------------------------------
(* Limits.                                                                 *)

LimitNames == {"worker_count", "frame_queue_size", "per_camera_buffer_size",
               "minimum_observations", "maximum_lost_frames", "max_size",
               "max_frames_per_camera", "maximum_candidates_per_track"}

DefaultLimit(name) ==
    CASE name = "worker_count" -> 7
      [] name = "frame_queue_size" -> 200
      [] name = "per_camera_buffer_size" -> 2
      [] name = "minimum_observations" -> 3
      [] name = "maximum_lost_frames" -> 30
      [] name = "max_size" -> 1
      [] name = "max_frames_per_camera" -> 0
      [] name = "maximum_candidates_per_track" -> 7

(* The number a limit gets: a batch size of 0 counts as not given.         *)
Limit(raw, name) ==
    LET given == IF name \in DOMAIN raw THEN raw[name] ELSE DefaultLimit(name)
    IN  IF name = "max_size" /\ given = 0 THEN 1 ELSE given

(* What _validate_config demands of them.  A frame limit must be given, as *)
(* its default is 0 (null, for no limit, is not modelled); the number of   *)
(* candidates is left to the collector.                                    *)
LimitsAccepted(raw) ==
    /\ \A name \in LimitNames \ {"maximum_lost_frames", "maximum_candidates_per_track"} :
          Limit(raw, name) >= 1
    /\ Limit(raw, "maximum_lost_frames") >= 0

(* The loop over input.cameras.                                            *)
CamerasAccepted(cameras) ==
    /\ \A i, j \in DOMAIN cameras : i # j => cameras[i].id # cameras[j].id
    /\ \A i \in DOMAIN cameras : cameras[i].id # "" /\ cameras[i].sound
    /\ \E i \in DOMAIN cameras : cameras[i].enabled

-----------------------------------------------------------------------------
(* Layers of the capture zone.                                             *)

(* {**below, **above}, and profile.get(key, fallback[key]) for each key.   *)
Merge(below, above) ==
    [f \in DOMAIN below \cup DOMAIN above |-> IF f \in DOMAIN above THEN above[f] ELSE below[f]]
Over(entry, fallback) ==
    [f \in Fields |-> IF f \in DOMAIN entry THEN entry[f] ELSE fallback[f]]

(* _validate_capture_zone_profile.                                         *)
Sound(profile) == profile["top"] < profile["bottom"]

(* Keys at the root of a section go before those of its "default".         *)
DefaultProfile(section, fallback) == Over(Merge(section.default, section.root), fallback)

(* What completes a camera's entry for a class: the general profile of the *)
(* class if there is one, and only otherwise the camera's own default.     *)
ClassFallback(c, classes, default) == IF c \in DOMAIN classes THEN classes[c] ELSE default

ClassProfiles(zone, default) ==
    [c \in DOMAIN zone.class |-> Over(zone.class[c], default)]

CameraProfile(entry, classes, zoneDefault) ==
    LET default == DefaultProfile(entry, zoneDefault)
    IN  [root |-> Nothing, default |-> default,
         class |-> [c \in DOMAIN entry.class |-> Over(entry.class[c], ClassFallback(c, classes, default))]]

(* The zone that _validate_config returns: every profile complete, and the *)
(* default repeated at the root of the section.                            *)
ValidatedZone(zone) ==
    LET default == DefaultProfile(zone, BaseProfile)
        classes == ClassProfiles(zone, default)
    IN  [root |-> default, default |-> default, class |-> classes,
         cameras |-> [k \in DOMAIN zone.cameras |-> CameraProfile(zone.cameras[k], classes, default)]]

(* _normalize_capture_zone_config of the collector, on such a result.      *)
CollectedZone(zone) ==
    LET default == DefaultProfile(zone, BaseProfile)
        classes == [c \in DOMAIN zone.class |-> Over(zone.class[c], default)]
    IN  [root |-> default, default |-> default, class |-> classes,
         cameras |-> [k \in DOMAIN zone.cameras |->
            LET own == DefaultProfile(zone.cameras[k], default)
            IN  [root |-> Nothing, default |-> own,
                 class |-> [c \in DOMAIN zone.cameras[k].class |->
                              Over(zone.cameras[k].class[c],
                                   IF c \in DOMAIN classes THEN classes[c] ELSE own)]]]]

Profiles(zone) ==
    {zone.default} \cup {zone.class[c] : c \in DOMAIN zone.class}
        \cup UNION {{zone.cameras[k].default} \cup {zone.cameras[k].class[c] : c \in DOMAIN zone.cameras[k].class} :
                       k \in DOMAIN zone.cameras}

(* The profile the collector uses: a camera with an entry of its own sees  *)
(* only the classes of that entry.                                         *)
ProfileFor(zone, camera, class) ==
    LET seen == IF camera \in DOMAIN zone.cameras THEN zone.cameras[camera] ELSE zone
    IN  IF class \in DOMAIN seen.class THEN seen.class[class] ELSE seen.default

-----------------------------------------------------------------------------

RulesInit ==
    /\ \/ /\ rawLimits \in PartialMaps(LimitNames, LimitValues)
          /\ rawCameras = <<[id |-> "a", enabled |-> TRUE, sound |-> TRUE]>> /\ rawZone = PlainZone
       \/ /\ rawCameras \in UNION {[1..n -> [id : {"a", "b", ""}, enabled : BOOLEAN, sound : BOOLEAN]] : n \in 0..2}
          /\ rawLimits = [name \in {"max_frames_per_camera"} |-> 1] /\ rawZone = PlainZone
       \/ /\ rawZone \in Zones
          /\ rawLimits = [name \in {"max_frames_per_camera"} |-> 1]
          /\ rawCameras = <<[id |-> "a", enabled |-> TRUE, sound |-> TRUE]>>
    /\ stage = "loaded"
    /\ validated = PlainZone /\ collected = PlainZone

(* _validate_config, at the start of run_pipeline.                         *)
ValidateConfig ==
    /\ stage = "loaded"
    /\ IF /\ LimitsAccepted(rawLimits) /\ CamerasAccepted(rawCameras)
          /\ \A p \in Profiles(ValidatedZone(rawZone)) : Sound(p)
       THEN stage' = "validated" /\ validated' = ValidatedZone(rawZone)
       ELSE stage' = "rejected" /\ UNCHANGED validated
    /\ UNCHANGED <<rawLimits, rawCameras, rawZone, collected>>

(* The collector is created later, and may refuse what was accepted.       *)
CreateCollector ==
    /\ stage = "validated"
    /\ collected' = CollectedZone(validated)
    /\ stage' = IF /\ Limit(rawLimits, "maximum_candidates_per_track") >= 1
                   /\ \A p \in Profiles(CollectedZone(validated)) : Sound(p)
                THEN "collecting" ELSE "refused"
    /\ UNCHANGED <<rawLimits, rawCameras, rawZone, validated>>

RulesNext == ValidateConfig \/ CreateCollector
RulesSpec == RulesInit /\ [][RulesNext]_rulesVars

-----------------------------------------------------------------------------
(* The zone the collector works with is the one that was validated and     *)
(* written to the run's effective configuration: normalizing twice, by two *)
(* pieces of code, changes nothing, and refuses nothing that was accepted. *)
NormalizedOnce ==
    /\ stage \in {"collecting", "refused"} => collected = validated
    /\ stage = "refused" => Limit(rawLimits, "maximum_candidates_per_track") < 1

(* The first of the layers that sets a field.                              *)
FirstSet(layers, f) ==
    LET i == CHOOSE i \in DOMAIN layers :
                /\ f \in DOMAIN layers[i]
                /\ \A j \in 1..(i - 1) : f \notin DOMAIN layers[j]
    IN  layers[i][f]

(* The layers that decide for a camera and a class, the strongest first.   *)
LayersFor(camera, class) ==
    LET general == <<rawZone.root, rawZone.default, BaseProfile>>
        byClass == IF class \in DOMAIN rawZone.class THEN <<rawZone.class[class]>> ELSE <<>>
    IN  IF camera \notin DOMAIN rawZone.cameras THEN byClass \o general
        ELSE LET own == rawZone.cameras[camera]
             IN  IF class \notin DOMAIN own.class THEN <<own.root, own.default>> \o general
                 ELSE IF byClass # <<>> THEN <<own.class[class]>> \o byClass \o general
                 ELSE <<own.class[class], own.root, own.default>> \o general

(* After both normalizations each field of the profile in use is the one   *)
(* set by the strongest layer, in the order of LayersFor.                  *)
LayersDecide ==
    stage = "collecting" =>
        \A camera \in ZoneCameras, class \in ZoneClasses, f \in Fields :
            ProfileFor(collected, camera, class)[f] = FirstSet(LayersFor(camera, class), f)

(* A run that starts works with limits and cameras as the other modules    *)
(* assume them.                                                            *)
LimitsFitTheModules ==
    stage = "collecting" =>
        /\ \A name \in LimitNames \ {"maximum_lost_frames"} : Limit(rawLimits, name) \in Nat \ {0}
        /\ Limit(rawLimits, "maximum_lost_frames") \in Nat
        /\ Cardinality({rawCameras[i].id : i \in DOMAIN rawCameras}) = Len(rawCameras)
        /\ rawCameras # <<>>

=============================================================================
