----------------------------- MODULE PlateReading -----------------------------
(***************************************************************************)
(* How the plate of a track is found and read: _run_plate_enrichment of    *)
(* EnrichmentManager, the detector, the quality check, the OCR engine with *)
(* its model (vehicle_enrichment/plate, shared/florence_backend.py) and    *)
(* the grammar that a reading must satisfy, after at most two corrections  *)
(* (indian_plate_validator.py).                                            *)
(*                                                                         *)
(* A text is a sequence of characters; the grammar, the tables of          *)
(* confusable characters and the texts the model may produce are           *)
(* constants.  Abstracted: images and boxes; a box is large enough or not. *)
(***************************************************************************)
EXTENDS Integers, Sequences, FiniteSets, FiniteSetsExt

CONSTANTS
    Letters, Digits,    \* the characters of normalized texts
    LookAlikes,         \* pairs <<digit, letter>> of the tables of corrections
    StandardPatterns,   \* sequences of "L", "D" or a character to be met
    BharatPatterns,
    StateLength, States, \* a standard plate starts with a known state
    OcrTexts,           \* what the model may read
    MaxPlates           \* bound: tracks in a row with one model

ASSUME ReadingAssumption ==
    /\ Letters \cap Digits = {} /\ LookAlikes \subseteq Digits \X Letters
    /\ StateLength \in Nat \ {0} /\ MaxPlates \in Nat
    /\ OcrTexts \subseteq Seq(Letters \cup Digits)
    /\ StandardPatterns \subseteq Seq({"L", "D"})
    /\ BharatPatterns \subseteq Seq({"L", "D"} \cup Letters)
    \* where another pattern of its length has a letter, the letter of a
    \* Bharat plate looks like no digit (the third place of every standard
    \* pattern holds a digit, and there is none that H is taken for)
    /\ \A p \in BharatPatterns, q \in StandardPatterns \cup BharatPatterns :
         Len(p) = Len(q) =>
             \A i \in DOMAIN p : p[i] \notin {"L", "D"} /\ q[i] = "L" =>
                 \A pair \in LookAlikes : pair[2] # p[i]

VARIABLES
    setup,      \* what is enabled, and which model the OCR engine has
    loaded,     \* whether that model is loaded
    vehicleCrop,    \* the best crop of the track: "none", "unreadable" or "fine"
    detection,  \* what the detector found
    ocr,        \* the reading
    plateStage, \* "next", "detect", "read", "done", "raised"
    plates      \* tracks so far

plateReadingVars == <<setup, loaded, vehicleCrop, detection, ocr, plateStage, plates>>

Models == {"missing", "disabled", "base", "adapter", "unloadable"}
Setups == [detects : BOOLEAN, reads : BOOLEAN, saves : BOOLEAN, model : Models]

-----------------------------------------------------------------------------
(* The grammar *)

Kind(c) == IF c \in Letters THEN "L" ELSE "D"
Meets(c, expected) == IF expected \in {"L", "D"} THEN Kind(c) = expected ELSE c = expected
Fits(text, patterns) ==
    \E p \in patterns : Len(p) = Len(text) /\ \A i \in DOMAIN p : Meets(text[i], p[i])

(* _validate_candidate; the second pattern is tried if the first one fails. *)
ValidPlate(text) ==
    IF Fits(text, StandardPatterns) THEN SubSeq(text, 1, StateLength) \in States
    ELSE Fits(text, BharatPatterns)

Replacements(c) ==
    {pair[2] : pair \in {p \in LookAlikes : p[1] = c}} \cup
    {pair[1] : pair \in {p \in LookAlikes : p[2] = c}}

(* The texts in which the characters at S are replaced.                    *)
Corrected(text, S) ==
    LET ways == {f \in [S -> Letters \cup Digits] : \A i \in S : f[i] \in Replacements(text[i])}
    IN  {[i \in DOMAIN text |-> IF i \in S THEN f[i] ELSE text[i]] : f \in ways}

(* _generate_candidates: every way of replacing one or two of the          *)
(* characters that are of the wrong kind; one that cannot be replaced      *)
(* stays, so that its candidates fail later.                               *)
Candidates(text, p) ==
    LET wrong == {i \in DOMAIN p : p[i] \in {"L", "D"} /\ Kind(text[i]) # p[i]
                                   /\ Replacements(text[i]) # {}}
    IN  IF \/ Len(p) # Len(text) \/ Cardinality(wrong) > 2
           \/ \E i \in DOMAIN p : p[i] \notin {"L", "D"} /\ text[i] # p[i]
        THEN {}
        ELSE UNION {Corrected(text, S) : S \in (SUBSET wrong) \ {{}}}

(* validate_indian_plate: the plate that was read, <<>> if there is none.  *)
Canonical(text) ==
    LET matches == {c \in UNION {Candidates(text, p) : p \in StandardPatterns \cup BharatPatterns} :
                        ValidPlate(c)}
    IN  IF ValidPlate(text) THEN text
        ELSE IF Cardinality(matches) = 1 THEN CHOOSE c \in matches : TRUE ELSE <<>>

-----------------------------------------------------------------------------
(* The stages.  A reason stands for the status and the reason of a result. *)

Detected(reason) == [found |-> reason = "plate_detected", reason |-> reason]
NoReading(reason) == [status |-> reason, raw |-> <<>>, text |-> <<>>]

PlateReadingInit ==
    /\ setup \in Setups /\ loaded = FALSE
    /\ vehicleCrop = "none" /\ detection = Detected("none")
    /\ ocr = NoReading("none") /\ plateStage = "next" /\ plates = 0

NextPlate ==
    /\ plateStage \in {"next", "done"} /\ plates < MaxPlates
    /\ vehicleCrop' \in {"none", "unreadable", "fine"}
    /\ detection' = Detected("none") /\ ocr' = NoReading("none")
    /\ plateStage' = "detect" /\ plates' = plates + 1
    /\ UNCHANGED <<setup, loaded>>

(* detect: only the best crop is looked at, and only the best box of it.   *)
DetectPlate ==
    /\ plateStage = "detect"
    /\ \E seen \in {"plate_detector_failed", "no_plate_detected", "below_minimum_size",
                    "plate_detected"} :
         detection' = Detected(IF ~ setup.detects THEN "plate_scope_frozen"
                               ELSE IF vehicleCrop = "none" THEN "no_selected_vehicle_crop"
                               ELSE IF vehicleCrop = "unreadable" THEN "vehicle_crop_unreadable"
                               ELSE seen)
    /\ plateStage' = "read"
    /\ UNCHANGED <<setup, loaded, vehicleCrop, ocr, plates>>

(* validate of the quality check sees what the detector's thresholds have  *)
(* already passed, so a plate is accepted exactly if it was detected.      *)
Acceptable == detection.found
Attempted == setup.detects /\ Acceptable /\ setup.reads

SkipReading ==
    /\ plateStage = "read" /\ ~ Attempted
    /\ ocr' = NoReading(IF ~ setup.detects THEN "plate_scope_frozen"
                        ELSE IF ~ detection.found THEN "no_plate_detected"
                        ELSE "plate_ocr_disabled")
    /\ plateStage' = "done"
    /\ UNCHANGED <<setup, loaded, vehicleCrop, detection, plates>>

(* load and the check after it raise: recognize has no handler for them.   *)
ReadingRaises ==
    /\ plateStage = "read" /\ Attempted /\ setup.model \in {"disabled", "base", "unloadable"}
    /\ loaded' = (setup.model = "base") /\ plateStage' = "raised"
    /\ UNCHANGED <<setup, vehicleCrop, detection, ocr, plates>>

(* Without saved plate crops there is no image to read.                    *)
ReadingFails ==
    /\ plateStage = "read" /\ Attempted /\ setup.model \in {"missing", "adapter"}
    /\ loaded' = (setup.model = "adapter")
    /\ ocr' = NoReading(IF setup.model = "missing" THEN "plate_ocr_backend_missing"
                        ELSE IF ~ setup.saves THEN "plate_crop_unreadable" ELSE "plate_ocr_failed")
    /\ plateStage' = "done"
    /\ UNCHANGED <<setup, vehicleCrop, detection, plates>>

ReadPlate ==
    /\ plateStage = "read" /\ Attempted /\ setup.model = "adapter" /\ setup.saves
    /\ loaded' = TRUE
    /\ \E text \in OcrTexts :
         ocr' = [status |-> "completed", raw |-> text,
                 text |-> IF text = <<>> THEN <<>> ELSE Canonical(text)]
    /\ plateStage' = "done"
    /\ UNCHANGED <<setup, vehicleCrop, detection, plates>>

PlateReadingNext ==
    NextPlate \/ DetectPlate \/ SkipReading \/ ReadingRaises \/ ReadingFails \/ ReadPlate
PlateReadingSpec == PlateReadingInit /\ [][PlateReadingNext]_plateReadingVars

-----------------------------------------------------------------------------
(* Properties *)

(* A plate that is reported was read as it is, or it is the only valid     *)
(* plate that is one or two look-alikes away from what was read; of        *)
(* several none is reported, and the letters BH are never corrected        *)
(* (validate_indian_plate, which works pattern by pattern, against a       *)
(* definition that looks at whole plates).                                 *)
PlatesAreCertain ==
    LET positions == {S \in SUBSET DOMAIN ocr.raw : Cardinality(S) \in 1..2}
        Literal(v, i) == ~ Fits(v, StandardPatterns) /\
            \E p \in BharatPatterns : Fits(v, {p}) /\ p[i] \notin {"L", "D"}
        near == {v \in UNION {Corrected(ocr.raw, S) : S \in positions} :
                    /\ ValidPlate(v)
                    /\ \A i \in DOMAIN v : Literal(v, i) => v[i] = ocr.raw[i]}
    IN  ocr.status = "completed" /\ ocr.raw # <<>> =>
            ocr.text = IF ValidPlate(ocr.raw) THEN ocr.raw
                       ELSE IF Cardinality(near) = 1 THEN CHOOSE v \in near : TRUE ELSE <<>>

(* A text is reported only of a plate that was detected on a readable crop *)
(* and was saved, read by a model with its adapter; what one track leaves  *)
(* in the results never shows at the next one (aggregate).                 *)
TextsAreOfPlates ==
    ocr.text # <<>> =>
        /\ detection.found /\ vehicleCrop = "fine"
        /\ setup.saves /\ setup.model = "adapter" /\ loaded
=============================================================================
