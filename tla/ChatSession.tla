----------------------------- MODULE ChatSession -----------------------------
(***************************************************************************)
(* One conversation of the video chat (src/video_chat.py and the handler   *)
(* of POST /api/video-chat in src/api_app.py).                             *)
(*                                                                         *)
(* The handler is a synchronous endpoint, so every request runs in a       *)
(* thread of its own.  It reads the session's context, has a language      *)
(* model plan the question (at most twice, then a rule parser takes over), *)
(* answers, and stores the next context; nothing is held in between.  What *)
(* the context is for is paging: "show more" goes on in the vehicles of    *)
(* the last answer where its page ended.                                   *)
(*                                                                         *)
(* Vehicles are numbered in the order the repository lists them.  A        *)
(* question is abstracted to the way its plan selects vehicles: all, cars  *)
(* or red ones, other than cars, by an exact plate, or by the beginning of *)
(* one.  The evidence is filtered by a query the plan is converted to,     *)
(* which holds less than the plan, and later pages by what is remembered   *)
(* of that query, which holds less again.                                  *)
(***************************************************************************)
EXTENDS Naturals, Sequences, SequencesExt, FiniteSets

CONSTANTS
    ChatThreads,    \* requests that may be in progress at a time
    NumVehicles,    \* vehicles in the selected runs
    Cars,           \* those of the class asked for
    Reds,           \* those of the colour asked for
    ExactPlates,    \* those whose plate is the text asked for;
    LongerPlates,   \* those whose plate only begins with it
    PageSize,       \* EVIDENCE_LIMIT
    MaxAnswers      \* bound: answers given in the session

VARIABLES
    session,        \* chat_sessions[session_id]
    inFlight,       \* per thread: where it is, its context and its message
    unresolved,     \* vehicles whose evidence the repository does not find
    answers,        \* history: number of answers
    shown,          \* history: vehicles shown for each answered question
    trail,          \* history: vehicles shown since the question or a restart
    overlapped      \* history: two requests were in progress at once

chatVars == <<session, inFlight, unresolved, answers, shown, trail, overlapped>>

ASSUME ChatAssumption ==
    /\ NumVehicles \in Nat /\ PageSize \in Nat \ {0} /\ MaxAnswers \in Nat
    /\ Cars \cup Reds \cup ExactPlates \cup LongerPlates \subseteq 1..NumVehicles
    /\ ExactPlates \cap LongerPlates = {}

Vehicles == 1..NumVehicles
Questions == {"any", "either", "other", "plate", "prefix"}

Min2(a, b) == IF a < b THEN a ELSE b

-----------------------------------------------------------------------------
(* What a question selects, and which evidence a page may show.            *)

(* The vehicles that a plan's filters keep: "either" is a disjunction of a *)
(* class and a colour, "other" the operator "neq" on a class.              *)
Selected(q) ==
    CASE q = "any"    -> Vehicles
      [] q = "either" -> Cars \cup Reds
      [] q = "other"  -> Vehicles \ Cars
      [] q = "plate"  -> ExactPlates
      [] q = "prefix" -> ExactPlates \cup LongerPlates

(* The vehicle ids of an answer, in the order of the records.              *)
MatchingIds(q) ==
    CHOOSE ids \in SetToSeqs(Selected(q)) : \A m, n \in DOMAIN ids : m < n => ids[m] < ids[n]

(* The evidence the converted query lets through, which makes one list of  *)
(* a disjunction's conditions, all of which must hold                      *)
(* (_flatten_filter_conditions), and includes what "neq" excludes          *)
(* (_compatibility_filters_from_plan).                                     *)
LetThrough(q) ==
    CASE q = "either" -> Cars \cap Reds
      [] q = "other"  -> Cars
      [] OTHER        -> Selected(q)

(* What "show more" remembers of a query: previous_filters has no          *)
(* plate_match_mode, and a plate text without one is compared exactly.     *)
Remembered(q) == IF q = "prefix" THEN "plate" ELSE q

(* No context yet.                                                         *)
NoContext == [ids |-> <<>>, offset |-> 0, question |-> "any", answer |-> 0]

(* Mutant: a new question's page starts where the last page ended.         *)
FaultyEvidenceOffset(message, context) ==
    IF message.kind = "restart" THEN 0 ELSE context.offset

(* The offset a page starts at.                                            *)
EvidenceOffset(message, context) ==
    IF message.kind = "next" THEN context.offset ELSE 0

(* The vehicles of a page: the ids of a slice, looked at one after the     *)
(* other; those without evidence, and those that the query does not let    *)
(* through, are dropped.                                                   *)
Page(ids, offset, filters) ==
    LET Shows(v) == v \notin unresolved /\ v \in LetThrough(filters)
        page[n \in 0..PageSize] ==
            IF n = 0 THEN <<>>
            ELSE IF offset + n <= Len(ids) /\ Shows(ids[offset + n])
            THEN Append(page[n - 1], ids[offset + n]) ELSE page[n - 1]
    IN  page[PageSize]

(* Where the next page starts.                                             *)
NextOffset(total, offset, returned) == Min2(total, offset + returned)

-----------------------------------------------------------------------------

ChatInit ==
    /\ session = NoContext
    /\ inFlight = [r \in ChatThreads |-> [at |-> "idle"]]
    /\ unresolved \in SUBSET Vehicles
    /\ answers = 0
    /\ shown = [n \in 1..MaxAnswers |-> {}]
    /\ trail = <<>>
    /\ overlapped = FALSE

Move(r, at) == inFlight' = [inFlight EXCEPT ![r].at = at]

(* A request reads the session.  A greeting, or a navigation when there is *)
(* something to navigate in, is recognised without the model.              *)
Post(r) ==
    /\ inFlight[r].at = "idle" /\ answers < MaxAnswers
    /\ \E message \in [kind : {"chat", "next", "restart", "ask"}, question : Questions, show : BOOLEAN] :
          /\ message.kind \in {"next", "restart"} => session.ids # <<>>
          /\ message.kind # "ask" => message.question = "any" /\ message.show
          /\ inFlight' = [inFlight EXCEPT ![r] =
                [at |-> IF message.kind = "ask" THEN "plan" ELSE "answer",
                 context |-> session, message |-> message]]
    /\ overlapped' = (overlapped \/ \E q \in ChatThreads : inFlight[q].at # "idle")
    /\ UNCHANGED <<session, unresolved, answers, shown, trail>>

(* The model's first attempt: a plan; one that fails validation, or output *)
(* that cannot be read, is tried again; a timeout or a missing model not.  *)
FirstAttempt(r) ==
    /\ inFlight[r].at = "plan"
    /\ \E next \in {"answer", "retry", "fallback"} : Move(r, next)
    /\ UNCHANGED <<session, unresolved, answers, shown, trail, overlapped>>

(* The second attempt, told what was wrong with the first.                 *)
SecondAttempt(r) ==
    /\ inFlight[r].at = "retry"
    /\ \E next \in {"answer", "fallback"} : Move(r, next)
    /\ UNCHANGED <<session, unresolved, answers, shown, trail, overlapped>>

(* The rule parser, whose plans have no disjunction and no "neq"; it may   *)
(* not understand the message: status 400, and the session stays as it is. *)
Fallback(r) ==
    /\ inFlight[r].at = "fallback"
    /\ \/ inFlight[r].message.question \notin {"either", "other"} /\ Move(r, "answer")
       \/ inFlight' = [inFlight EXCEPT ![r] = [at |-> "idle"]]
    /\ UNCHANGED <<session, unresolved, answers, shown, trail, overlapped>>

(* A greeting is answered with the context the request had read.           *)
Greet(r) ==
    /\ inFlight[r].at = "answer" /\ inFlight[r].message.kind = "chat" /\ answers < MaxAnswers
    /\ session' = inFlight[r].context
    /\ answers' = answers + 1
    /\ UNCHANGED <<unresolved, shown, trail, overlapped>>
    /\ inFlight' = [inFlight EXCEPT ![r] = [at |-> "idle"]]

(* A question is answered from the records, a navigation from the ids of   *)
(* the context; a page of evidence is shown and the context replaced.      *)
Answer(r) ==
    LET message == inFlight[r].message
        context == inFlight[r].context
        goesOn  == message.kind # "ask"
        ids     == IF goesOn THEN context.ids ELSE MatchingIds(message.question)
        filters == IF goesOn THEN Remembered(context.question) ELSE message.question
        offset  == EvidenceOffset(message, context)
        page    == IF message.show THEN Page(ids, offset, filters) ELSE <<>>
        answer  == IF goesOn THEN context.answer ELSE answers + 1
    IN  /\ inFlight[r].at = "answer" /\ message.kind # "chat" /\ answers < MaxAnswers
        /\ session' = [ids |-> ids, question |-> IF goesOn THEN context.question ELSE message.question,
                       offset |-> IF message.show THEN NextOffset(Len(ids), offset, Len(page)) ELSE 0,
                       answer |-> answer]
        /\ answers' = answers + 1
        /\ shown' = [shown EXCEPT ![answer] = @ \cup ToSet(page)]
        /\ trail' = IF message.kind = "next" THEN trail \o page ELSE page
        /\ inFlight' = [inFlight EXCEPT ![r] = [at |-> "idle"]]
        /\ UNCHANGED <<unresolved, overlapped>>

ChatNext ==
    \E r \in ChatThreads :
        \/ Post(r) \/ FirstAttempt(r) \/ SecondAttempt(r) \/ Fallback(r)
        \/ Greet(r) \/ Answer(r)

ChatSpec == ChatInit /\ [][ChatNext]_chatVars

-----------------------------------------------------------------------------
(* What every page of a question lets through.                             *)
Passed(q) == LetThrough(q) \cap LetThrough(Remembered(q))

(* Whatever requests overlap, and whatever evidence is missing: a vehicle  *)
(* that paging has moved past was shown for its question, if it can be     *)
(* shown at all.  A page advances by what it returned and not by its size, *)
(* which may show a vehicle again but skips none that every page would let *)
(* through (_evidence_page_metadata, _evidence_matches_query).             *)
NothingIsSkipped ==
    \A i \in 1..session.offset :
        session.ids[i] \in Passed(session.question) =>
            session.ids[i] \in unresolved \cup shown[session.answer]

(* A client that waits for each answer, whose vehicles all have evidence   *)
(* and whose question loses nothing in its conversion, is shown every      *)
(* match once and in order, page after page.                               *)
SerialPagesAreExact ==
    ~overlapped /\ unresolved = {} /\ Selected(session.question) \subseteq Passed(session.question)
        => trail = SubSeq(session.ids, 1, session.offset)

=============================================================================
