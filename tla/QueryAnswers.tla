----------------------------- MODULE QueryAnswers -----------------------------
(***************************************************************************)
(* A plan executed over the vehicles of the selected runs                  *)
(* (video_chat_execution.py, vehicle_analytics.py), one question after the *)
(* other in a conversation: the identifiers of an answer are what a        *)
(* question about "those" is restricted to.                                *)
(*                                                                         *)
(* A vehicle is known by its identifier in one run, and by its run and     *)
(* identifier in several.  A selection of the vehicles is a function from  *)
(* their places in the list of all.  Abstracted: the value of metrics      *)
(* other than counts, labels and their order among equal counts, times in  *)
(* units of the window.                                                    *)
(***************************************************************************)
EXTENDS QueryPlans

CONSTANTS
    RecordLists,    \* sequences of [id, run, camera, class, colour, first, last]
    AcceptedPlans,  \* plans with runs, from, to, limit, refers beside the rest
    IntervalWindow, \* window_seconds, the width of an interval
    MaxPlans        \* bound: questions of a conversation

VARIABLES
    vehicleRecords,
    answersGiven,   \* the answers so far: [plan, matched, ids, result]
    answerIds   \* previous_vehicle_ids of the session

answerVars == <<vehicleRecords, answersGiven, answerIds>>

NoTime == -1

(* handle_video_chat asks for a run at least; a ranking that was accepted  *)
(* has its order and its group; of records with one run and identifier     *)
(* vehicle_records_from_physical_vehicles keeps the first, and             *)
(* vehicle_records_from_repository_tracks refuses them.                    *)
AnswersAssumption ==
    /\ IntervalWindow \in Nat \ {0}
    /\ \A list \in RecordLists :
        /\ list \in Seq(Range(list))
        /\ \A n \in DOMAIN list :
            /\ list[n].first \in Nat \cup {NoTime} /\ list[n].last \in Nat \cup {NoTime}
            /\ list[n].run # "here"
            /\ \A m \in DOMAIN list :
                    list[m].run = list[n].run /\ list[m].id = list[n].id => m = n
    /\ \A p \in AcceptedPlans :
        /\ p.runs # {} /\ IsFiniteSet(p.runs) /\ p.limit \in Nat
        /\ p.shape = "ranking" => p.order \in {"asc", "desc"} /\ p.group # <<>>
ASSUME AnswersAssumption

Here(record) == <<"here", record.id>>
Scoped(record) == <<record.run, record.id>>

ResultId(record, p) == IF Cardinality(p.runs) > 1 THEN Scoped(record) ELSE Here(record)

-----------------------------------------------------------------------------
(* Which vehicles an answer is about                                       *)

Value(record, field) ==
    CASE field = "class" -> record.class [] field = "colour" -> record.colour
      [] field = "camera" -> record.camera [] field = "run" -> record.run
      [] field = "plate_presence" -> record.plate

(* _matches_condition, and what _matches_expression makes of the filters   *)
(* below a node, those of hits being matched.                              *)
NodeMatches(record, f, path, hits) ==
    LET node == f[path]
        below == {p \in DOMAIN f : IsStrictPrefix(path, p) /\ Len(p) = Len(path) + 1}
    IN  CASE node.kind = "none" -> TRUE
          [] node.kind = "condition" ->
                (node.op \in {"eq", "in"}) = (Value(record, node.field) \in node.values)
          [] node.kind = "and" -> below \subseteq hits
          [] node.kind = "or"  -> below \cap hits # {}
          [] node.kind = "not" -> below \cap hits = {}
Matches(record, f) ==
    \E hits \in SUBSET DOMAIN f :
        <<>> \in hits /\ hits = {path \in DOMAIN f : NodeMatches(record, f, path, hits)}

(* Visible at some time of the range, its ends included; a vehicle whose   *)
(* times are not known is visible at any.                                  *)
SeenWithin(record, from, to) ==
    /\ from = NoTime \/ record.last = NoTime \/ record.last >= from
    /\ to = NoTime \/ record.first = NoTime \/ record.first <= to

(* _apply_plan_filters: no previous identifiers restrict nothing.          *)
MatchedBy(records, p, previous) ==
    Restrict(records, {n \in DOMAIN records :
        LET r == records[n]
        IN  /\ previous = {} \/ {Here(r), Scoped(r)} \cap previous # {}
            /\ p.runs = {} \/ r.run \in p.runs
            /\ p.cameras = {} \/ r.camera \in p.cameras
            /\ r.camera \notin p.notCameras
            /\ Matches(r, p.filters) /\ SeenWithin(r, p.from, p.to)})

-----------------------------------------------------------------------------
(* Results                                                                 *)

GroupKey(record, field) ==
    CASE field \in {"class", "colour", "run", "camera"} -> <<Value(record, field)>>
      [] field = "run_camera" -> <<record.run, record.camera>>
      [] OTHER -> <<"UNKNOWN">>
Groups(found, field) ==
    [key \in {GroupKey(found[n], field) : n \in DOMAIN found} |->
        Restrict(found, {n \in DOMAIN found : GroupKey(found[n], field) = key})]
Number(found) == Cardinality(DOMAIN found)
Counts(found, field) ==
    LET groups == Groups(found, field) IN [key \in DOMAIN groups |-> Number(groups[key])]

ShownEntries(limit, winners) == Max({IF limit > 0 THEN limit ELSE 3, winners, 3})

(* _ranking_result                                                         *)
Ahead(order, count, other) == IF order = "desc" THEN count > other ELSE count < other
ByCount(counts, order) ==
    CHOOSE entries \in [1..Cardinality(DOMAIN counts) -> DOMAIN counts] :
        \A i, j \in DOMAIN entries : i < j =>
            /\ entries[i] # entries[j]
            /\ ~ Ahead(order, counts[entries[j]], counts[entries[i]])
Ranking(found, p) ==
    LET counts == Counts(found, p.group[1])
        entries == ByCount(counts, p.order)
        winners == {k \in DOMAIN counts : counts[k] = counts[entries[1]]}
    IN  IF counts = <<>> THEN [entries |-> <<>>, winners |-> {}]
        ELSE [entries |-> SubSeq(entries, 1,
                    Min({Len(entries), ShownEntries(p.limit, Cardinality(winners))})),
              winners |-> winners]

(* _operand_records: of all the vehicles, also where the question is about *)
(* earlier ones.                                                           *)
OperandRecords(records, p, operand) ==
    MatchedBy(records, [p EXCEPT !.filters = And(<<p.filters, operand>>)], {})
Comparison(records, p) ==
    LET left == Number(OperandRecords(records, p, p.comparison.left))
        right == Number(OperandRecords(records, p, p.comparison.right))
    IN  [left |-> left, right |-> right,
         winner |-> IF left > right THEN "left" ELSE IF right > left THEN "right" ELSE "none"]
(* _dedupe_records keeps one vehicle of each identifier, of whatever run.  *)
Compared(records, p) ==
    LET left == OperandRecords(records, p, p.comparison.left)
        right == OperandRecords(records, p, p.comparison.right)
        First(found, n) == ~ \E m \in DOMAIN found : m < n /\ found[m].id = found[n].id
    IN  {ResultId(records[n], p) : n \in
            {m \in DOMAIN left : First(left, m)} \cup
            {m \in DOMAIN right : First(right, m) /\
                \A k \in DOMAIN left : left[k].id # right[m].id}}

(* find_vehicle_class_comparison_intervals: windows from time 0 to the     *)
(* last known time, merged where neighbours count the same.                *)
WindowCounts(found, n, operands) ==
    [side \in 1..2 |-> Cardinality({k \in DOMAIN found :
        /\ found[k].class = operands[side]
        /\ SeenWithin(found[k], n * IntervalWindow, (n + 1) * IntervalWindow)})]
Windows(found) ==
    LET times == (UNION {{found[n].first, found[n].last} : n \in DOMAIN found}) \ {NoTime}
    IN  IF times = {} THEN 0 ELSE (Max(times) \div IntervalWindow) + 1
Holds(counts, op) == CASE op = ">" -> counts[1] > counts[2] [] op = "<" -> counts[1] < counts[2]
                       [] op = "=" -> counts[1] = counts[2]
(* _merge_adjacent_intervals, one window after the other.                  *)
Joined(merged, window, counts) ==
    IF merged # <<>> /\ Last(merged).to = window /\ Last(merged).counts = counts
    THEN [merged EXCEPT ![Len(merged)].to = window + 1]
    ELSE Append(merged, [from |-> window, to |-> window + 1, counts |-> counts])
Intervals(found, p) ==
    LET count(n) == WindowCounts(found, n, p.classes)
        merged[n \in 0..Windows(found)] ==
            IF n = 0 THEN <<>>
            ELSE IF Holds(count(n - 1), p.operator)
                 THEN Joined(merged[n - 1], n - 1, count(n - 1)) ELSE merged[n - 1]
    IN  merged[Windows(found)]

-----------------------------------------------------------------------------

AnswersInit == vehicleRecords \in RecordLists /\ answersGiven = <<>> /\ answerIds = {}

(* execute_analytics_plan                                                  *)
Result(records, found, p) ==
    CASE p.shape = "intervals" -> Intervals(found, p)
      [] p.shape = "comparison" -> Comparison(records, p)
      [] p.shape \in {"grouped", "ranking"} /\ p.order # "none" -> Ranking(found, p)
      [] p.shape = "grouped" /\ p.order = "none" -> Groups(found, p.group[1])
      [] OTHER -> Number(found)
Ids(records, found, p) ==
    CASE p.shape = "comparison" -> Compared(records, p)
      [] p.shape = "summary" /\ p.group = <<>> -> {Here(found[n]) : n \in DOMAIN found}
      [] OTHER -> {ResultId(found[n], p) : n \in DOMAIN found}
Executed(records, p, previous) ==
    LET found == MatchedBy(records, p, previous)
    IN  [plan |-> p, found |-> found, ids |-> Ids(records, found, p),
         result |-> Result(records, found, p)]

(* The identifiers of an answer are kept for the next question.            *)
ExecutePlan(p) ==
    LET answer == Executed(vehicleRecords, p, IF p.refers THEN answerIds ELSE {})
    IN  /\ Len(answersGiven) < MaxPlans
        /\ answersGiven' = Append(answersGiven, answer)
        /\ answerIds' = answer.ids
        /\ UNCHANGED vehicleRecords

AnswersNext == \E p \in AcceptedPlans : ExecutePlan(p)
AnswersSpec == AnswersInit /\ [][AnswersNext]_answerVars

-----------------------------------------------------------------------------
(* Properties                                                              *)

(* A question about the vehicles of the last answer is answered from those *)
(* vehicles only, in the same runs, where the last answer kept their runs  *)
(* (a summary and a comparison do not) and was not empty                   *)
(* (_apply_plan_filters, _result_vehicle_id).                              *)
FollowUpsNarrow ==
    \A n \in 1..Len(answersGiven) - 1 :
        LET before == answersGiven[n]  now == answersGiven[n + 1]
        IN  /\ now.plan.refers /\ now.plan.runs = before.plan.runs
            /\ before.ids # {} /\ before.plan.shape \notin {"summary", "comparison"}
            => Range(now.found) \subseteq Range(before.found)

(* Nobody who is left out of a ranking is ahead of one who is shown, and   *)
(* every one of those that share the first place is shown, however small   *)
(* the limit (_ranking_result).                                            *)
RankingsAreHonest ==
    \A n \in DOMAIN answersGiven :
        answersGiven[n].plan.shape = "ranking" =>
            LET a == answersGiven[n]
                counts == Counts(a.found, a.plan.group[1])
                shown == Range(a.result.entries)
                NoWorse(x, y) == IF a.plan.order = "desc" THEN counts[x] >= counts[y]
                                 ELSE counts[x] <= counts[y]
            IN  /\ \A x \in shown, y \in DOMAIN counts \ shown : NoWorse(x, y)
                /\ \A i, j \in DOMAIN a.result.entries :
                        i < j => NoWorse(a.result.entries[i], a.result.entries[j])
                /\ \A x \in DOMAIN counts :
                        (\A y \in DOMAIN counts : NoWorse(x, y)) => x \in shown

(* The intervals of an answer cover exactly the windows in which one class *)
(* outnumbers the other, a window belongs to one of them, and what two     *)
(* touching intervals count differs                                        *)
(* (find_vehicle_class_comparison_intervals, _merge_adjacent_intervals).   *)
IntervalsCoverWindows ==
    \A k \in DOMAIN answersGiven :
        answersGiven[k].plan.shape = "intervals" =>
            LET a == answersGiven[k]
                count(n) == WindowCounts(a.found, n, a.plan.classes)
                Around(n) == {i \in DOMAIN a.result :
                                a.result[i].from <= n /\ n < a.result[i].to}
            IN  /\ \A n \in 0..Windows(a.found) - 1 :
                        IF Holds(count(n), a.plan.operator)
                        THEN \E i \in Around(n) :
                                Around(n) = {i} /\ a.result[i].counts = count(n)
                        ELSE Around(n) = {}
                /\ \A i \in 1..Len(a.result) - 1 :
                        a.result[i].to = a.result[i + 1].from =>
                            a.result[i].counts # a.result[i + 1].counts
=============================================================================
