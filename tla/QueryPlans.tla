------------------------------ MODULE QueryPlans ------------------------------
(***************************************************************************)
(* From a question to a plan that may be executed: the plan a language     *)
(* model proposes is normalized, checked against the catalogue of fields,  *)
(* repaired with what the deterministic parser understood of the question, *)
(* and checked again (video_chat_plan_validation.py, video_chat_plan.py    *)
(* and _qwen_attempt_to_analytics_plan of video_chat.py).  A plan of the   *)
(* deterministic parser is executed as it is.                              *)
(*                                                                         *)
(* A filter is a condition on a field, a conjunction, a disjunction or a   *)
(* negation of filters, or absent.  A condition allows or forbids a set of *)
(* values ("eq" and "in", "neq" and "not_in").                             *)
(* Such a tree is written as a function: to each of its nodes leads a      *)
(* path, the positions from the whole filter down to it.                   *)
(* Abstracted: other entities and metrics, times, fragments of plates.     *)
(* The model's proposals, the questions and what the parser understands of *)
(* them are constants.                                                     *)
(***************************************************************************)
EXTENDS Integers, Sequences, FiniteSets, SequencesExt

CONSTANTS
    Proposals,      \* plans: [filters, group, shape, order, metric, comparison, cameras]
    ChatQuestions,  \* what a question says: [candidate, included, excluded, scope,
                    \*   summary, ranked, order, cameras, sameNamed], the classes it
                    \*   includes and excludes in their order
    RunScopes,      \* sets of selected runs
    CamerasOf,      \* the cameras of each run
    Aliases         \* spellings of fields and values, and what they are normalized to

VARIABLES
    asked, proposal, runScope,
    plan,       \* the plan so far
    planStage   \* "proposed", "normalized", "built", "repaired", "accepted", "refused"

planVars == <<asked, proposal, runScope, plan, planStage>>

Leaf(node) == [path \in {<<>>} |-> node]
NoFilter == Leaf([kind |-> "none"])
NoComparison == [operation |-> "none", left |-> NoFilter, right |-> NoFilter]

(* FIELD_OPERATORS and GROUPABLE_FIELDS, of the fields modelled here.      *)
FieldOperators ==
    [field \in {"class", "colour", "camera", "run", "plate_presence"} |->
        IF field = "plate_presence" THEN {"eq", "neq"} ELSE {"eq", "neq", "in", "not_in"}]
GroupFields == {"class", "colour", "camera", "run", "run_camera", "plate_presence"}
ResultShapes == {"scalar", "list", "grouped", "ranking", "comparison", "summary"}
RepairedFields == {"class", "colour", "plate_presence"}

(* SUPPORTED_COMPARISON_OPERATIONS, as far as modelled; and the operators  *)
(* that the parser compares classes with over time.                        *)
ComparisonOperations == {"winner", "difference"}
IntervalOperators == {">", "<", "="}

-----------------------------------------------------------------------------
(* Filters                                                                 *)

(* Only connectives have filters below them.                               *)
IsFilter(f) ==
    /\ f = [path \in DOMAIN f |-> f[path]]
    /\ DOMAIN f \subseteq Seq(Nat) /\ <<>> \in DOMAIN f
    /\ \A path \in DOMAIN f : \A k \in 0..Len(path) - 1 :
            /\ SubSeq(path, 1, k) \in DOMAIN f
            /\ f[SubSeq(path, 1, k)].kind \notin {"none", "condition"}

Absent(f) == f[<<>>].kind = "none"

(* FilterExpression(kind, conditions): filters is a function of positions. *)
Combined(kind, filters) ==
    [path \in {<<>>} \cup UNION {{<<n>> \o rest : rest \in DOMAIN filters[n]} :
                                    n \in DOMAIN filters} |->
        IF path = <<>> THEN [kind |-> kind] ELSE filters[Head(path)][Tail(path)]]

(* and_filter: absent filters are left out, and one filter is itself.      *)
And(filters) ==
    LET present == {n \in DOMAIN filters : ~ Absent(filters[n])}
    IN  IF present = {} THEN NoFilter
        ELSE IF \E n \in present : present = {n}
             THEN filters[CHOOSE n \in present : TRUE]
             ELSE Combined("and", Restrict(filters, present))

Condition(field, operator, values) ==
    Leaf([kind |-> "condition", field |-> field, op |-> operator, values |-> values])
Not(filter) == Combined("not", <<filter>>)

Normal(name) == IF name \in DOMAIN Aliases THEN Aliases[name] ELSE name

(* _normalize_filter_expression and _normalize_filter_value: fields by     *)
(* their names, values of cameras and runs also in upper case.             *)
Normalized(f) ==
    [path \in DOMAIN f |->
        IF f[path].kind = "condition"
        THEN [f[path] EXCEPT !.field = Normal(@), !.values = {Normal(v) : v \in @}]
        ELSE f[path]]

(* _validate_filter_schema; an absent filter may also stand inside another.*)
WellFormed(f) ==
    \A path \in DOMAIN f :
        \/ f[path].kind = "none"
        \/ /\ f[path].kind = "condition"
           /\ f[path].field \in DOMAIN FieldOperators
           /\ f[path].op \in FieldOperators[f[path].field]
        \/ /\ f[path].kind \in {"and", "or", "not"}
           /\ \E below \in DOMAIN f : IsStrictPrefix(path, below)

(* _expression_from_payload drops what is absent; what is left keeps its   *)
(* place among the others.                                                 *)
Built(f) == Restrict(f, {path \in DOMAIN f : path = <<>> \/ f[path].kind # "none"})

(* After k common steps p and q enter two filters of one negation, or one. *)
PartBelowNot(f, p, q, k) ==
    /\ k < Len(p) /\ k < Len(q) /\ SubSeq(p, 1, k) = SubSeq(q, 1, k)
    /\ f[SubSeq(p, 1, k)].kind = "not"

(* _retain_filter_fields, and _strip_filter_fields for the other fields.   *)
(* Of the filters of a negation the first that still says something stays. *)
(* (Where the code puts the only filter that is left in the place of its   *)
(* conjunction or disjunction, one of one filter means the same here.)     *)
OnlyFields(f, fields) ==
    LET of == {path \in DOMAIN f : f[path].kind = "condition" /\ f[path].field \in fields}
        kept == {p \in of : \A q \in of : \A k \in 0..Len(p) - 1 :
                                PartBelowNot(f, p, q, k) => p[k + 1] <= q[k + 1]}
    IN  IF kept = {} THEN NoFilter
        ELSE Restrict(f, {path \in DOMAIN f : \E p \in kept : IsPrefix(path, p)})

Conditions(f) == {f[path] : path \in {p \in DOMAIN f : f[p].kind = "condition"}}

(* _filter_values_for_field and _excluded_filter_values_for_field: what is *)
(* named, also below a negation, and what is named below one.              *)
Mentions(node, field) == node.kind = "condition" /\ node.field = field /\ node.op \in {"eq", "in"}
Named(f, field) == UNION {f[path].values : path \in {p \in DOMAIN f : Mentions(f[p], field)}}
Negated(f, field) ==
    UNION {f[path].values : path \in {p \in DOMAIN f :
        /\ Mentions(f[p], field)
        /\ \E k \in 0..Len(p) - 1 : f[SubSeq(p, 1, k)].kind = "not"}}

(* No negation has several filters: of those the repair keeps the first.   *)
Simple(f) ==
    \A p, q \in DOMAIN f : \A k \in 0..Len(p) - 1 :
        PartBelowNot(f, p, q, k) => p[k + 1] = q[k + 1]

(* What a model may propose has the form of a plan, whatever it holds.     *)
(* What the parser understands is in the catalogue, except that a          *)
(* comparison over time has an operator of its own for its operation       *)
(* (_analytics_comparison_from_chat_query).                                *)
IsComparison(c) ==
    /\ DOMAIN c = {"operation", "left", "right"}
    /\ IsFilter(c.left) /\ IsFilter(c.right)
IsPlan(p) ==
    /\ DOMAIN p = {"filters", "group", "shape", "order", "metric", "comparison", "cameras"}
    /\ IsFilter(p.filters) /\ IsComparison(p.comparison)
PlanAssumption ==
    /\ \A p \in Proposals : IsPlan(p)
    /\ \A q \in ChatQuestions :
        /\ q.included \in Seq(Range(q.included)) /\ q.excluded \in Seq(Range(q.excluded))
        /\ {q.scope, q.ranked} \subseteq GroupFields \cup {"none"}
        /\ q.order \in {"none", "asc", "desc"}
        /\ IsFilter(q.candidate.filters) /\ WellFormed(q.candidate.filters)
        /\ q.candidate.metric \in {"none", "count"}
        /\ IsComparison(q.candidate.comparison)
        /\ q.candidate.comparison.operation \in
                {"none"} \cup ComparisonOperations \cup IntervalOperators
        /\ WellFormed(q.candidate.comparison.left) /\ WellFormed(q.candidate.comparison.right)
ASSUME PlanAssumption

Operands(p) == <<p.comparison.left, p.comparison.right>>

-----------------------------------------------------------------------------
(* Repair                                                                  *)

(* _ensure_explicit_filters: classes the question names or excludes, one   *)
(* conjunction for the nested ones of the code.                            *)
WithMentions(p, q) ==
    LET all == <<p.filters>> \o Operands(p)
        named == UNION {Named(all[n], "class") : n \in 1..3}
        negated == UNION {Negated(all[n], "class") : n \in 1..3}
        included == [n \in DOMAIN q.included |->
            IF q.included[n] \in named \cup negated THEN NoFilter
            ELSE Condition("class", "in", {q.included[n]})]
        excluded == [n \in DOMAIN q.excluded |->
            IF q.excluded[n] \in negated THEN NoFilter
            ELSE Not(Condition("class", "in", {q.excluded[n]}))]
    IN  And(<<p.filters>> \o included \o excluded)

(* _replace_filter_dimensions with the filters the parser understood.      *)
WithCandidate(filters, q) ==
    IF ~ q.candidate.parsed THEN filters
    ELSE And(<<OnlyFields(filters, DOMAIN FieldOperators \ RepairedFields),
               OnlyFields(q.candidate.filters, RepairedFields)>>)

Multiple == Cardinality(runScope) > 1

(* The group the question asks for: scope, or what it ranks.               *)
GroupAsked(q) ==
    IF q.scope # "none" THEN <<q.scope>>
    ELSE IF q.ranked # "none" /\ q.order # "none" THEN <<q.ranked>> ELSE <<>>
ShapeAsked(q) ==
    IF q.scope = "none" THEN "ranking" ELSE IF q.summary THEN "summary" ELSE "grouped"

(* Cameras of different runs are grouped apart, unless the question        *)
(* combines them.                                                          *)
GroupInScope(group, combined) ==
    IF Multiple /\ group = <<"camera">> /\ ~ combined THEN <<"run_camera">> ELSE group

ReferencesCamera(p, group) ==
    \/ Range(group) \cap {"camera", "run_camera"} # {} \/ p.cameras # {}
    \/ \E f \in {p.filters} \cup Range(Operands(p)) : Named(f, "camera") # {}

(* The parts of _repair_analytics_plan in their order.                     *)
Repaired(p, q) ==
    LET filters == WithCandidate(WithMentions(p, q), q)
        compares == q.candidate.parsed /\ p.comparison.operation = "none"
                        /\ q.candidate.comparison.operation # "none"
        comparison == IF compares THEN q.candidate.comparison ELSE p.comparison
        regroups == p.group = <<>> /\ GroupAsked(q) # <<>>
        asked1 == IF regroups THEN GroupAsked(q) ELSE p.group
        group == GroupInScope(asked1, q.sameNamed)
        orders == p.order = "none" /\ q.order # "none" /\ group # <<>>
        shape == IF orders THEN "ranking" ELSE IF regroups THEN ShapeAsked(q)
                 ELSE IF compares THEN "comparison" ELSE p.shape
    IN  [p EXCEPT
            !.filters = filters, !.comparison = comparison, !.group = group, !.shape = shape,
            !.metric = IF q.candidate.parsed /\ @ = "none" THEN q.candidate.metric ELSE @,
            !.order = IF orders THEN q.order
                      ELSE IF shape = "ranking" /\ @ = "none" THEN "desc" ELSE @,
            !.cameras = IF ReferencesCamera([p EXCEPT !.filters = filters,
                                             !.comparison = comparison], group)
                        THEN @ ELSE q.cameras]

-----------------------------------------------------------------------------

PlanInit ==
    /\ asked \in ChatQuestions /\ proposal \in Proposals /\ runScope \in RunScopes
    /\ plan = proposal /\ planStage = "proposed"

NormalizePlan ==
    /\ planStage = "proposed"
    /\ plan' = [plan EXCEPT
            !.filters = Normalized(@),
            !.comparison.left = Normalized(@), !.comparison.right = Normalized(@),
            !.group = GroupInScope([n \in DOMAIN @ |-> Normal(@[n])], FALSE)]
    /\ planStage' = "normalized"
    /\ UNCHANGED <<asked, proposal, runScope>>

KnownOperation(comparison) == comparison.operation \in {"none"} \cup ComparisonOperations

(* What validate_analytics_plan_schema demands besides the operation of a  *)
(* comparison, and all it demands.                                         *)
InCatalogue(p) ==
    /\ WellFormed(p.filters) /\ WellFormed(p.comparison.left) /\ WellFormed(p.comparison.right)
    /\ Range(p.group) \subseteq GroupFields /\ p.shape \in ResultShapes
    /\ p.order \in {"none", "asc", "desc"}
    /\ p.metric \in {"none", "count", "incomplete"}
SchemaValid(p) == InCatalogue(p) /\ KnownOperation(p.comparison)

CheckSchema ==
    /\ planStage = "normalized"
    /\ plan' = IF SchemaValid(plan)
               THEN [plan EXCEPT !.filters = Built(@), !.comparison.left = Built(@),
                                 !.comparison.right = Built(@)]
               ELSE plan
    /\ planStage' = IF SchemaValid(plan) THEN "built" ELSE "refused"
    /\ UNCHANGED <<asked, proposal, runScope>>

(* _validate_camera_scope raises for a camera no selected run has.         *)
RepairPlan ==
    /\ planStage = "built"
    /\ LET repaired == Repaired(plan, asked)
           known == repaired.cameras \subseteq UNION {CamerasOf[r] : r \in runScope}
       IN  /\ plan' = IF known THEN repaired ELSE plan
           /\ planStage' = IF known THEN "repaired" ELSE "refused"
    /\ UNCHANGED <<asked, proposal, runScope>>

(* validate_analytics_plan_semantics                                       *)
SemanticsValid(p) ==
    /\ p.shape = "ranking" => p.group # <<>> /\ p.order # "none" /\ p.metric # "none"
    /\ p.shape = "grouped" => p.group # <<>>
    /\ p.shape = "comparison" => p.comparison.operation # "none"
    /\ p.metric # "incomplete"
    /\ KnownOperation(p.comparison)
    /\ Multiple => "camera" \notin Range(p.group)

CheckSemantics ==
    /\ planStage = "repaired"
    /\ planStage' = IF SemanticsValid(plan) THEN "accepted" ELSE "refused"
    /\ UNCHANGED <<asked, proposal, runScope, plan>>

PlanNext == NormalizePlan \/ CheckSchema \/ RepairPlan \/ CheckSemantics
PlanSpec == PlanInit /\ [][PlanNext]_planVars

-----------------------------------------------------------------------------
(* Properties                                                              *)

(* A plan is repaired after it was checked against the catalogue, and the  *)
(* check of what it means, which follows, asks again for the operation of  *)
(* a comparison only.  A plan that is executed is in the catalogue all the *)
(* same, unless a filter of the model held nothing but absent ones, which  *)
(* the first check lets pass: a repair takes a plan out of it in no way    *)
(* but by the comparison over time that the parser read in the question,   *)
(* and that the second check refuses.  Neither the repair nor the          *)
(* combination of cameras a question may ask for lets the cameras of       *)
(* different runs be counted as one                                        *)
(* (_repair_analytics_plan and validate_analytics_plan_semantics).         *)
RepairsStayValid ==
    /\ WellFormed(Built(Normalized(proposal.filters)))
        /\ (\A f \in Range(Operands(proposal)) : WellFormed(Built(Normalized(f)))) =>
            /\ planStage = "repaired" =>
                    /\ InCatalogue(plan)
                    /\ \/ KnownOperation(plan.comparison)
                       \/ asked.candidate.parsed /\ plan.comparison = asked.candidate.comparison
            /\ planStage = "accepted" => SchemaValid(plan)
    /\ planStage = "accepted" /\ Multiple => "camera" \notin Range(plan.group)
    /\ planStage \in {"built", "repaired"} /\ Multiple /\ ~ asked.sameNamed =>
            plan.group # <<"camera">>

(* Where the parser understood the question it decides about classes,      *)
(* colours and plates, whatever the model proposed; of the other fields    *)
(* the proposal keeps what it had (_replace_filter_dimensions).            *)
ParserDecides ==
    planStage \in {"repaired", "accepted"} /\ asked.candidate.parsed =>
        LET understood == Conditions(asked.candidate.filters)
            proposed == Conditions(Normalized(proposal.filters))
        IN  /\ \A c \in Conditions(plan.filters) :
                    c \in IF c.field \in RepairedFields THEN understood ELSE proposed
            /\ Simple(proposal.filters) =>
                    {c \in proposed : c.field \notin RepairedFields} \subseteq Conditions(plan.filters)
=============================================================================
