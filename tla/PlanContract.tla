---------------------------- MODULE PlanContract ----------------------------
(***************************************************************************)
(* What the stages of a course plan promise each other: the analysis of    *)
(* the RPS (schemas/rps_structured.py), the plan the model writes for it   *)
(* (schemas/course_plan.py), its academic validation                       *)
(* (services/course_plan/validation.py), the weeks that are stored, and    *)
(* the contexts the generation of material builds from them                *)
(* (services/content/generate_service.py).                                 *)
(*                                                                         *)
(* The analysis and the instructor's configuration may be replaced while   *)
(* the model works on a plan.  One version of one plan is followed;        *)
(* CoursePlanning has the versions and their order.  Titles, objectives,   *)
(* messages and the order of the findings are left out.                    *)
(***************************************************************************)
EXTENDS Integers, Sequences, FiniteSets, Ranking

CONSTANTS
  MaxWeek,          \* the highest number CoursePlanWeek accepts
  Configurations,   \* activity configurations: kinds of activity -> enabled or not
  Analyses,         \* what the analyzer may return
  Outputs,          \* the plans the model may write: sequences of weeks
  Nil               \* no analysis, request or version

WeekTypes == {"regular", "kuis", "uts", "uas"}

ASSUME PlanContractAssumption ==
  /\ MaxWeek \in Nat
  /\ \A a \in Analyses : a.weeks \in Seq([week : Nat \ {0}, type : WeekTypes])
  /\ \A o \in Outputs : \A i \in DOMAIN o : o[i].number \in Nat

VARIABLES
  analysis,        \* structured_data of the document, Nil when it is not ANALYZED
  configuration,   \* the instructor's activity configuration
  planning,        \* the PlanningRequest under way
  version,         \* the stored version, with the request and output it came from
  material         \* the outcome of the generation asked for last, and of which plan

contractVars == <<analysis, configuration, planning, version, material>>

ExamWeekTypes == {"uts", "uas"}

Outcome(plan, error, weeks) == [plan |-> plan, error |-> error, weeks |-> weeks]

ContractInit ==
  /\ analysis = Nil /\ configuration = CHOOSE c \in Configurations : TRUE
  /\ planning = Nil /\ version = Nil /\ material = Outcome("", "", {})

Entries(list) == {list[i] : i \in DOMAIN list}

-----------------------------------------------------------------------------
(* The analysis.                                                           *)

NumbersOf(a) == {w.week : w \in Entries(a.weeks)}

HasAcademicContent(a) == a.named \/ a.weeks # <<>> \/ a.declared # {}

\* RPSStructuredData and analyze: no week twice, and not an empty shell.
AnalysisPasses(a) == Cardinality(NumbersOf(a)) = Len(a.weeks) /\ HasAcademicContent(a)

\* A document whose analysis fails has none to read.
Analyze(a) ==
  /\ version = Nil
  /\ analysis' = IF AnalysisPasses(a) THEN a ELSE Nil
  /\ UNCHANGED <<configuration, planning, version, material>>

Configure(c) ==
  /\ version = Nil
  /\ configuration' = c
  /\ UNCHANGED <<analysis, planning, version, material>>

-----------------------------------------------------------------------------
(* Planning.                                                               *)

BuildRequest ==
  /\ version = Nil /\ planning = Nil /\ analysis # Nil
  /\ planning' = [analysis |-> analysis, configuration |-> configuration]
  /\ UNCHANGED <<analysis, configuration, version, material>>

PlannedNumbers(output) == {w.number : w \in Entries(output)}

\* CoursePlanOutput.
OutputFits(output) ==
  /\ output # <<>>
  /\ PlannedNumbers(output) \subseteq 1 .. MaxWeek
  /\ Cardinality(PlannedNumbers(output)) = Len(output)

Issue(code, week) == [code |-> code, week |-> week]

\* normalize_rps_weeks: the type of a week of the analysis.
TypeOf(a, n) == LET w == CHOOSE x \in Entries(a.weeks) : x.week = n IN w.type

WeekNumberIssues(output, a) ==
  IF a.weeks = <<>> THEN {}
  ELSE {Issue("WEEK_MISSING", n) : n \in NumbersOf(a) \ PlannedNumbers(output)}
       \cup {Issue("WEEK_NOT_IN_RPS", n) : n \in PlannedNumbers(output) \ NumbersOf(a)}

Used(output) == UNION {w.outcomes : w \in Entries(output)}

SubCpmkIssues(output, a) ==
  IF a.declared = {} THEN {}
  ELSE {Issue("UNKNOWN_SUB_CPMK", w.number) :
          w \in {x \in Entries(output) : ~(x.outcomes \subseteq a.declared)}}
       \cup {Issue("SUB_CPMK_NOT_COVERED", 0) : code \in a.declared \ Used(output)}

ExamWeekIssues(output, a) ==
  {Issue("EXAM_WEEK_HAS_MATERIAL", w.number) : w \in
     {x \in Entries(output) : /\ x.number \in NumbersOf(a)
                              /\ TypeOf(a, x.number) \in ExamWeekTypes
                              /\ x.topics}}

\* Only a kind that is listed and switched off is an issue.
ActivityIssues(output, c) ==
  {Issue("ACTIVITY_NOT_ENABLED", w.number) : w \in
     {x \in Entries(output) : \E k \in x.activities \cap DOMAIN c : ~c[k]}}

ValidatePlan(output, a, c) ==
  WeekNumberIssues(output, a) \cup SubCpmkIssues(output, a)
    \cup ExamWeekIssues(output, a) \cup ActivityIssues(output, c)

WeekOf(output, n) == CHOOSE w \in Entries(output) : w.number = n

\* The row of a week, its mark copied from the analysis; nothing writes its
\* "metadata".
RowOf(w, a) ==
  [number |-> w.number, topics |-> w.topics, methods |-> w.methods,
   week_type |-> IF w.number \in NumbersOf(a) THEN TypeOf(a, w.number) ELSE "regular"]

\* Mutated: the marks are those of the analysis that is there now.
BuildWeeksOfToday(output, a) ==
  LET numbers == PlannedNumbers(output)
      today == IF analysis = Nil THEN [weeks |-> <<>>] ELSE analysis IN
  [i \in 1 .. Cardinality(numbers) |-> RowOf(WeekOf(output, Ascending(numbers)[i]), today)]

\* _build_weeks and CoursePlanRepository.create: a row for every week, in order.
BuildWeeks(output, a) ==
  LET numbers == PlannedNumbers(output) IN
  [i \in 1 .. Cardinality(numbers) |-> RowOf(WeekOf(output, Ascending(numbers)[i]), a)]

\* Mutated: validated against the configuration of the moment.
ConfigurationOfToday(request) == configuration

\* store_planned_plan: the request holds what the plan is measured against.
ConfigurationOf(request) == request.configuration

\* The model's plan: stored with its verdict, or sent back when it breaks the
\* schema.
PlanComes(output) ==
  /\ planning # Nil /\ OutputFits(output)
  /\ version' = [status |-> "DRAFT", weeks |-> BuildWeeks(output, planning.analysis),
                 passed |-> ValidatePlan(output, planning.analysis, ConfigurationOf(planning)) = {},
                 output |-> output, request |-> planning]
  /\ planning' = Nil
  /\ UNCHANGED <<analysis, configuration, material>>

PlanningGivesUp ==
  /\ planning # Nil
  /\ planning' = Nil
  /\ UNCHANGED <<analysis, configuration, version, material>>

Approve ==
  /\ version # Nil /\ version.status = "DRAFT" /\ version.passed
  /\ version' = [version EXCEPT !.status = "APPROVED"]
  /\ UNCHANGED <<analysis, configuration, planning, material>>

-----------------------------------------------------------------------------
(* The generation of material for the plan.                                *)

\* _build_week_contexts reads topics and methods as an object with "items"; a
\* list has no such thing.
Readable(row) == ~row.topics /\ ~row.methods

\* ... and the kind of the week from its metadata, which says nothing.
RegularNumbers == {w.number : w \in Entries(version.weeks)}

\* generate_contents, for the weeks asked for or for all of them (Nil).
GenerateContents(asked) ==
  /\ version # Nil
  /\ material' =
       IF \E w \in Entries(version.weeks) : ~Readable(w)
       THEN Outcome(version.status, "AttributeError", {})
       ELSE IF asked = Nil THEN Outcome(version.status, "", RegularNumbers)
       ELSE IF asked = {} \/ ~(asked \subseteq RegularNumbers)
       THEN Outcome(version.status, "ValueError", {})
       ELSE Outcome(version.status, "", asked)
  /\ UNCHANGED <<analysis, configuration, planning, version>>

ContractNext ==
  \/ \E a \in Analyses : Analyze(a)
  \/ \E c \in Configurations : Configure(c)
  \/ BuildRequest
  \/ \E output \in Outputs : PlanComes(output)
  \/ PlanningGivesUp
  \/ Approve
  \/ \E asked \in {Nil} \cup SUBSET (1 .. MaxWeek) : GenerateContents(asked)

-----------------------------------------------------------------------------
(* Properties.                                                             *)

\* A version is marked as passed exactly when it keeps what the validation
\* promises (validation.py, lines 5-13) about the analysis and the configuration
\* its request was built from, whatever has become of them meanwhile: it has the
\* weeks of the RPS, it names and covers the declared Sub-CPMK, exam weeks bring
\* no topic, and no activity is switched off.  An RPS without weeks, or without
\* Sub-CPMK, promises nothing about them.
PassedPlansFit ==
  version # Nil =>
    LET a == version.request.analysis
        c == version.request.configuration
        o == version.output
        exams == {i \in DOMAIN a.weeks : a.weeks[i].type \in ExamWeekTypes} IN
    version.passed <=>
      /\ a.weeks # <<>> =>
           /\ \A i \in DOMAIN a.weeks : \E j \in DOMAIN o : o[j].number = a.weeks[i].week
           /\ \A j \in DOMAIN o : \E i \in DOMAIN a.weeks : o[j].number = a.weeks[i].week
      /\ a.declared # {} =>
           /\ \A j \in DOMAIN o : o[j].outcomes \subseteq a.declared
           /\ \A code \in a.declared : \E j \in DOMAIN o : code \in o[j].outcomes
      /\ \A i \in exams, j \in DOMAIN o : o[j].number = a.weeks[i].week => ~o[j].topics
      /\ \A j \in DOMAIN o : \A k \in o[j].activities : k \in DOMAIN c => c[k]

\* An approved plan stores every week of the RPS once and in order, and those
\* stored as weeks of an exam bring no topic: what was validated is what was
\* stored, although validation and storing read the analysis each for itself and
\* the analysis may have been replaced since.
ApprovedWeeksStand ==
  version # Nil /\ version.status = "APPROVED" =>
    /\ \A i, j \in DOMAIN version.weeks :
         i < j => version.weeks[i].number < version.weeks[j].number
    /\ version.request.analysis.weeks # <<>> =>
         Len(version.weeks) = Len(version.request.analysis.weeks)
    /\ \A w \in Entries(version.weeks) : w.week_type \in ExamWeekTypes => ~w.topics

\* Material is generated from the approved plan (agent-design.md, line 418):
\* generation from an approved plan does not stop with an error of no kind it
\* declares.
ApprovedPlansAreRead ==
  material.plan = "APPROVED" => material.error # "AttributeError"
=============================================================================
