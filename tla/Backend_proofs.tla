--------------------------- MODULE Backend_proofs ---------------------------
(***************************************************************************)
(* Proofs about Backend.  A step of it is a step of RpsPipeline that       *)
(* leaves the plans alone, a step of CoursePlanning that leaves the        *)
(* document alone, or a crash of both, so each invariant is kept by what   *)
(* the proofs of the two modules say of their steps.  What they say of     *)
(* whole behaviours does not hold here: the claim of a planning run is no  *)
(* lock any more.                                                          *)
(***************************************************************************)
EXTENDS Backend, RpsPipeline_proofs, TLAPS

PlanT == INSTANCE CoursePlanning_proofs WITH
  Workflows <- Ids, MaxFixAttempts <- PlanFixAttempts, analyzed <- Analyzed,
  Updates <- {}, update <- <<>>

-----------------------------------------------------------------------------
(* Plan and PlanT are the same module twice, once without its proofs.      *)

LEMMA RequestStepSame ==
  ASSUME NEW p, Plan!RequestStep(p)
  PROVE  PlanT!RequestStep(p)
<1>1. Plan!StartPlanning(p) => PlanT!StartPlanning(p)
  BY DEF Plan!StartPlanning, PlanT!StartPlanning, Plan!MayGenerate,
          PlanT!MayGenerate, Plan!MayRegenerate, PlanT!MayRegenerate,
          Plan!IsLatest, PlanT!IsLatest, Plan!Step, PlanT!Step
<1>2. Plan!ClaimPlanning(p) => PlanT!ClaimPlanning(p)
  BY DEF Plan!ClaimPlanning, PlanT!ClaimPlanning, Plan!Claimable,
          PlanT!Claimable
<1>3. Plan!ClaimRefused(p) => PlanT!ClaimRefused(p)
  BY DEF Plan!ClaimRefused, PlanT!ClaimRefused, Plan!Claimable,
          PlanT!Claimable, Plan!Step, PlanT!Step
<1> QED
  BY <1>1, <1>2, <1>3 DEF Plan!RequestStep, PlanT!RequestStep

LEMMA RunStepSame ==
  ASSUME NEW p, Plan!RunStep(p)
  PROVE  PlanT!RunStep(p)
<1>1. Plan!LoadWorkflow(p) => PlanT!LoadWorkflow(p)
  BY DEF Plan!LoadWorkflow, PlanT!LoadWorkflow
<1>2. Plan!PlannerUnavailable(p) => PlanT!PlannerUnavailable(p)
  BY DEF Plan!PlannerUnavailable, PlanT!PlannerUnavailable, Plan!SaveRun,
          PlanT!SaveRun, Plan!FailRun, PlanT!FailRun
<1>3. Plan!BeginPlanningRun(p) => PlanT!BeginPlanningRun(p)
  BY DEF Plan!BeginPlanningRun, PlanT!BeginPlanningRun, Plan!SaveRun,
          PlanT!SaveRun, Plan!BeginRun, PlanT!BeginRun
<1>4. Plan!EnterPlanning(p) => PlanT!EnterPlanning(p)
  BY DEF Plan!EnterPlanning, PlanT!EnterPlanning, Plan!SaveRun, PlanT!SaveRun,
          Plan!EnterStage, PlanT!EnterStage
<1>5. Plan!PreparePlanning(p) => PlanT!PreparePlanning(p)
  BY DEF Plan!PreparePlanning, PlanT!PreparePlanning, Plan!Step, PlanT!Step
<1>6. Plan!PlanningFails(p) => PlanT!PlanningFails(p)
  BY DEF Plan!PlanningFails, PlanT!PlanningFails, Plan!SaveRun, PlanT!SaveRun,
          Plan!FailRun, PlanT!FailRun
<1>7. Plan!RetryFix(p) => PlanT!RetryFix(p)
  BY DEF Plan!RetryFix, PlanT!RetryFix, Plan!SaveRun, PlanT!SaveRun,
          Plan!MarkRetrying, PlanT!MarkRetrying, Plan!IsActive, PlanT!IsActive,
          Plan!IsTerminal, PlanT!IsTerminal, Plan!TerminalStatuses,
          PlanT!TerminalStatuses
<1>8. Plan!NextAttempt(p) => PlanT!NextAttempt(p)
  BY DEF Plan!NextAttempt, PlanT!NextAttempt, Plan!ResumeStage,
          PlanT!ResumeStage, Plan!EnterStage, PlanT!EnterStage
<1>9. Plan!PlanGenerated(p) => PlanT!PlanGenerated(p)
  BY DEF Plan!PlanGenerated, PlanT!PlanGenerated, Plan!SaveRun, PlanT!SaveRun,
          Plan!CompleteStage, PlanT!CompleteStage, Plan!IsActive,
          PlanT!IsActive, Plan!IsTerminal, PlanT!IsTerminal,
          Plan!TerminalStatuses, PlanT!TerminalStatuses
<1>10. Plan!EnterValidating(p) => PlanT!EnterValidating(p)
  BY DEF Plan!EnterValidating, PlanT!EnterValidating, Plan!SaveRun,
          PlanT!SaveRun, Plan!EnterStage, PlanT!EnterStage
<1>11. Plan!VersionRefused(p) => PlanT!VersionRefused(p)
  BY DEF Plan!VersionRefused, PlanT!VersionRefused, Plan!SaveRun,
          PlanT!SaveRun, Plan!FailRun, PlanT!FailRun, Plan!HasApproved,
          PlanT!HasApproved
<1>12. Plan!NumberVersion(p) => PlanT!NumberVersion(p)
  BY DEF Plan!NumberVersion, PlanT!NumberVersion, Plan!HasApproved,
          PlanT!HasApproved, Plan!IsNextVersion, PlanT!IsNextVersion,
          Plan!IsLatest, PlanT!IsLatest, Plan!Cardinality, PlanT!Cardinality
<1>13. Plan!StoreVersion(p) => PlanT!StoreVersion(p)
  BY DEF Plan!StoreVersion, PlanT!StoreVersion, Plan!VersionTaken,
          PlanT!VersionTaken
<1>14. Plan!StoreConflict(p) => PlanT!StoreConflict(p)
  BY DEF Plan!StoreConflict, PlanT!StoreConflict, Plan!VersionTaken,
          PlanT!VersionTaken, Plan!Step, PlanT!Step
<1>15. Plan!FinishValidating(p) => PlanT!FinishValidating(p)
  BY DEF Plan!FinishValidating, PlanT!FinishValidating, Plan!SaveRun,
          PlanT!SaveRun, Plan!CompleteStage, PlanT!CompleteStage, Plan!IsActive,
          PlanT!IsActive, Plan!IsTerminal, PlanT!IsTerminal,
          Plan!TerminalStatuses, PlanT!TerminalStatuses
<1>16. Plan!AwaitReview(p) => PlanT!AwaitReview(p)
  BY DEF Plan!AwaitReview, PlanT!AwaitReview, Plan!SaveRun, PlanT!SaveRun,
          Plan!WaitForReview, PlanT!WaitForReview, Plan!IsTerminal,
          PlanT!IsTerminal, Plan!TerminalStatuses, PlanT!TerminalStatuses
<1> QED
  BY <1>1, <1>2, <1>3, <1>4, <1>5, <1>6, <1>7, <1>8, <1>9, <1>10, <1>11, <1>12,
     <1>13, <1>14, <1>15, <1>16 DEF Plan!RunStep, PlanT!RunStep

LEMMA ReviewStepSame ==
  ASSUME NEW r, Plan!ReviewStep(r)
  PROVE  PlanT!ReviewStep(r)
<1>1. Plan!AdmitReview(r) => PlanT!AdmitReview(r)
  BY DEF Plan!AdmitReview, PlanT!AdmitReview
<1>2. Plan!ReviewLatest(r) => PlanT!ReviewLatest(r)
  BY DEF Plan!ReviewLatest, PlanT!ReviewLatest, Plan!Reviewable,
          PlanT!Reviewable, Plan!IsLatest, PlanT!IsLatest
<1>3. Plan!ReviewRefused(r) => PlanT!ReviewRefused(r)
  BY DEF Plan!ReviewRefused, PlanT!ReviewRefused, Plan!Reviewable,
          PlanT!Reviewable, Plan!IsLatest, PlanT!IsLatest
<1>4. Plan!SetStatus(r) => PlanT!SetStatus(r)
  BY DEF Plan!SetStatus, PlanT!SetStatus, Plan!OtherApproved,
          PlanT!OtherApproved, Plan!Decide, PlanT!Decide
<1>5. Plan!ApprovalConflict(r) => PlanT!ApprovalConflict(r)
  BY DEF Plan!ApprovalConflict, PlanT!ApprovalConflict, Plan!OtherApproved,
          PlanT!OtherApproved
<1> QED
  BY <1>1, <1>2, <1>3, <1>4, <1>5 DEF Plan!ReviewStep, PlanT!ReviewStep

LEMMA CrashSame == Plan!Crash => PlanT!Crash
BY DEF Plan!Crash, PlanT!Crash

\* The facts about CoursePlanning ask for its assumptions on the constants.
LEMMA PlanAssumptions ==
  /\ PlanFixAttempts \in Nat /\ MaxCrashes \in Nat
  /\ NoTarget \notin Targets
BY PipelineAssumption, BackendAssumption, NoTargetAssumption

\* A step of a planner or of a review is one of CoursePlanning.
LEMMA PlanStep ==
  ASSUME \/ \E p \in Planners : PlannerStep(p)
         \/ ReviewStep
  PROVE  PlanT!Next /\ UNCHANGED rpsVars
<1>1. ASSUME NEW p \in Planners, PlannerStep(p)
      PROVE  PlanT!Next /\ UNCHANGED rpsVars
  <2>1. PlanT!RequestStep(p) \/ PlanT!RunStep(p)
    BY <1>1, RequestStepSame, RunStepSame DEF PlannerStep
  <2> QED
    BY <1>1, <2>1 DEF PlannerStep, PlanT!Next
<1>2. ASSUME NEW r \in Reviews, UNCHANGED rpsVars, Plan!ReviewStep(r)
      PROVE  PlanT!Next /\ UNCHANGED rpsVars
  BY <1>2, ReviewStepSame DEF PlanT!Next
<1> QED
  BY <1>1, <1>2 DEF ReviewStep

-----------------------------------------------------------------------------
(* Types.                                                                  *)

BackendTypeOK == TypeOK /\ PlanT!TypeOK

\* Nothing else is in the function without arguments that stands for the
\* requests to change the target.
LEMMA NoUpdates == <<>> \in [{} -> PlanT!UpdateState]
OBVIOUS

LEMMA RowsSame == PlanT!WorkflowRow = WorkflowRow
BY DEF PlanT!WorkflowRow, WorkflowRow, PlanT!WorkflowStatus, WorkflowStatus, PlanT!Running,
       Running, PlanT!Stages, Stages, PlanT!TerminalStatuses, TerminalStatuses,
       PlanT!MaxStages, MaxStages

LEMMA AnalyzedType == Analyzed \in [Ids -> BOOLEAN]
BY DEF Analyzed

LEMMA BackendTypeInit == BackendInit => BackendTypeOK
<1> SUFFICES ASSUME BackendInit PROVE BackendTypeOK
  OBVIOUS
<1>1. TypeOK
  BY TypeInit DEF BackendInit
<1>2. created \subseteq Ids
  BY <1>1 DEF TypeOK
<1>3. Create(1) \in PlanT!WorkflowRow
  BY RowsSame DEF Create, WorkflowRow, WorkflowStatus, MaxStages
<1>4. planner \in [Planners -> PlanT!PlannerState]
  BY <1>2, <1>3 DEF BackendInit, PlanT!PlannerState, PlanT!Outside
<1>5. review \in [Reviews -> PlanT!ReviewState]
  BY <1>2 DEF BackendInit, PlanT!ReviewState
<1>6. plans \in [Ids -> SUBSET PlanT!CoursePlan]
  BY DEF BackendInit
<1> QED
  BY <1>1, <1>4, <1>5, <1>6, RowsSame, NoUpdates, AnalyzedType
     DEF BackendTypeOK, PlanT!TypeOK, TypeOK

LEMMA BackendTypeNext == BackendTypeOK /\ [BackendNext]_backendVars => BackendTypeOK'
<1> SUFFICES ASSUME BackendTypeOK, [BackendNext]_backendVars PROVE BackendTypeOK'
  OBVIOUS
<1> USE DEF BackendTypeOK
<1>1. CASE RpsStep
  <2>1. TypeOK'
    BY <1>1, TypeNext DEF RpsStep, Next
  <2>2. Analyzed' \in [Ids -> BOOLEAN]
    BY DEF Analyzed
  <2> QED
    BY <1>1, <2>1, <2>2, RowsSame, NoUpdates DEF RpsStep, planVars, PlanT!TypeOK, TypeOK
<1>2. CASE (\E p \in Planners : PlannerStep(p)) \/ ReviewStep
  <2>1. PlanT!Next /\ UNCHANGED rpsVars
    BY <1>2, PlanStep
  <2>2. PlanT!TypeOK'
    BY <2>1, PlanT!TypeNext, PlanAssumptions
  <2> QED
    BY <2>1, <2>2, RowsSame DEF rpsVars, PlanT!TypeOK, TypeOK
<1>3. CASE BackendCrash
  <2>1. TypeOK'
    BY <1>3, TypeNext DEF BackendCrash, Next
  <2>2. PlanT!Next
    BY <1>3, CrashSame DEF BackendCrash, PlanT!Next
  <2>3. PlanT!TypeOK'
    BY <2>2, PlanT!TypeNext, PlanAssumptions
  <2> QED
    BY <2>1, <2>3
<1>4. CASE UNCHANGED backendVars
  BY <1>4, TypeNext, AnalyzedType
     DEF backendVars, vars, planVars, PlanT!TypeOK, TypeOK, Analyzed
<1> QED
  BY <1>1, <1>2, <1>3, <1>4 DEF BackendNext

-----------------------------------------------------------------------------
(* The versions.                                                           *)

LEMMA SoundSame == PlanT!VersionsInv => PlansSound
BY DEF PlanT!VersionsInv, PlansSound, Plan!VersionsNumbered, PlanT!VersionsNumbered,
       Plan!OneApproved, PlanT!OneApproved, Plan!OnlyPassedApproved,
       PlanT!OnlyPassedApproved, Plan!VersionTaken, PlanT!VersionTaken

LEMMA SoundInit == BackendInit => PlanT!VersionsInv
BY DEF BackendInit, PlanT!VersionsInv, PlanT!VersionsNumbered, PlanT!OneApproved,
       PlanT!OnlyPassedApproved, PlanT!NumbersReached, PlanT!DecisionsFounded

LEMMA SoundNext ==
  ASSUME BackendTypeOK, BackendTypeOK', PlanT!VersionsInv, [BackendNext]_backendVars
  PROVE  PlanT!VersionsInv'
<1>1. CASE RpsStep \/ UNCHANGED backendVars
  <2>1. UNCHANGED <<plans, planner, review>>
    BY <1>1 DEF RpsStep, planVars, backendVars
  <2> QED
    BY <2>1, PlanT!VersionsUntouched, PlanAssumptions
<1>2. CASE \/ \E p \in Planners : PlannerStep(p)
           \/ ReviewStep \/ BackendCrash
  <2>1. PlanT!Next
    BY <1>2, PlanStep, CrashSame DEF BackendCrash, PlanT!Next
  <2> QED
    BY <2>1, PlanT!VersionsNext, PlanAssumptions DEF BackendTypeOK
<1> QED
  BY <1>1, <1>2 DEF BackendNext

\* The versions of a workflow stay numbered without a gap or a duplicate, and
\* one at the most is approved, which passed its validation, although planning
\* runs overlap: what keeps them in order is not the claim but the unique
\* constraints and the checks of create_version.
THEOREM PlansStaySound == BackendSpec => []PlansSound
<1>1. BackendInit => BackendTypeOK /\ PlanT!VersionsInv
  BY BackendTypeInit, SoundInit
<1>2. (BackendTypeOK /\ PlanT!VersionsInv) /\ [BackendNext]_backendVars
        => (BackendTypeOK /\ PlanT!VersionsInv)'
  BY BackendTypeNext, SoundNext
<1>3. BackendTypeOK /\ PlanT!VersionsInv => PlansSound
  BY SoundSame
<1> QED
  BY <1>1, <1>2, <1>3, PTL DEF BackendSpec

-----------------------------------------------------------------------------
(* The rows of the workflows.  A run that works on a row, of either kind,  *)
(* will leave it at rest with its last save, except that a planning run    *)
(* that is about to store a version (PlanT!Storing) may stop without one.  *)
(* Such a run has written VALIDATING, and a number that is taken means     *)
(* that there are versions.                                                *)

Attended(w) ==
  \/ \E q \in Requests : Works(q, w)
  \/ \E p \in Planners : PlanT!Holds(p, w) /\ planner[p].pc \notin PlanT!Storing

Left(w) ==
  /\ workflows[w].status = "VALIDATING"
  /\ plans[w] # {} \/ \E p \in Planners : PlanT!Holds(p, w)

CountedInv ==
  /\ \A q \in Requests : Counted(request[q])
  /\ \A p \in Planners : PlanT!Counted(planner[p])

RowsInv ==
  crashes = 0 => \A w \in created : Rested(workflows[w]) \/ Attended(w) \/ Left(w)

LEMMA RestSame == \A row : PlanT!Rested(row) <=> Rested(row)
BY DEF PlanT!Rested, Rested, PlanT!Running, Running, PlanT!Stages, Stages

LEMMA RowsInit == BackendInit => CountedInv /\ RowsInv
<1> SUFFICES ASSUME BackendInit PROVE CountedInv /\ RowsInv
  OBVIOUS
<1>1. RestInv
  BY RestInit DEF BackendInit
<1>2. \A p \in Planners : PlanT!Counted(planner[p])
  BY DEF BackendInit, PlanT!Counted
<1>3. \A q \in Requests, w \in created : ~Works(q, w)
  BY DEF BackendInit, Init, Blank, Works, InStages
<1> QED
  BY <1>1, <1>2, <1>3 DEF CountedInv, RowsInv, RestInv, RestingMeansDone, Rested

LEMMA RpsRows ==
  ASSUME BackendTypeOK, BackendTypeOK', CountedInv, RowsInv,
         UNCHANGED planVars, NEW q \in Requests, RequestStep(q) \/ RunStep(q)
  PROVE  CountedInv' /\ RowsInv'
<1>1. RowEffect(q)
  BY RequestEffect, RunEffect DEF BackendTypeOK, CountedInv
<1>2. (\A r \in Requests \ {q} : request'[r] = request[r]) /\ crashes' = crashes
  BY OwnStep DEF BackendTypeOK
<1>3. UNCHANGED <<plans, planner>>
  BY DEF planVars
<1>4. CountedInv'
  BY <1>1, <1>2, <1>3 DEF CountedInv, RowEffect
<1>5. SUFFICES ASSUME NEW w \in created', crashes = 0
               PROVE  Rested(workflows'[w]) \/ Attended(w)' \/ Left(w)'
  BY <1>2, <1>4, <1>5 DEF RowsInv
<1>6. w \in Ids
  BY DEF BackendTypeOK, TypeOK
<1>7. CASE Works(q, w)'
  BY <1>7 DEF Attended
<1>8. CASE /\ workflows'[w] = workflows[w]
           /\ w \in created
           /\ Works(q, w) => Works(q, w)'
  <2>1. \A r \in Requests : Works(r, w) => Works(r, w)'
    BY <1>2, <1>8 DEF Works
  <2>2. \A p \in Planners : PlanT!Holds(p, w)' <=> PlanT!Holds(p, w)
    BY <1>3 DEF PlanT!Holds
  <2>3. Attended(w) => Attended(w)'
    BY <1>3, <2>1, <2>2 DEF Attended
  <2>4. Left(w) => Left(w)'
    BY <1>3, <1>8, <2>2 DEF Left
  <2> QED
    BY <1>5, <1>8, <2>3, <2>4 DEF RowsInv
<1> QED
  BY <1>1, <1>5, <1>6, <1>7, <1>8 DEF RowEffect

\* A planner that keeps its row is where it was, or closer to its end.
LEMMA PlannerRows ==
  ASSUME BackendTypeOK, CountedInv, RowsInv, UNCHANGED rpsVars,
         NEW p \in Planners, PlanT!RequestStep(p) \/ PlanT!RunStep(p)
  PROVE  CountedInv' /\ RowsInv'
<1> USE PlanAssumptions DEF BackendTypeOK
<1> PICK v \in Ids : v = planner[p].workflow
  BY DEF PlanT!TypeOK, PlanT!PlannerState
<1>0. PlanT!Counted(planner[p]) /\ UNCHANGED <<request, created>>
  BY DEF CountedInv, rpsVars
<1>1. /\ \A o \in Planners \ {p} : planner'[o] = planner[o]
      /\ planner'[p].workflow = v
      /\ crashes' = crashes
      /\ PlanT!Counted(planner'[p])
  BY <1>0, PlanT!RequestEffect, PlanT!RunEffect
<1>2. CountedInv'
  BY <1>0, <1>1 DEF CountedInv
<1>3. \A w \in Ids : plans[w] # {} => plans'[w] # {}
  <2>1. plans' = plans \/ PlanT!StoreVersion(p)
    BY <1>0, PlanT!RequestEffect, PlanT!RunEffect
  <2> QED
    BY <2>1 DEF PlanT!StoreVersion, PlanT!TypeOK
<1>4. \A w \in Ids \ {v} : ~PlanT!Holds(p, w) /\ ~PlanT!Holds(p, w)'
  BY <1>1 DEF PlanT!Holds
<1>5. \A o \in Planners \ {p}, w \in Ids : PlanT!Holds(o, w)' <=> PlanT!Holds(o, w)
  BY <1>1 DEF PlanT!Holds
<1>6. \A q \in Requests, w \in Ids : Works(q, w)' <=> Works(q, w)
  BY <1>0 DEF Works
<1> DEFINE Fine(w) == Rested(workflows[w]) \/ Attended(w) \/ Left(w)
<1>7. SUFFICES ASSUME NEW w \in Ids, Fine(w) PROVE Fine(w)'
  BY <1>0, <1>1, <1>2, <1>7 DEF RowsInv, TypeOK
<1> HIDE DEF Fine
<1>8. ASSUME workflows'[w] = workflows[w],
             PlanT!Holds(p, w) =>
               \/ /\ PlanT!Holds(p, w)'
                  /\ planner'[p].pc \in PlanT!Storing => planner[p].pc \in PlanT!Storing
               \/ planner[p].pc \in PlanT!Storing /\ plans[w] # {}
      PROVE  Fine(w)'
  <2>1. Attended(w) => Attended(w)'
    BY <1>1, <1>5, <1>6, <1>8 DEF Attended
  <2>2. Left(w) => Left(w)'
    BY <1>3, <1>5, <1>8 DEF Left
  <2> QED
    BY <1>7, <1>8, <2>1, <2>2 DEF Fine
<1>9. CASE w # v
  <2>1. workflows'[w] = workflows[w]
    <3>1. CASE PlanT!RequestStep(p)
      BY <1>9, <3>1, PlanT!RequestEffect DEF PlanT!TypeOK
    <3>2. CASE PlanT!RunStep(p)
      BY <1>0, <1>9, <3>2, PlanT!RunEffect
         DEF PlanT!TypeOK, PlanT!Continues, PlanT!Saves, PlanT!Leaves, PlanT!Loses
    <3> QED
      BY <3>1, <3>2
  <2> QED
    BY <1>4, <1>8, <1>9, <2>1
<1>10. CASE w = v /\ PlanT!RequestStep(p)
  <2>1. planner[p].pc \in PlanT!Outside /\ ~PlanT!Holds(p, w)
    BY <1>10, PlanT!RequestEffect DEF PlanT!Holds
  <2>2. CASE workflows' = workflows
    BY <1>8, <2>1, <2>2
  <2>3. CASE planner'[p].pc = "claimed"
    <3>1. PlanT!Holds(p, w)' /\ planner'[p].pc \notin PlanT!Storing
      BY <1>1, <1>10, <2>3 DEF PlanT!Holds, PlanT!Outside, PlanT!Storing
    <3> QED
      BY <3>1 DEF Attended, Fine
  <2> QED
    BY <1>10, <2>2, <2>3, PlanT!RequestEffect
<1>11. CASE w = v /\ PlanT!RunStep(p)
  <2>1. PlanT!Continues(p) \/ PlanT!Saves(p) \/ PlanT!Leaves(p) \/ PlanT!Loses(p)
    BY <1>0, <1>11, PlanT!RunEffect
  <2>2. CASE PlanT!Continues(p)
    BY <1>1, <1>8, <1>11, <2>2 DEF PlanT!Continues, PlanT!Holds
  <2>3. CASE PlanT!Saves(p)
    <3>1. PlanT!Holds(p, w)'
      BY <1>1, <1>11, <2>3 DEF PlanT!Saves, PlanT!Holds, PlanT!Executing, PlanT!Outside
    <3>2. CASE planner'[p].pc \in PlanT!Storing
      <4>1. workflows'[w].status = "VALIDATING"
        BY <1>11, <2>3, <3>2 DEF PlanT!Saves, PlanT!TypeOK
      <4> QED
        BY <3>1, <4>1 DEF Left, Fine
    <3>3. CASE planner'[p].pc \notin PlanT!Storing
      BY <3>1, <3>3 DEF Attended, Fine
    <3> QED
      BY <3>2, <3>3
  <2>4. CASE PlanT!Leaves(p)
    <3>1. Rested(workflows'[w])
      BY <1>11, <2>4, RestSame DEF PlanT!Leaves, PlanT!TypeOK
    <3> QED
      BY <3>1 DEF Fine
  <2>5. CASE PlanT!Loses(p)
    <3>1. plans[w] # {} /\ planner[p].pc \in PlanT!Storing /\ workflows' = workflows
      BY <1>11, <2>5 DEF PlanT!Loses, PlanT!VersionTaken, PlanT!Storing
    <3> QED
      BY <1>8, <3>1
  <2> QED
    BY <2>1, <2>2, <2>3, <2>4, <2>5
<1> QED
  BY <1>9, <1>10, <1>11

LEMMA ReviewRows ==
  ASSUME BackendTypeOK, CountedInv, RowsInv, UNCHANGED rpsVars,
         NEW r \in Reviews, PlanT!ReviewStep(r)
  PROVE  CountedInv' /\ RowsInv'
<1>1. UNCHANGED <<workflows, created, request, planner, crashes>>
  BY DEF PlanT!ReviewStep, PlanT!AdmitReview, PlanT!ReviewLatest, PlanT!ReviewRefused,
         PlanT!SetStatus, PlanT!ApprovalConflict, rpsVars
<1>2. \A w \in Ids : plans[w] # {} => plans'[w] # {}
  <2>1. CASE PlanT!SetStatus(r)
    <3>1. \A rows, v, d : rows # {} => PlanT!Decide(rows, v, d) # {}
      BY DEF PlanT!Decide
    <3>2. \A w \in Ids : \E v, d : plans'[w] \in {plans[w], PlanT!Decide(plans[w], v, d)}
      BY <2>1 DEF PlanT!SetStatus, BackendTypeOK, PlanT!TypeOK
    <3> QED
      BY <3>1, <3>2
  <2>2. CASE plans' = plans
    BY <2>2
  <2> QED
    BY <2>1, <2>2 DEF PlanT!ReviewStep, PlanT!AdmitReview, PlanT!ReviewLatest,
         PlanT!ReviewRefused, PlanT!ApprovalConflict
<1>3. \A w \in created : (Attended(w) => Attended(w)') /\ (Left(w) => Left(w)')
  BY <1>1, <1>2 DEF Attended, Left, Works, PlanT!Holds, BackendTypeOK, TypeOK
<1> QED
  BY <1>1, <1>3 DEF CountedInv, RowsInv

LEMMA CrashRows ==
  ASSUME BackendTypeOK, CountedInv, BackendCrash
  PROVE  CountedInv' /\ RowsInv'
<1>1. \A q \in Requests : Counted(request'[q])
  BY CrashCounted DEF BackendCrash, CountedInv
<1>2. ASSUME NEW p \in Planners PROVE PlanT!Counted(planner'[p])
  <2>1. CASE planner[p].pc = "idle"
    BY <2>1 DEF BackendCrash, Plan!Crash, CountedInv
  <2>2. CASE planner[p].pc # "idle"
    <3>1. planner'[p].pc = "ended"
      BY <2>2 DEF BackendCrash, Plan!Crash, BackendTypeOK, PlanT!TypeOK, PlanT!PlannerState
    <3> QED
      BY <3>1 DEF PlanT!Counted
  <2> QED
    BY <2>1, <2>2
<1>3. crashes' # 0
  BY DEF BackendCrash, Crash, BackendTypeOK, TypeOK
<1> QED
  BY <1>1, <1>2, <1>3 DEF CountedInv, RowsInv

LEMMA RowsNext ==
  ASSUME BackendTypeOK, BackendTypeOK', CountedInv, RowsInv, [BackendNext]_backendVars
  PROVE  CountedInv' /\ RowsInv'
<1>1. CASE RpsStep
  BY <1>1, RpsRows DEF RpsStep
<1>2. ASSUME NEW p \in Planners, PlannerStep(p) PROVE CountedInv' /\ RowsInv'
  BY <1>2, RequestStepSame, RunStepSame, PlannerRows DEF PlannerStep
<1>3. CASE ReviewStep
  BY <1>3, ReviewStepSame, ReviewRows DEF ReviewStep
<1>4. CASE BackendCrash
  BY <1>4, CrashRows
<1>5. CASE UNCHANGED backendVars
  BY <1>5 DEF backendVars, vars, planVars, CountedInv, RowsInv, Attended, Left, Works,
              PlanT!Holds
<1> QED
  BY <1>1, <1>2, <1>3, <1>4, <1>5 DEF BackendNext

\* Whatever processings, analyses and planning runs overlap on a workflow, and
\* although each saves whole rows over the others', the last of them leaves the
\* row at rest, with its progress complete if it waits for the instructor; the
\* exception is the loser of a race for a version number, which leaves the row
\* in VALIDATING beside the versions of the others.
THEOREM WorkflowsAreLeftAtRest == BackendSpec => []WorkflowsComeToRest
<1>1. BackendInit => BackendTypeOK /\ CountedInv /\ RowsInv
  BY BackendTypeInit, RowsInit
<1>2. (BackendTypeOK /\ CountedInv /\ RowsInv) /\ [BackendNext]_backendVars
        => (BackendTypeOK /\ CountedInv /\ RowsInv)'
  BY BackendTypeNext, RowsNext
<1>3. BackendTypeOK /\ CountedInv /\ RowsInv => WorkflowsComeToRest
  <2> SUFFICES ASSUME RowsInv, NEW w \in created, crashes = 0, ~Carried(w)
               PROVE  /\ workflows[w].status \notin Running \ {"VALIDATING"}
                      /\ workflows[w].status = "VALIDATING" => plans[w] # {}
                      /\ workflows[w].status = "WAITING_FOR_REVIEW" =>
                           workflows[w].completed = workflows[w].total
    BY DEF WorkflowsComeToRest
  <2>1. /\ \A q \in Requests : ~Works(q, w)
        /\ \A p \in Planners : ~PlanT!Holds(p, w)
    BY DEF Carried, Plan!Holds, PlanT!Holds, Plan!Outside, PlanT!Outside
  <2>2. Rested(workflows[w]) \/ (workflows[w].status = "VALIDATING" /\ plans[w] # {})
    BY <2>1 DEF RowsInv, Attended, Left
  <2> QED
    BY <2>2 DEF Rested, Running, Stages
<1> QED
  BY <1>1, <1>2, <1>3, PTL DEF BackendSpec

=============================================================================
