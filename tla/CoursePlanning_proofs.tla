------------------------ MODULE CoursePlanning_proofs ------------------------
(***************************************************************************)
(* Theorems about CoursePlanning, for any number of workflows, requests,   *)
(* attempts and crashes; at the end, that it implements PlanLedger: every  *)
(* step of the planning is a step of the ledger or leaves the holders and  *)
(* the ledger as they are.                                                 *)
(***************************************************************************)
EXTENDS Sequences, CoursePlanning_ledger, WorkflowRecord_proofs, FiniteSetTheorems, TLAPS

-----------------------------------------------------------------------------
(* Types.                                                                  *)

LEMMA TypeInit == Init => TypeOK
<1> SUFFICES ASSUME Init PROVE TypeOK
  OBVIOUS
<1> USE DEF Init
<1>1. Create(1) \in WorkflowRow
  BY DEF Create, WorkflowRow, WorkflowStatus, Running, Stages, MaxStages
<1>2. workflows \in [Workflows -> WorkflowRow]
  BY DEF InitialRow
<1>3. plans \in [Workflows -> SUBSET CoursePlan] /\ analyzed \in [Workflows -> BOOLEAN]
  OBVIOUS
<1>4. planner \in [Planners -> PlannerState]
  BY <1>1 DEF PlannerState, Outside
<1>5. review \in [Reviews -> ReviewState]
  BY DEF ReviewState
<1>6. update \in [Updates -> UpdateState]
  BY <1>1 DEF UpdateState
<1> QED
  BY <1>2, <1>3, <1>4, <1>5, <1>6 DEF TypeOK

\* The two shapes most actions of a run have.
LEMMA SaveRunType ==
  ASSUME TypeOK, NEW p \in Planners, NEW row \in WorkflowRow,
         NEW to \in Outside \cup Scheduled \cup Executing, SaveRun(p, to, row)
  PROVE  TypeOK'
BY DEF TypeOK, SaveRun, PlannerState

LEMMA StepType ==
  ASSUME TypeOK, NEW p \in Planners, NEW from,
         NEW to \in Outside \cup Scheduled \cup Executing, Step(p, from, to)
  PROVE  TypeOK'
BY DEF TypeOK, Step, PlannerState

LEMMA TypeNext == TypeOK /\ [Next]_vars => TypeOK'
<1> SUFFICES ASSUME TypeOK, [Next]_vars PROVE TypeOK'
  OBVIOUS
<1>1. ASSUME NEW p \in Planners, RequestStep(p) PROVE TypeOK'
  <2>1. CASE StartPlanning(p)
    BY <2>1, StepType DEF StartPlanning, Outside
  <2>2. CASE ClaimPlanning(p)
    <3>1. "PLANNING_COURSE" \in WorkflowStatus
      BY DEF WorkflowStatus, Running, Stages
    <3> QED
      BY <2>2, <3>1 DEF ClaimPlanning, TypeOK, PlannerState, WorkflowRow, Scheduled
  <2>3. CASE ClaimRefused(p)
    BY <2>3, StepType DEF ClaimRefused, Outside
  <2> QED
    BY <1>1, <2>1, <2>2, <2>3 DEF RequestStep
<1>2. ASSUME NEW p \in Planners, RunStep(p) PROVE TypeOK'
  <2>0. planner[p] \in PlannerState /\ planner[p].ctx \in WorkflowRow
    BY DEF TypeOK, PlannerState
  <2>1. CASE LoadWorkflow(p)
    BY <2>1 DEF LoadWorkflow, TypeOK, PlannerState, Executing
  <2>2. CASE PlannerUnavailable(p) \/ PlanningFails(p) \/ VersionRefused(p)
    BY <2>0, <2>2, RowOperations, SaveRunType
       DEF PlannerUnavailable, PlanningFails, VersionRefused, Outside
  <2>3. CASE BeginPlanningRun(p)
    <3>1. BeginRun(planner[p].ctx, 2) \in WorkflowRow
      BY <2>0, RowOperations DEF MaxStages
    <3> QED
      BY <2>3, <3>1, SaveRunType DEF BeginPlanningRun, Executing
  <2>4. CASE EnterPlanning(p) \/ EnterValidating(p)
    BY <2>0, <2>4, RowOperations, SaveRunType
       DEF EnterPlanning, EnterValidating, Executing, Stages
  <2>5. CASE PreparePlanning(p) \/ StoreConflict(p)
    BY <2>5, StepType DEF PreparePlanning, StoreConflict, Executing, Outside
  <2>6. CASE RetryFix(p)
    BY <2>0, <2>6, RowOperations, SaveRunType DEF RetryFix, Executing
  <2>7. CASE NextAttempt(p)
    <3>1. ResumeStage(planner[p].ctx, "PLANNING_COURSE") \in WorkflowRow
      BY <2>0, RowOperations DEF Stages
    <3> QED
      BY <2>7, <3>1 DEF NextAttempt, TypeOK, PlannerState, Executing
  <2>8. CASE PlanGenerated(p) \/ FinishValidating(p)
    BY <2>0, <2>8, RowOperations, SaveRunType
       DEF PlanGenerated, FinishValidating, Executing
  <2>9. CASE NumberVersion(p)
    <3>1. PICK v : /\ IsNextVersion(v, plans[planner[p].workflow])
                   /\ planner' = [planner EXCEPT ![p].pc = "storing", ![p].version = v]
      BY <2>9 DEF NumberVersion
    <3>2. v \in Nat \ {0}
      BY <3>1 DEF IsNextVersion, IsLatest, TypeOK, PlannerState, CoursePlan
    <3>3. [planner[p] EXCEPT !.pc = "storing", !.version = v] \in PlannerState
      BY <2>0, <3>2 DEF PlannerState, Executing
    <3>4. planner' \in [Planners -> PlannerState]
      BY <3>1, <3>3 DEF TypeOK
    <3> QED
      BY <2>9, <3>4 DEF NumberVersion, TypeOK
  <2>10. CASE StoreVersion(p)
    BY <2>10 DEF StoreVersion, TypeOK, PlannerState, Executing, CoursePlan, CoursePlanStatus
  <2>11. CASE AwaitReview(p)
    BY <2>0, <2>11, RowOperations, SaveRunType DEF AwaitReview, Outside
  <2> QED
    BY <1>2, <2>1, <2>2, <2>3, <2>4, <2>5, <2>6, <2>7, <2>8, <2>9, <2>10, <2>11 DEF RunStep
<1>3. ASSUME NEW r \in Reviews, ReviewStep(r) PROVE TypeOK'
  <2>1. CASE AdmitReview(r) \/ ReviewRefused(r) \/ ApprovalConflict(r)
    BY <2>1 DEF AdmitReview, ReviewRefused, ApprovalConflict, TypeOK, ReviewState
  <2>2. CASE ReviewLatest(r)
    <3>1. PICK plan \in plans[review[r].workflow] :
            review' = [review EXCEPT ![r].pc = "decided", ![r].version = plan.version]
      BY <2>2 DEF ReviewLatest
    <3>2. review[r] \in ReviewState /\ plan \in CoursePlan
      BY <3>1 DEF TypeOK, ReviewState
    <3>3. [review[r] EXCEPT !.pc = "decided", !.version = plan.version] \in ReviewState
      BY <3>2 DEF ReviewState, CoursePlan
    <3>4. review' \in [Reviews -> ReviewState]
      BY <3>1, <3>3 DEF TypeOK
    <3> QED
      BY <2>2, <3>4 DEF ReviewLatest, TypeOK
  <2>3. CASE SetStatus(r)
    <3>1. review[r] \in ReviewState
      BY DEF TypeOK
    <3>2. Decide(plans[review[r].workflow], review[r].version, review[r].decision)
            \in SUBSET CoursePlan
      BY <3>1 DEF Decide, TypeOK, CoursePlan, CoursePlanStatus, ReviewState
    <3> QED
      BY <2>3, <3>1, <3>2 DEF SetStatus, TypeOK, ReviewState
  <2> QED
    BY <1>3, <2>1, <2>2, <2>3 DEF ReviewStep
<1>4. ASSUME NEW u \in Updates, UpdateStep(u) PROVE TypeOK'
  <2>1. CASE ReadRow(u)
    BY <2>1 DEF ReadRow, TypeOK, UpdateState
  <2>2. CASE WriteTarget(u)
    <3>1. update[u] \in UpdateState /\ update[u].copy \in WorkflowRow
      BY DEF TypeOK, UpdateState
    <3>2. PICK t \in Targets \cup {NoTarget} :
            workflows' = [workflows EXCEPT ![update[u].workflow] =
                            SetMoodleCourse(update[u].copy, t)]
      BY <2>2 DEF WriteTarget
    <3>3. SetMoodleCourse(update[u].copy, t) \in WorkflowRow
      BY <3>1, RowOperations
    <3>4. workflows' \in [Workflows -> WorkflowRow]
      BY <3>2, <3>3 DEF TypeOK
    <3>5. update' \in [Updates -> UpdateState]
      BY <2>2, <3>1 DEF WriteTarget, TypeOK, UpdateState
    <3> QED
      BY <2>2, <3>4, <3>5 DEF WriteTarget, TypeOK
  <2> QED
    BY <1>4, <2>1, <2>2 DEF UpdateStep
<1>5. ASSUME NEW w \in Workflows, AnalysisChanges(w) PROVE TypeOK'
  BY <1>5 DEF AnalysisChanges, TypeOK
<1>6. CASE Crash
  <2>1. planner' \in [Planners -> PlannerState]
    BY <1>6 DEF Crash, TypeOK, PlannerState, Outside
  <2>2. review' \in [Reviews -> ReviewState]
    BY <1>6 DEF Crash, TypeOK, ReviewState
  <2>3. update' \in [Updates -> UpdateState]
    BY <1>6 DEF Crash, TypeOK, UpdateState
  <2> QED
    BY <1>6, <2>1, <2>2, <2>3 DEF Crash, TypeOK
<1>7. CASE UNCHANGED vars
  BY <1>7 DEF vars, TypeOK
<1> QED
  BY <1>1, <1>2, <1>3, <1>4, <1>5, <1>6, <1>7 DEF Next

\* Rows and requests keep their shape.
THEOREM TypeCorrect == Spec => []TypeOK
BY TypeInit, TypeNext, PTL DEF Spec

-----------------------------------------------------------------------------
(* The claim is a lock, as long as nobody changes the Moodle target: the   *)
(* three parts of HeldInv need one another.  A claim finds a status no     *)
(* held workflow has (HeldMeansRunning); a save of a run is the save of    *)
(* the only run there is (PlanningExclusive), so that what it writes, a    *)
(* transition of the row it has read (CopyCurrent), keeps the status among *)
(* the running ones up to its last save.                                   *)

HeldInv == PlanningExclusive /\ HeldMeansRunning /\ CopyCurrent

LEMMA HeldInit == Init => HeldInv
BY DEF Init, HeldInv, PlanningExclusive, HeldMeansRunning, CopyCurrent, Holds,
       Outside, Executing

LEMMA CopyRunning ==
  ASSUME TypeOK, HeldInv, NEW p \in Planners, planner[p].pc \in Executing
  PROVE  planner[p].ctx.status \in Running
<1>1. planner[p].workflow \in Workflows
  BY DEF TypeOK, PlannerState
<1>2. Holds(p, planner[p].workflow)
  BY DEF Holds, Executing, Outside
<1> QED
  BY <1>1, <1>2 DEF HeldInv, HeldMeansRunning, CopyCurrent

\* A run that holds its workflow writes the row and keeps a copy of it.
LEMMA SaveHeld ==
  ASSUME TypeOK, HeldInv, NEW p \in Planners, NEW run \in PlannerState,
         planner[p].pc \in Executing,
         run.workflow = planner[p].workflow,
         planner' = [planner EXCEPT ![p] = run],
         workflows' = [workflows EXCEPT ![run.workflow] = run.ctx],
         \/ run.pc \in Executing /\ run.ctx.status \in Running
         \/ run.pc = "ended"
  PROVE  HeldInv'
<1>1. planner[p].workflow \in Workflows /\ Holds(p, planner[p].workflow)
  BY DEF TypeOK, PlannerState, Holds, Executing, Outside
<1>2. ASSUME NEW q \in Planners, q # p, NEW w \in Workflows, Holds(q, w)
      PROVE  w # planner[p].workflow /\ workflows'[w] = workflows[w]
  BY <1>1, <1>2 DEF HeldInv, PlanningExclusive, TypeOK
<1>3. \A q \in Planners : q # p => planner'[q] = planner[q]
  BY DEF TypeOK
<1>4. planner'[p] = run /\ workflows'[run.workflow] = run.ctx
  BY <1>1 DEF TypeOK
<1>5. ASSUME NEW q \in Planners, NEW w \in Workflows, Holds(q, w)'
      PROVE  Holds(q, w)
  BY <1>1, <1>3, <1>4, <1>5 DEF Holds, Outside
<1>6. PlanningExclusive'
  BY <1>5 DEF HeldInv, PlanningExclusive
<1>7. HeldMeansRunning'
  <2> SUFFICES ASSUME NEW q \in Planners, NEW w \in Workflows, Holds(q, w)'
               PROVE  workflows'[w].status \in Running
    BY DEF HeldMeansRunning
  <2>1. CASE q = p
    BY <2>1, <1>4 DEF Holds, Outside
  <2>2. CASE q # p
    BY <2>2, <1>2, <1>5 DEF HeldInv, HeldMeansRunning
  <2> QED
    BY <2>1, <2>2
<1>8. CopyCurrent'
  <2> SUFFICES ASSUME NEW q \in Planners, planner'[q].pc \in Executing
               PROVE  planner'[q].ctx = workflows'[planner'[q].workflow]
    BY DEF CopyCurrent
  <2>1. CASE q = p
    BY <2>1, <1>4
  <2>2. CASE q # p
    <3>1. planner[q].workflow \in Workflows /\ Holds(q, planner[q].workflow)
      BY <2>2, <1>3 DEF TypeOK, PlannerState, Holds, Executing, Outside
    <3> QED
      BY <2>2, <3>1, <1>2, <1>3 DEF HeldInv, CopyCurrent
  <2> QED
    BY <2>1, <2>2
<1> QED
  BY <1>6, <1>7, <1>8 DEF HeldInv

\* A run or request that moves on without writing the row.
LEMMA MoveHeld ==
  ASSUME TypeOK, HeldInv, NEW p \in Planners, NEW run \in PlannerState,
         run.workflow = planner[p].workflow,
         run.ctx = planner[p].ctx,
         planner' = [planner EXCEPT ![p] = run],
         workflows' = workflows,
         \/ run.pc \in Outside
         \/ run.pc \in Executing /\ planner[p].pc \in Executing
  PROVE  HeldInv'
<1>1. \A q \in Planners : q # p => planner'[q] = planner[q]
  BY DEF TypeOK
<1>2. planner'[p] = run
  BY DEF TypeOK
<1>3. ASSUME NEW q \in Planners, NEW w \in Workflows, Holds(q, w)'
      PROVE  Holds(q, w)
  BY <1>1, <1>2, <1>3 DEF Holds, Outside, Executing
<1>4. ASSUME NEW q \in Planners, planner'[q].pc \in Executing
      PROVE  /\ planner[q].pc \in Executing
             /\ planner'[q].ctx = planner[q].ctx
             /\ planner'[q].workflow = planner[q].workflow
  BY <1>1, <1>2, <1>4 DEF Outside, Executing
<1> QED
  BY <1>3, <1>4 DEF HeldInv, PlanningExclusive, HeldMeansRunning, CopyCurrent

LEMMA SaveRunHeld ==
  ASSUME TypeOK, HeldInv, NEW p \in Planners, NEW row \in WorkflowRow, NEW to,
         planner[p].pc \in Executing, SaveRun(p, to, row),
         to = "ended" \/ (to \in Executing /\ row.status \in Running)
  PROVE  HeldInv'
<1> DEFINE run == [planner[p] EXCEPT !.pc = to, !.ctx = row]
<1>1. run \in PlannerState /\ run.workflow = planner[p].workflow
  BY DEF TypeOK, PlannerState, Outside
<1>2. run.pc = to /\ run.ctx = row
  BY DEF TypeOK, PlannerState
<1>3. planner' = [planner EXCEPT ![p] = run]
  BY DEF SaveRun, TypeOK
<1>4. workflows' = [workflows EXCEPT ![run.workflow] = run.ctx]
  BY <1>1, <1>2 DEF SaveRun
<1> HIDE DEF run
<1> QED
  BY <1>1, <1>2, <1>3, <1>4, SaveHeld

LEMMA StepHeld ==
  ASSUME TypeOK, HeldInv, NEW p \in Planners, NEW from, NEW to, Step(p, from, to),
         to \in Outside \/ (from \in Executing /\ to \in Executing)
  PROVE  HeldInv'
<1> DEFINE run == [planner[p] EXCEPT !.pc = to]
<1>1. run \in PlannerState /\ run.workflow = planner[p].workflow
  BY DEF TypeOK, PlannerState
<1>2. run.pc = to /\ run.ctx = planner[p].ctx
  BY DEF TypeOK, PlannerState
<1>3. planner' = [planner EXCEPT ![p] = run] /\ workflows' = workflows
  BY DEF Step, TypeOK
<1>4. planner[p].pc = from
  BY DEF Step
<1> HIDE DEF run
<1> QED
  BY <1>1, <1>2, <1>3, <1>4, MoveHeld

LEMMA ClaimHeld ==
  ASSUME TypeOK, HeldInv, NEW p \in Planners, ClaimPlanning(p)
  PROVE  HeldInv'
<1> DEFINE w == planner[p].workflow
<1>1. w \in Workflows
  BY DEF TypeOK, PlannerState
<1>2. \A q \in Planners : ~Holds(q, w)
  BY <1>1 DEF ClaimPlanning, Claimable, HeldInv, HeldMeansRunning, Running, Stages
<1>3. workflows'[w].status = "PLANNING_COURSE"
  BY <1>1 DEF ClaimPlanning, TypeOK, WorkflowRow
<1>4. \A v \in Workflows : v # w => workflows'[v] = workflows[v]
  BY DEF ClaimPlanning, TypeOK
<1>5. \A q \in Planners : q # p => planner'[q] = planner[q]
  BY DEF ClaimPlanning, TypeOK
<1>6. planner'[p].pc = "claimed" /\ planner'[p].workflow = w
  BY DEF ClaimPlanning, TypeOK, PlannerState
<1> HIDE DEF w
<1>7. ASSUME NEW q \in Planners, NEW v \in Workflows, Holds(q, v)'
      PROVE  IF q = p THEN v = w ELSE v # w /\ Holds(q, v)
  BY <1>2, <1>5, <1>6, <1>7 DEF Holds, Outside
<1>8. ASSUME NEW q \in Planners, planner'[q].pc \in Executing
      PROVE  /\ q # p
             /\ planner'[q] = planner[q]
             /\ workflows'[planner[q].workflow] = workflows[planner[q].workflow]
  <2>1. q # p
    BY <1>6, <1>8 DEF Executing
  <2>2. planner[q].workflow \in Workflows /\ Holds(q, planner[q].workflow)
    BY <2>1, <1>5, <1>8 DEF TypeOK, PlannerState, Holds, Executing, Outside
  <2> QED
    BY <2>1, <2>2, <1>2, <1>4, <1>5
<1>9. PlanningExclusive' /\ HeldMeansRunning'
  BY <1>3, <1>4, <1>7
     DEF HeldInv, PlanningExclusive, HeldMeansRunning, Running, Stages
<1>10. CopyCurrent'
  BY <1>8 DEF HeldInv, CopyCurrent
<1> QED
  BY <1>9, <1>10 DEF HeldInv

LEMMA LoadHeld ==
  ASSUME TypeOK, HeldInv, NEW p \in Planners, LoadWorkflow(p)
  PROVE  HeldInv'
<1>1. \A q \in Planners : q # p => planner'[q] = planner[q]
  BY DEF LoadWorkflow, TypeOK
<1>2. /\ planner'[p].pc = "loaded"
      /\ planner'[p].workflow = planner[p].workflow
      /\ planner'[p].ctx = workflows[planner[p].workflow]
      /\ planner[p].pc = "claimed"
      /\ workflows' = workflows
  BY DEF LoadWorkflow, TypeOK, PlannerState
<1>3. ASSUME NEW q \in Planners, NEW w \in Workflows, Holds(q, w)'
      PROVE  Holds(q, w)
  BY <1>1, <1>2, <1>3 DEF Holds, Outside
<1>4. PlanningExclusive' /\ HeldMeansRunning'
  BY <1>2, <1>3 DEF HeldInv, PlanningExclusive, HeldMeansRunning
<1>5. CopyCurrent'
  BY <1>1, <1>2 DEF HeldInv, CopyCurrent
<1> QED
  BY <1>4, <1>5 DEF HeldInv

LEMMA RunHeld ==
  ASSUME TypeOK, HeldInv, NEW p \in Planners, RunStep(p)
  PROVE  HeldInv'
<1>0. planner[p] \in PlannerState /\ planner[p].ctx \in WorkflowRow
  BY DEF TypeOK, PlannerState
<1>1. CASE LoadWorkflow(p)
  BY <1>1, LoadHeld
<1>2. CASE PlannerUnavailable(p) \/ PlanningFails(p) \/ VersionRefused(p)
  BY <1>0, <1>2, RowOperations, SaveRunHeld
     DEF PlannerUnavailable, PlanningFails, VersionRefused, Executing
<1>3. CASE BeginPlanningRun(p)
  <2>1. BeginRun(planner[p].ctx, 2).status = planner[p].ctx.status
    BY <1>0 DEF BeginRun, WorkflowRow
  <2>2. BeginRun(planner[p].ctx, 2) \in WorkflowRow
    BY <1>0, RowOperations DEF MaxStages
  <2> QED
    BY <1>0, <1>3, <2>1, <2>2, CopyRunning, SaveRunHeld
       DEF BeginPlanningRun, Executing
<1>4. CASE EnterPlanning(p) \/ EnterValidating(p)
  <2>1. \A stage \in Stages : /\ EnterStage(planner[p].ctx, stage) \in WorkflowRow
                             /\ EnterStage(planner[p].ctx, stage).status = stage
    BY <1>0, RowOperations DEF EnterStage, WorkflowRow
  <2> QED
    BY <1>4, <2>1, SaveRunHeld
       DEF EnterPlanning, EnterValidating, Executing, Stages, Running
<1>5. CASE PreparePlanning(p) \/ StoreConflict(p)
  BY <1>5, StepHeld DEF PreparePlanning, StoreConflict, Executing, Outside
<1>6. CASE RetryFix(p)
  <2>1. MarkRetrying(planner[p].ctx).status = "RETRYING"
    BY <1>0 DEF MarkRetrying, WorkflowRow
  <2> QED
    BY <1>0, <1>6, <2>1, RowOperations, SaveRunHeld DEF RetryFix, Executing, Running
<1>7. CASE NextAttempt(p)
  <2> DEFINE row == ResumeStage(planner[p].ctx, "PLANNING_COURSE")
             run == [planner[p] EXCEPT !.pc = "generating", !.ctx = row, !.attempt = @ + 1]
  <2>1. planner[p].pc \in Executing
    BY <1>7 DEF NextAttempt, Executing
  <2>2. row \in WorkflowRow
    BY <1>0, RowOperations DEF Stages
  <2>3. row.status \in Running
    BY <1>0, <2>1, CopyRunning DEF ResumeStage, EnterStage, WorkflowRow, Running, Stages
  <2>4. planner' = [planner EXCEPT ![p] = run]
    BY <1>7 DEF NextAttempt, TypeOK
  <2>5. workflows' = [workflows EXCEPT ![planner[p].workflow] = row]
    BY <1>7 DEF NextAttempt
  <2> HIDE DEF row
  <2> DEFINE moved == [planner[p] EXCEPT !.pc = "generating", !.ctx = row]
  <2>8. /\ moved \in PlannerState
        /\ moved.workflow = planner[p].workflow
        /\ moved.pc = "generating"
        /\ moved.ctx = row
    BY <1>0, <2>2 DEF PlannerState, Executing
  <2>9. run = [moved EXCEPT !.attempt = moved.attempt + 1]
    BY <1>0 DEF PlannerState
  <2> HIDE DEF run, moved
  <2>6. /\ run \in PlannerState
        /\ run.workflow = planner[p].workflow
        /\ run.pc = "generating"
        /\ run.ctx = row
    BY <2>8, <2>9 DEF PlannerState
  <2>7. run.pc \in Executing
    BY <2>6 DEF Executing
  <2> QED
    BY <2>1, <2>3, <2>4, <2>5, <2>6, <2>7, SaveHeld
<1>8. CASE PlanGenerated(p) \/ FinishValidating(p)
  <2>1. CompleteStage(planner[p].ctx).status = planner[p].ctx.status
    BY <1>0 DEF CompleteStage, WorkflowRow
  <2> QED
    BY <1>0, <1>8, <2>1, CopyRunning, RowOperations, SaveRunHeld
       DEF PlanGenerated, FinishValidating, Executing
<1>9. CASE NumberVersion(p)
  <2>1. PICK v : planner' = [planner EXCEPT ![p].pc = "storing", ![p].version = v]
    BY <1>9 DEF NumberVersion
  <2>2. /\ planner'[p].pc = "storing"
        /\ planner'[p].workflow = planner[p].workflow
        /\ planner'[p].ctx = planner[p].ctx
        /\ planner[p].pc = "validating"
        /\ \A q \in Planners : q # p => planner'[q] = planner[q]
        /\ workflows' = workflows
    BY <1>0, <1>9, <2>1 DEF NumberVersion, TypeOK, PlannerState
  <2> QED
    BY <2>2 DEF HeldInv, PlanningExclusive, HeldMeansRunning, CopyCurrent, Holds,
                Outside, Executing
<1>10. CASE StoreVersion(p)
  <2>1. /\ planner'[p].pc = "stored"
        /\ planner'[p].workflow = planner[p].workflow
        /\ planner'[p].ctx = planner[p].ctx
        /\ planner[p].pc = "storing"
        /\ \A q \in Planners : q # p => planner'[q] = planner[q]
        /\ workflows' = workflows
    BY <1>0, <1>10 DEF StoreVersion, TypeOK, PlannerState
  <2> QED
    BY <2>1 DEF HeldInv, PlanningExclusive, HeldMeansRunning, CopyCurrent, Holds,
                Outside, Executing
<1>11. CASE AwaitReview(p)
  BY <1>0, <1>11, RowOperations, SaveRunHeld DEF AwaitReview, Executing
<1> QED
  BY <1>1, <1>2, <1>3, <1>4, <1>5, <1>6, <1>7, <1>8, <1>9, <1>10, <1>11 DEF RunStep

LEMMA HeldNext ==
  ASSUME Updates = {}, TypeOK, HeldInv, [Next]_vars
  PROVE  HeldInv'
<1>1. ASSUME NEW p \in Planners, RequestStep(p) PROVE HeldInv'
  <2>1. CASE StartPlanning(p) \/ ClaimRefused(p)
    BY <2>1, StepHeld DEF StartPlanning, ClaimRefused, Outside
  <2>2. CASE ClaimPlanning(p)
    BY <2>2, ClaimHeld
  <2> QED
    BY <1>1, <2>1, <2>2 DEF RequestStep
<1>2. ASSUME NEW p \in Planners, RunStep(p) PROVE HeldInv'
  BY <1>2, RunHeld
<1>3. ASSUME UNCHANGED <<workflows, planner>> PROVE HeldInv'
  BY <1>3 DEF HeldInv, PlanningExclusive, HeldMeansRunning, CopyCurrent, Holds
<1>4. ASSUME NEW r \in Reviews, ReviewStep(r) PROVE HeldInv'
  BY <1>3, <1>4 DEF ReviewStep, AdmitReview, ReviewLatest, ReviewRefused, SetStatus,
                    ApprovalConflict
<1>5. ASSUME NEW w \in Workflows, AnalysisChanges(w) PROVE HeldInv'
  BY <1>3, <1>5 DEF AnalysisChanges
<1>6. CASE Crash
  <2>1. \A p \in Planners : planner'[p].pc \in {"idle", "ended"}
    BY <1>6 DEF Crash, TypeOK, PlannerState
  <2> QED
    BY <2>1 DEF HeldInv, PlanningExclusive, HeldMeansRunning, CopyCurrent, Holds,
                Outside, Executing
<1>7. CASE UNCHANGED vars
  BY <1>3, <1>7 DEF vars
<1> QED
  BY <1>1, <1>2, <1>4, <1>5, <1>6, <1>7 DEF Next

\* Without changes of the Moodle target the conditional UPDATE of
\* claim_planning keeps a second run out, a held workflow says that it is
\* running, and no run ever saves a stale copy of the row.
THEOREM PlanningIsExclusive ==
  ASSUME Updates = {}
  PROVE  Spec => [](PlanningExclusive /\ HeldMeansRunning /\ CopyCurrent)
<1>1. Init => TypeOK /\ HeldInv
  BY TypeInit, HeldInit
<1>2. TypeOK /\ HeldInv /\ [Next]_vars => (TypeOK /\ HeldInv)'
  BY TypeNext, HeldNext
<1>3. HeldInv => PlanningExclusive /\ HeldMeansRunning /\ CopyCurrent
  BY DEF HeldInv
<1> QED
  BY <1>1, <1>2, <1>3, PTL DEF Spec

-----------------------------------------------------------------------------
(* The versions.  Nothing is assumed about the requests here: the claim    *)
(* may fail as a lock and the versions stay in order, because what a run   *)
(* and a review carry from their check to their write stays true of the    *)
(* table.  The number a run is about to store has all smaller ones below   *)
(* it (NumbersReached), and the version a review is about to decide on is  *)
(* there and may be decided that way (DecisionsFounded).                   *)

NumbersReached ==
  \A p \in Planners : planner[p].pc = "storing" =>
    \A v \in 1 .. planner[p].version - 1 : VersionTaken(planner[p].workflow, v)

DecisionsFounded ==
  \A r \in Reviews : review[r].pc = "decided" =>
    \E plan \in plans[review[r].workflow] :
      /\ plan.version = review[r].version
      /\ review[r].decision = "APPROVED" => plan.passed

VersionsInv ==
  /\ VersionsNumbered
  /\ OneApproved
  /\ OnlyPassedApproved
  /\ NumbersReached
  /\ DecisionsFounded

LEMMA VersionsInit == Init => VersionsInv
BY DEF Init, VersionsInv, VersionsNumbered, OneApproved, OnlyPassedApproved,
       NumbersReached, DecisionsFounded

\* What set_status does to the versions of a workflow.
LEMMA DecideVersions ==
  ASSUME NEW rows \in SUBSET CoursePlan, NEW v, NEW decision \in CoursePlanStatus
  PROVE  /\ \A plan \in rows : \E q \in Decide(rows, v, decision) :
              /\ q.version = plan.version
              /\ q.passed = plan.passed
              /\ q = plan \/ q.status = decision
         /\ \A q \in Decide(rows, v, decision) : \E plan \in rows :
              /\ q.version = plan.version
              /\ q.passed = plan.passed
              /\ plan.version = v => q.status = decision
              /\ plan.version # v => q = plan
<1>1. ASSUME NEW plan \in rows
      PROVE  \E q \in Decide(rows, v, decision) :
               /\ q.version = plan.version
               /\ q.passed = plan.passed
               /\ q = plan \/ q.status = decision
  <2>1. CASE plan.version = v
    <3> DEFINE q == [plan EXCEPT !.status = decision]
    <3>1. q \in Decide(rows, v, decision)
      BY <2>1 DEF Decide
    <3>2. q.version = plan.version /\ q.passed = plan.passed /\ q.status = decision
      BY DEF CoursePlan
    <3> QED
      BY <3>1, <3>2
  <2>2. CASE plan.version # v
    BY <2>2 DEF Decide
  <2> QED
    BY <2>1, <2>2
<1>2. ASSUME NEW q \in Decide(rows, v, decision)
      PROVE  \E plan \in rows :
               /\ q.version = plan.version
               /\ q.passed = plan.passed
               /\ plan.version = v => q.status = decision
               /\ plan.version # v => q = plan
  <2>1. PICK plan \in rows :
          q = IF plan.version = v THEN [plan EXCEPT !.status = decision] ELSE plan
    BY DEF Decide
  <2>2. CASE plan.version = v
    BY <2>1, <2>2 DEF CoursePlan
  <2>3. CASE plan.version # v
    BY <2>1, <2>3
  <2> QED
    BY <2>2, <2>3
<1> QED
  BY <1>1, <1>2

\* A step that leaves the versions alone, and starts no store and no decision.
LEMMA VersionsUntouched ==
  ASSUME VersionsInv, UNCHANGED plans,
         \A p \in Planners : planner'[p].pc = "storing" => planner'[p] = planner[p],
         \A r \in Reviews : review'[r].pc = "decided" => review'[r] = review[r]
  PROVE  VersionsInv'
<1>1. NumbersReached'
  BY DEF VersionsInv, NumbersReached, VersionTaken
<1>2. DecisionsFounded'
  BY DEF VersionsInv, DecisionsFounded
<1>3. VersionsNumbered' /\ OneApproved' /\ OnlyPassedApproved'
  BY DEF VersionsInv, VersionsNumbered, OneApproved, OnlyPassedApproved, VersionTaken
<1> QED
  BY <1>1, <1>2, <1>3 DEF VersionsInv

LEMMA StoreVersions ==
  ASSUME TypeOK, VersionsInv, NEW p \in Planners, StoreVersion(p)
  PROVE  VersionsInv'
<1> DEFINE w == planner[p].workflow
           n == planner[p].version
<1>1. w \in Workflows /\ n \in Nat \ {0} /\ plans[w] \in SUBSET CoursePlan
  BY DEF TypeOK, PlannerState
<1>2. PICK passed \in BOOLEAN :
        plans' = [plans EXCEPT ![w] =
                    @ \cup {[version |-> n, status |-> "DRAFT", passed |-> passed]}]
  BY DEF StoreVersion
<1> DEFINE new == [version |-> n, status |-> "DRAFT", passed |-> passed]
<1>3. /\ plans'[w] = plans[w] \cup {new}
      /\ \A v \in Workflows : v # w => plans'[v] = plans[v]
  BY <1>1, <1>2 DEF TypeOK
<1>4. new.version = n /\ new.status = "DRAFT"
  OBVIOUS
<1>5. \A plan \in plans[w] : plan.version # n
  BY DEF StoreVersion, VersionTaken
<1>6. \A v \in 1 .. n - 1 : \E plan \in plans[w] : plan.version = v
  BY DEF StoreVersion, VersionsInv, NumbersReached, VersionTaken
<1>7. review' = review
  BY DEF StoreVersion
<1>8. \A q \in Planners : planner'[q].pc = "storing" => planner'[q] = planner[q]
  BY DEF StoreVersion, TypeOK, PlannerState
<1> HIDE DEF w, n, new
<1>9. \A v \in Workflows : \A plan \in plans[v] : plan \in plans'[v]
  BY <1>3
<1>10. VersionsNumbered'
  <2> SUFFICES ASSUME NEW u \in Workflows, NEW plan \in plans'[u]
               PROVE  /\ \A other \in plans'[u] : other.version = plan.version => other = plan
                      /\ \A v \in 1 .. plan.version : \E q \in plans'[u] : q.version = v
    BY DEF VersionsNumbered, VersionTaken
  <2>1. CASE u # w
    BY <2>1, <1>3 DEF VersionsInv, VersionsNumbered, VersionTaken
  <2>2. CASE u = w /\ plan \in plans[w]
    <3>1. \A other \in plans[w] : other.version = plan.version => other = plan
      BY <1>1, <2>2 DEF VersionsInv, VersionsNumbered
    <3>2. \A v \in 1 .. plan.version : \E q \in plans[w] : q.version = v
      BY <1>1, <2>2 DEF VersionsInv, VersionsNumbered, VersionTaken
    <3> QED
      BY <2>2, <3>1, <3>2, <1>3, <1>4, <1>5
  <2>3. CASE u = w /\ plan = new
    <3>1. \A other \in plans'[w] : other.version = n => other = new
      BY <1>3, <1>5
    <3>2. \A v \in 1 .. n : v \in 1 .. n - 1 \/ v = n
      BY <1>1
    <3>3. \A v \in 1 .. n : \E q \in plans'[w] : q.version = v
      BY <1>3, <1>4, <1>6, <3>2
    <3> QED
      BY <2>3, <3>1, <3>3, <1>4
  <2> QED
    BY <2>1, <2>2, <2>3, <1>3
<1>11. OneApproved' /\ OnlyPassedApproved'
  BY <1>3, <1>4 DEF VersionsInv, OneApproved, OnlyPassedApproved
<1>12. NumbersReached'
  <2> SUFFICES ASSUME NEW q \in Planners, planner'[q].pc = "storing",
                      NEW v \in 1 .. planner'[q].version - 1
               PROVE  \E plan \in plans'[planner'[q].workflow] : plan.version = v
    BY DEF NumbersReached, VersionTaken
  <2>1. planner'[q] = planner[q] /\ planner[q].workflow \in Workflows
    BY <1>8 DEF TypeOK, PlannerState
  <2> QED
    BY <2>1, <1>9 DEF VersionsInv, NumbersReached, VersionTaken
<1>13. DecisionsFounded'
  <2> SUFFICES ASSUME NEW r \in Reviews, review[r].pc = "decided"
               PROVE  \E plan \in plans'[review[r].workflow] :
                        /\ plan.version = review[r].version
                        /\ review[r].decision = "APPROVED" => plan.passed
    BY <1>7 DEF DecisionsFounded
  <2>1. review[r].workflow \in Workflows
    BY DEF TypeOK, ReviewState
  <2> QED
    BY <2>1, <1>9 DEF VersionsInv, DecisionsFounded
<1> QED
  BY <1>10, <1>11, <1>12, <1>13 DEF VersionsInv

LEMMA DecideKeepsVersions ==
  ASSUME TypeOK, TypeOK', VersionsInv, NEW r \in Reviews, SetStatus(r)
  PROVE  VersionsInv'
<1> DEFINE w == review[r].workflow
           n == review[r].version
           d == review[r].decision
<1>1. /\ w \in Workflows /\ d \in {"APPROVED", "REJECTED"}
      /\ plans[w] \in SUBSET CoursePlan
      /\ review[r].pc = "decided"
  BY DEF TypeOK, ReviewState, SetStatus
<1>2. /\ plans'[w] = Decide(plans[w], n, d)
      /\ \A v \in Workflows : v # w => plans'[v] = plans[v]
  BY <1>1 DEF SetStatus, TypeOK
<1> HIDE DEF w, n, d
<1>0. d \in CoursePlanStatus
  BY <1>1 DEF CoursePlanStatus
<1>3. \A plan \in plans[w] : \E q \in plans'[w] :
        q.version = plan.version /\ q.passed = plan.passed
  <2>1. \A plan \in plans[w] : \E q \in Decide(plans[w], n, d) :
          q.version = plan.version /\ q.passed = plan.passed
    BY <1>0, <1>1, DecideVersions
  <2> QED
    BY <2>1, <1>2
<1>4. ASSUME NEW q \in plans'[w]
      PROVE  \E plan \in plans[w] :
               /\ q.version = plan.version
               /\ q.passed = plan.passed
               /\ plan.version = n => q.status = d
               /\ plan.version # n => q = plan
  <2>1. q \in Decide(plans[w], n, d)
    BY <1>2
  <2> QED
    BY <2>1, <1>0, <1>1, DecideVersions
<1>5. PICK chosen \in plans[w] :
        chosen.version = n /\ (d = "APPROVED" => chosen.passed)
  BY <1>1 DEF VersionsInv, DecisionsFounded, w, n, d
<1>6. \A a, b \in plans[w] : a.version = b.version => a = b
  BY <1>1 DEF VersionsInv, VersionsNumbered
<1>7. d = "APPROVED" => \A plan \in plans[w] : plan.status = "APPROVED" => plan.version = n
  BY DEF SetStatus, OtherApproved, w, n, d
<1>8. /\ planner' = planner
      /\ \A s \in Reviews : review'[s].pc = "decided" => review'[s] = review[s]
  BY DEF SetStatus, TypeOK, ReviewState
<1>9. \A u \in Workflows : \A plan \in plans[u] : \E q \in plans'[u] :
        q.version = plan.version /\ q.passed = plan.passed
  BY <1>2, <1>3
<1>10. VersionsNumbered'
  <2> SUFFICES ASSUME NEW u \in Workflows, NEW q \in plans'[u]
               PROVE  /\ \A other \in plans'[u] : other.version = q.version => other = q
                      /\ \A v \in 1 .. q.version : \E plan \in plans'[u] : plan.version = v
    BY DEF VersionsNumbered, VersionTaken
  <2>1. PICK plan \in plans[u] : plan.version = q.version
    BY <1>2, <1>4
  <2>2. \A v \in 1 .. q.version : \E old \in plans[u] : old.version = v
    BY <2>1 DEF VersionsInv, VersionsNumbered, VersionTaken
  <2>3. \A v \in 1 .. q.version : \E old \in plans'[u] : old.version = v
    BY <2>2, <1>9
  <2>4. ASSUME NEW other \in plans'[u], other.version = q.version
        PROVE  other = q
    <3>1. CASE u # w
      BY <3>1, <2>4, <1>2 DEF VersionsInv, VersionsNumbered
    <3>2. CASE u = w
      <4>1. other.passed = q.passed /\ (other.status = q.status \/ other = q)
        BY <3>2, <2>4, <1>4, <1>6
      <4>2. other \in CoursePlan /\ q \in CoursePlan
        BY DEF TypeOK
      <4> QED
        BY <2>4, <4>1, <4>2 DEF CoursePlan
    <3> QED
      BY <3>1, <3>2
  <2> QED
    BY <2>3, <2>4
<1>11. OneApproved'
  <2> SUFFICES ASSUME NEW u \in Workflows, NEW a \in plans'[u], NEW b \in plans'[u],
                      a.status = "APPROVED", b.status = "APPROVED"
               PROVE  a = b
    BY DEF OneApproved
  <2>1. CASE u # w
    BY <2>1, <1>2 DEF VersionsInv, OneApproved
  <2>2. CASE u = w /\ d = "APPROVED"
    <3>1. a.version = n /\ b.version = n
      BY <2>2, <1>4, <1>7
    <3> QED
      BY <2>2, <3>1, <1>10 DEF VersionsNumbered
  <2>3. CASE u = w /\ d # "APPROVED"
    <3>1. a \in plans[w] /\ b \in plans[w]
      BY <2>3, <1>4
    <3> QED
      BY <3>1, <1>1 DEF VersionsInv, OneApproved
  <2> QED
    BY <2>1, <2>2, <2>3
<1>12. OnlyPassedApproved'
  <2> SUFFICES ASSUME NEW u \in Workflows, NEW q \in plans'[u], q.status = "APPROVED"
               PROVE  q.passed
    BY DEF OnlyPassedApproved
  <2>1. CASE u # w
    BY <2>1, <1>2 DEF VersionsInv, OnlyPassedApproved
  <2>2. CASE u = w
    <3>1. PICK plan \in plans[w] :
            /\ q.version = plan.version
            /\ q.passed = plan.passed
            /\ plan.version = n => q.status = d
            /\ plan.version # n => q = plan
      BY <2>2, <1>4
    <3>2. CASE plan.version = n
      BY <3>1, <3>2, <1>5, <1>6
    <3>3. CASE plan.version # n
      BY <3>1, <3>3, <1>1 DEF VersionsInv, OnlyPassedApproved
    <3> QED
      BY <3>2, <3>3
  <2> QED
    BY <2>1, <2>2
<1>13. NumbersReached'
  <2> SUFFICES ASSUME NEW q \in Planners, planner[q].pc = "storing",
                      NEW v \in 1 .. planner[q].version - 1
               PROVE  \E plan \in plans'[planner[q].workflow] : plan.version = v
    BY <1>8 DEF NumbersReached, VersionTaken
  <2>1. planner[q].workflow \in Workflows
    BY DEF TypeOK, PlannerState
  <2> QED
    BY <2>1, <1>9 DEF VersionsInv, NumbersReached, VersionTaken
<1>14. DecisionsFounded'
  <2> SUFFICES ASSUME NEW s \in Reviews, review'[s].pc = "decided"
               PROVE  \E plan \in plans'[review'[s].workflow] :
                        /\ plan.version = review'[s].version
                        /\ review'[s].decision = "APPROVED" => plan.passed
    BY DEF DecisionsFounded
  <2>1. review'[s] = review[s] /\ review[s].workflow \in Workflows
    BY <1>8 DEF TypeOK, ReviewState
  <2> QED
    BY <2>1, <1>9 DEF VersionsInv, DecisionsFounded
<1> QED
  BY <1>10, <1>11, <1>12, <1>13, <1>14 DEF VersionsInv

LEMMA VersionsNext ==
  ASSUME TypeOK, TypeOK', VersionsInv, [Next]_vars
  PROVE  VersionsInv'
<1>1. ASSUME NEW p \in Planners, RequestStep(p) \/ RunStep(p) PROVE VersionsInv'
  <2>1. CASE StoreVersion(p)
    BY <2>1, StoreVersions
  <2>2. CASE NumberVersion(p)
    <3> DEFINE w == planner[p].workflow
    <3>1. PICK n : /\ IsNextVersion(n, plans[w])
                   /\ planner' = [planner EXCEPT ![p].pc = "storing", ![p].version = n]
      BY <2>2 DEF NumberVersion
    <3>2. plans' = plans /\ review' = review
      BY <2>2 DEF NumberVersion
    <3>3. /\ planner'[p].version = n
          /\ planner'[p].workflow = w
          /\ \A q \in Planners : q # p => planner'[q] = planner[q]
      BY <3>1 DEF TypeOK, PlannerState
    <3>4. w \in Workflows /\ plans[w] \in SUBSET CoursePlan
      BY DEF TypeOK, PlannerState
    <3> HIDE DEF w
    <3>5. ASSUME NEW v \in 1 .. n - 1 PROVE \E plan \in plans[w] : plan.version = v
      <4>1. CASE plans[w] = {} /\ n = 1
        BY <4>1
      <4>2. CASE \E plan \in plans[w] : IsLatest(plan, plans[w]) /\ n = plan.version + 1
        <5>1. PICK plan \in plans[w] : n = plan.version + 1
          BY <4>2
        <5>2. plan.version \in Nat
          BY <3>4 DEF CoursePlan
        <5>3. v \in 1 .. plan.version
          BY <5>1, <5>2
        <5> QED
          BY <3>4, <5>3 DEF VersionsInv, VersionsNumbered, VersionTaken
      <4> QED
        BY <3>1, <4>1, <4>2 DEF IsNextVersion
    <3>6. NumbersReached'
      BY <3>2, <3>3, <3>5 DEF VersionsInv, NumbersReached, VersionTaken
    <3>7. VersionsNumbered' /\ OneApproved' /\ OnlyPassedApproved' /\ DecisionsFounded'
      BY <3>2 DEF VersionsInv, VersionsNumbered, OneApproved, OnlyPassedApproved,
                  DecisionsFounded, VersionTaken
    <3> QED
      BY <3>6, <3>7 DEF VersionsInv
  <2>3. CASE UNCHANGED <<plans, review>> /\ planner'[p].pc # "storing"
                                        /\ \A q \in Planners : q # p => planner'[q] = planner[q]
    BY <2>3, VersionsUntouched
  <2>4. CASE RequestStep(p)
    BY <2>3, <2>4 DEF RequestStep, StartPlanning, ClaimPlanning, ClaimRefused, Step,
                      TypeOK, PlannerState
  <2>5. CASE PreparePlanning(p) \/ StoreConflict(p)
    BY <2>3, <2>5 DEF PreparePlanning, StoreConflict, Step, TypeOK, PlannerState
  <2>6. ASSUME NEW to, NEW row, SaveRun(p, to, row), to # "storing" PROVE VersionsInv'
    BY <2>3, <2>6 DEF SaveRun, TypeOK, PlannerState
  <2>7. CASE PlannerUnavailable(p) \/ BeginPlanningRun(p) \/ EnterPlanning(p)
    BY <2>6, <2>7 DEF PlannerUnavailable, BeginPlanningRun, EnterPlanning
  <2>8. CASE PlanningFails(p) \/ RetryFix(p) \/ PlanGenerated(p)
    BY <2>6, <2>8 DEF PlanningFails, RetryFix, PlanGenerated
  <2>9. CASE EnterValidating(p) \/ VersionRefused(p)
    BY <2>6, <2>9 DEF EnterValidating, VersionRefused
  <2>10. CASE FinishValidating(p) \/ AwaitReview(p)
    BY <2>6, <2>10 DEF FinishValidating, AwaitReview
  <2>11. CASE LoadWorkflow(p) \/ NextAttempt(p)
    BY <2>3, <2>11 DEF LoadWorkflow, NextAttempt, TypeOK, PlannerState
  <2> QED
    BY <1>1, <2>1, <2>2, <2>4, <2>5, <2>7, <2>8, <2>9, <2>10, <2>11 DEF RunStep
<1>2. ASSUME NEW r \in Reviews, ReviewStep(r) PROVE VersionsInv'
  <2>1. CASE SetStatus(r)
    BY <2>1, DecideKeepsVersions
  <2>2. CASE ReviewLatest(r)
    <3>1. PICK plan \in plans[review[r].workflow] :
            /\ Reviewable(plan, plans[review[r].workflow], review[r].decision)
            /\ review' = [review EXCEPT ![r].pc = "decided", ![r].version = plan.version]
      BY <2>2 DEF ReviewLatest
    <3>2. plans' = plans /\ planner' = planner
      BY <2>2 DEF ReviewLatest
    <3>3. /\ review'[r].workflow = review[r].workflow
          /\ review'[r].decision = review[r].decision
          /\ review'[r].version = plan.version
          /\ \A s \in Reviews : s # r => review'[s] = review[s]
      BY <3>1 DEF TypeOK, ReviewState
    <3>4. DecisionsFounded'
      BY <3>1, <3>2, <3>3 DEF VersionsInv, DecisionsFounded, Reviewable
    <3>5. VersionsNumbered' /\ OneApproved' /\ OnlyPassedApproved' /\ NumbersReached'
      BY <3>2 DEF VersionsInv, VersionsNumbered, OneApproved, OnlyPassedApproved,
                  NumbersReached, VersionTaken
    <3> QED
      BY <3>4, <3>5 DEF VersionsInv
  <2>3. CASE AdmitReview(r) \/ ReviewRefused(r) \/ ApprovalConflict(r)
    <3>1. /\ UNCHANGED <<plans, planner>>
          /\ review'[r].pc # "decided"
          /\ \A s \in Reviews : s # r => review'[s] = review[s]
      BY <2>3 DEF AdmitReview, ReviewRefused, ApprovalConflict, TypeOK, ReviewState
    <3> QED
      BY <3>1, VersionsUntouched
  <2> QED
    BY <1>2, <2>1, <2>2, <2>3 DEF ReviewStep
<1>3. ASSUME UNCHANGED <<plans, planner, review>> PROVE VersionsInv'
  BY <1>3, VersionsUntouched
<1>4. ASSUME NEW u \in Updates, UpdateStep(u) PROVE VersionsInv'
  BY <1>3, <1>4 DEF UpdateStep, ReadRow, WriteTarget
<1>5. ASSUME NEW w \in Workflows, AnalysisChanges(w) PROVE VersionsInv'
  BY <1>3, <1>5 DEF AnalysisChanges
<1>6. CASE Crash
  <2>1. /\ UNCHANGED plans
        /\ \A p \in Planners : planner'[p].pc # "storing"
        /\ \A r \in Reviews : review'[r].pc # "decided"
    BY <1>6 DEF Crash, TypeOK, PlannerState, ReviewState
  <2> QED
    BY <2>1, VersionsUntouched
<1>7. CASE UNCHANGED vars
  BY <1>3, <1>7 DEF vars
<1> QED
  BY <1>1, <1>2, <1>4, <1>5, <1>6, <1>7 DEF Next

\* However requests, runs, lost locks and crashes interleave, the versions of
\* a workflow are numbered without gaps or duplicates, at most one of them is
\* approved, and only one that passed the validation.
THEOREM VersionsInOrder ==
  Spec => [](VersionsNumbered /\ OneApproved /\ OnlyPassedApproved)
<1>1. Init => TypeOK /\ VersionsInv
  BY TypeInit, VersionsInit
<1>2. TypeOK /\ VersionsInv /\ [Next]_vars => (TypeOK /\ VersionsInv)'
  BY TypeNext, VersionsNext
<1>3. VersionsInv => VersionsNumbered /\ OneApproved /\ OnlyPassedApproved
  BY DEF VersionsInv
<1> QED
  BY <1>1, <1>2, <1>3, PTL DEF Spec

\* Only a store and a decision change the versions.
LEMMA PlansStep ==
  ASSUME [Next]_vars
  PROVE  \/ plans' = plans
         \/ \E p \in Planners : StoreVersion(p)
         \/ \E r \in Reviews : SetStatus(r)
<1>1. ASSUME NEW p \in Planners, RequestStep(p) PROVE plans' = plans
  BY <1>1 DEF RequestStep, StartPlanning, ClaimPlanning, ClaimRefused, Step
<1>2. ASSUME NEW p \in Planners, RunStep(p), ~StoreVersion(p) PROVE plans' = plans
  BY <1>2 DEF RunStep, LoadWorkflow, PlannerUnavailable, BeginPlanningRun, EnterPlanning,
              PreparePlanning, PlanningFails, RetryFix, NextAttempt, PlanGenerated,
              EnterValidating, VersionRefused, NumberVersion, StoreConflict,
              FinishValidating, AwaitReview, Step, SaveRun
<1>3. ASSUME NEW r \in Reviews, ReviewStep(r), ~SetStatus(r) PROVE plans' = plans
  BY <1>3 DEF ReviewStep, AdmitReview, ReviewLatest, ReviewRefused, ApprovalConflict
<1>4. ASSUME NEW u \in Updates, UpdateStep(u) PROVE plans' = plans
  BY <1>4 DEF UpdateStep, ReadRow, WriteTarget
<1>5. ASSUME NEW w \in Workflows, AnalysisChanges(w) PROVE plans' = plans
  BY <1>5 DEF AnalysisChanges
<1>6. Crash \/ UNCHANGED vars => plans' = plans
  BY DEF Crash, vars
<1> QED
  BY <1>1, <1>2, <1>3, <1>4, <1>5, <1>6 DEF Next

\* A stored version stays what it is but for the instructor's decision on it.
THEOREM HistoryIsKept == Spec => HistoryKept
<1> DEFINE Kept == \A w \in Workflows : \A plan \in plans[w] : \E later \in plans'[w] :
                     /\ later.version = plan.version
                     /\ later.passed = plan.passed
                     /\ later.status = "DRAFT" => plan.status = "DRAFT"
<1>1. TypeOK /\ [Next]_vars => [Kept]_vars
  <2> SUFFICES ASSUME TypeOK, [Next]_vars PROVE Kept
    OBVIOUS
  <2>1. CASE plans' = plans
    BY <2>1
  <2>2. ASSUME NEW p \in Planners, StoreVersion(p) PROVE Kept
    <3>1. \A w \in Workflows : \A plan \in plans[w] : plan \in plans'[w]
      BY <2>2 DEF StoreVersion, TypeOK
    <3> QED
      BY <3>1
  <2>3. ASSUME NEW r \in Reviews, SetStatus(r) PROVE Kept
    <3> DEFINE w == review[r].workflow
               d == review[r].decision
    <3>1. w \in Workflows /\ d \in CoursePlanStatus /\ d # "DRAFT" /\ plans[w] \in SUBSET CoursePlan
      BY DEF TypeOK, ReviewState, CoursePlanStatus
    <3>2. /\ plans'[w] = Decide(plans[w], review[r].version, d)
          /\ \A v \in Workflows : v # w => plans'[v] = plans[v]
      BY <2>3, <3>1 DEF SetStatus, TypeOK
    <3> HIDE DEF w, d
    <3>3. ASSUME NEW plan \in plans[w]
          PROVE  \E later \in plans'[w] :
                   /\ later.version = plan.version
                   /\ later.passed = plan.passed
                   /\ later.status = "DRAFT" => plan.status = "DRAFT"
      <4>1. PICK later \in Decide(plans[w], review[r].version, d) :
              /\ later.version = plan.version
              /\ later.passed = plan.passed
              /\ later = plan \/ later.status = d
        BY <3>1, DecideVersions
      <4>2. later \in plans'[w]
        BY <3>2
      <4> QED
        BY <3>1, <4>1, <4>2
    <3> QED
      BY <3>2, <3>3
  <2> QED
    BY <2>1, <2>2, <2>3, PlansStep
<1>2. Spec => []TypeOK
  BY TypeCorrect
<1>3. HistoryKept <=> [][Kept]_vars
  BY DEF HistoryKept
<1> HIDE DEF Kept
<1> QED
  BY <1>1, <1>2, <1>3, PTL DEF Spec

-----------------------------------------------------------------------------
(* What the runs leave behind.  Under the lock a run that stops leaves a   *)
(* row that is not running any more: each of its last saves says FAILED or *)
(* WAITING_FOR_REVIEW, and the one way to stop without a save, a version   *)
(* number that is taken, is closed (NumbersFree).  The run counts the      *)
(* stages of its own copy (Counted), so the row it leaves is complete.     *)

Counted(run) ==
  /\ run.pc \in {"begun", "preparing", "generating", "retrying"} =>
       run.ctx.completed = 0 /\ run.ctx.total = 2
  /\ run.pc \in {"planned", "validating", "storing", "stored"} =>
       run.ctx.completed = 1 /\ run.ctx.total = 2
  /\ run.pc = "finished" => run.ctx.completed = run.ctx.total

NumbersFree ==
  \A p \in Planners :
    planner[p].pc = "storing" => ~VersionTaken(planner[p].workflow, planner[p].version)

LeftInv ==
  /\ RunningMeansHeld
  /\ WaitingMeansDone
  /\ NumbersFree
  /\ \A p \in Planners : Counted(planner[p])

LEMMA LeftInit == Init => LeftInv
<1> SUFFICES ASSUME Init PROVE LeftInv
  OBVIOUS
<1>1. \A w \in Workflows : workflows[w] \in InitialRow
  BY DEF Init
<1>2. \A p \in Planners : planner[p].pc = "idle"
  BY DEF Init
<1>3. RunningMeansHeld /\ WaitingMeansDone
  BY <1>1 DEF RunningMeansHeld, WaitingMeansDone, InitialRow, Running, Stages
<1> QED
  BY <1>2, <1>3 DEF LeftInv, NumbersFree, Counted

\* What the transitions of a run make of the progress.
LEMMA CountedOperations ==
  ASSUME NEW row \in WorkflowRow
  PROVE  /\ BeginRun(row, 2).completed = 0 /\ BeginRun(row, 2).total = 2
         /\ \A stage \in Stages :
              /\ EnterStage(row, stage).completed = row.completed
              /\ EnterStage(row, stage).total = row.total
              /\ ResumeStage(row, stage).completed = row.completed
              /\ ResumeStage(row, stage).total = row.total
         /\ MarkRetrying(row).completed = row.completed
         /\ MarkRetrying(row).total = row.total
         /\ row.completed < row.total =>
              /\ CompleteStage(row).completed = row.completed + 1
              /\ CompleteStage(row).total = row.total
         /\ WaitForReview(row).completed = row.completed
         /\ WaitForReview(row).total = row.total
BY DEF WorkflowRow, MaxStages, BeginRun, EnterStage, ResumeStage, MarkRetrying,
       CompleteStage, WaitForReview

LEMMA SaveRunTo ==
  ASSUME TypeOK, NEW p \in Planners, NEW to, NEW row, SaveRun(p, to, row)
  PROVE  /\ \A q \in Planners \ {p} : planner'[q] = planner[q]
         /\ planner'[p].workflow = planner[p].workflow
         /\ planner'[p].pc = to /\ planner'[p].ctx = row
         /\ workflows' = [workflows EXCEPT ![planner[p].workflow] = row]
         /\ UNCHANGED <<plans, crashes>>
BY DEF SaveRun, TypeOK, PlannerState

\* The four things a step of a run may do to the row of its workflow: nothing,
\* a save in the middle of the run, its last save, or nothing at all when the
\* version number it has computed is taken.  A run that is about to store a
\* version (Storing) has left the status VALIDATING behind.
Storing == {"validating", "storing"}

Rested(row) ==
  /\ row.status \notin Running
  /\ row.status = "WAITING_FOR_REVIEW" => row.completed = row.total

Continues(p) ==
  /\ workflows' = workflows
  /\ planner'[p].pc \notin Outside
  /\ planner'[p].pc \in Storing => planner[p].pc \in Storing

Saves(p) ==
  /\ planner[p].pc \in Executing /\ planner'[p].pc \in Executing
  /\ workflows' = [workflows EXCEPT ![planner[p].workflow] = planner'[p].ctx]
  /\ planner'[p].ctx.status \in Running \cup {planner[p].ctx.status}
  /\ planner'[p].pc \in Storing => planner'[p].ctx.status = "VALIDATING"

Leaves(p) ==
  /\ planner'[p].pc = "ended"
  /\ workflows' = [workflows EXCEPT ![planner[p].workflow] = planner'[p].ctx]
  /\ Rested(planner'[p].ctx)

Loses(p) ==
  /\ planner[p].pc = "storing" /\ planner'[p].pc = "ended"
  /\ VersionTaken(planner[p].workflow, planner[p].version)
  /\ workflows' = workflows

\* The number after the latest version is taken by none.
LEMMA NextNumberFree ==
  ASSUME NEW rows \in SUBSET CoursePlan, NEW v, IsNextVersion(v, rows)
  PROVE  \A plan \in rows : plan.version # v
BY DEF IsNextVersion, IsLatest, CoursePlan

LEMMA RunEffect ==
  ASSUME TypeOK, NEW p \in Planners, RunStep(p), Counted(planner[p])
  PROVE  /\ \A q \in Planners \ {p} : planner'[q] = planner[q]
         /\ planner'[p].workflow = planner[p].workflow
         /\ planner[p].pc \notin Outside
         /\ crashes' = crashes
         /\ plans' = plans \/ StoreVersion(p)
         /\ Counted(planner'[p])
         /\ planner'[p].pc = "storing" =>
              ~VersionTaken(planner'[p].workflow, planner'[p].version)
         /\ Continues(p) \/ Saves(p) \/ Leaves(p) \/ Loses(p)
<1> DEFINE ctx == planner[p].ctx
<1>0. planner[p] \in PlannerState /\ ctx \in WorkflowRow
  BY DEF TypeOK, PlannerState
<1> HIDE DEF ctx
<1> USE DEF Continues, Saves, Leaves, Loses
<1>3. CASE PlannerUnavailable(p) \/ PlanningFails(p) \/ VersionRefused(p)
  <2>1. Rested(FailRun(ctx))
    BY <1>0 DEF FailRun, WorkflowRow, Rested, Running, Stages
  <2>2. /\ planner[p].pc \in {"loaded", "preparing", "generating", "validating"}
        /\ SaveRun(p, "ended", FailRun(ctx))
    BY <1>3 DEF PlannerUnavailable, PlanningFails, VersionRefused, ctx
  <2> QED
    BY <2>1, <2>2, SaveRunTo DEF Outside, Counted
<1>4. CASE BeginPlanningRun(p)
  <2>1. BeginRun(ctx, 2).status = ctx.status
    BY <1>0 DEF BeginRun, WorkflowRow
  <2>2. BeginRun(ctx, 2).completed = 0 /\ BeginRun(ctx, 2).total = 2
    BY <1>0, CountedOperations
  <2>3. planner[p].pc = "loaded" /\ SaveRun(p, "begun", BeginRun(ctx, 2))
    BY <1>4 DEF BeginPlanningRun, ctx
  <2> QED
    BY <2>1, <2>2, <2>3, SaveRunTo DEF Outside, Executing, Counted, Storing, ctx
<1>5. CASE EnterPlanning(p)
  <2> DEFINE row == EnterStage(ctx, "PLANNING_COURSE")
  <2>1. row.status \in Running
    BY <1>0 DEF EnterStage, WorkflowRow, Stages, Running
  <2>2. planner[p].pc = "begun" /\ SaveRun(p, "preparing", row)
    BY <1>5 DEF EnterPlanning, ctx
  <2>3. row.completed = 0 /\ row.total = 2
    BY <1>0, <2>2, CountedOperations DEF Counted, Stages, ctx
  <2> HIDE DEF row
  <2> QED
    BY <2>1, <2>2, <2>3, SaveRunTo DEF Outside, Executing, Counted, Storing
<1>6. CASE PreparePlanning(p)
  <2>1. /\ \A q \in Planners \ {p} : planner'[q] = planner[q]
        /\ planner'[p].workflow = planner[p].workflow
        /\ planner'[p].ctx = planner[p].ctx
        /\ planner[p].pc = "preparing" /\ planner'[p].pc = "generating"
        /\ UNCHANGED <<workflows, plans, crashes>>
    BY <1>0, <1>6 DEF PreparePlanning, Step, TypeOK, PlannerState
  <2> QED
    BY <2>1 DEF Outside, Counted, Storing
<1>7. CASE RetryFix(p)
  <2>1. MarkRetrying(ctx).status \in Running
    BY <1>0 DEF MarkRetrying, WorkflowRow, Running
  <2>2. planner[p].pc = "generating" /\ SaveRun(p, "retrying", MarkRetrying(ctx))
    BY <1>7 DEF RetryFix, ctx
  <2>3. MarkRetrying(ctx).completed = 0 /\ MarkRetrying(ctx).total = 2
    BY <1>0, <2>2, CountedOperations DEF Counted, ctx
  <2> QED
    BY <2>1, <2>2, <2>3, SaveRunTo DEF Outside, Executing, Counted, Storing
<1>8. CASE NextAttempt(p)
  <2> DEFINE row == ResumeStage(ctx, "PLANNING_COURSE")
  <2>1. planner[p].pc = "retrying"
    BY <1>8 DEF NextAttempt
  <2>2. row.status \in Running \cup {ctx.status}
    BY <1>0 DEF ResumeStage, EnterStage, WorkflowRow, Running, Stages
  <2>3. row.completed = 0 /\ row.total = 2
    BY <1>0, <2>1, CountedOperations DEF Counted, Stages, ctx
  <2>4. /\ planner' = [planner EXCEPT ![p].pc = "generating", ![p].ctx = row,
                                      ![p].attempt = @ + 1]
        /\ workflows' = [workflows EXCEPT ![planner[p].workflow] = row]
        /\ UNCHANGED <<plans, crashes>>
    BY <1>8 DEF NextAttempt, ctx
  <2> HIDE DEF row
  <2>5. /\ planner'[p].pc = "generating" /\ planner'[p].ctx = row
        /\ planner'[p].workflow = planner[p].workflow
        /\ \A q \in Planners \ {p} : planner'[q] = planner[q]
    BY <1>0, <2>4 DEF TypeOK, PlannerState
  <2> QED
    BY <2>1, <2>2, <2>3, <2>4, <2>5 DEF Outside, Executing, Counted, Storing, ctx
<1>9. CASE PlanGenerated(p)
  <2>1. CompleteStage(ctx).status = ctx.status
    BY <1>0 DEF CompleteStage, WorkflowRow
  <2>2. planner[p].pc = "generating" /\ SaveRun(p, "planned", CompleteStage(ctx))
    BY <1>9 DEF PlanGenerated, ctx
  <2>3. CompleteStage(ctx).completed = 1 /\ CompleteStage(ctx).total = 2
    BY <1>0, <2>2, CountedOperations DEF Counted, ctx
  <2> QED
    BY <2>1, <2>2, <2>3, SaveRunTo DEF Outside, Executing, Counted, Storing, ctx
<1>10. CASE EnterValidating(p)
  <2> DEFINE row == EnterStage(ctx, "VALIDATING")
  <2>1. row.status = "VALIDATING" /\ row.status \in Running
    BY <1>0 DEF EnterStage, WorkflowRow, Stages, Running
  <2>2. planner[p].pc = "planned" /\ SaveRun(p, "validating", row)
    BY <1>10 DEF EnterValidating, ctx
  <2>3. row.completed = 1 /\ row.total = 2
    BY <1>0, <2>2, CountedOperations DEF Counted, Stages, ctx
  <2> HIDE DEF row
  <2> QED
    BY <2>1, <2>2, <2>3, SaveRunTo DEF Outside, Executing, Counted
<1>11. CASE NumberVersion(p)
  <2> DEFINE rows == plans[planner[p].workflow]
  <2>1. PICK v : /\ IsNextVersion(v, rows)
                 /\ planner' = [planner EXCEPT ![p].pc = "storing", ![p].version = v]
    BY <1>11 DEF NumberVersion
  <2>2. /\ \A q \in Planners \ {p} : planner'[q] = planner[q]
        /\ planner'[p].workflow = planner[p].workflow
        /\ planner'[p].version = v
        /\ planner'[p].ctx = planner[p].ctx
        /\ planner[p].pc = "validating" /\ planner'[p].pc = "storing"
        /\ UNCHANGED <<workflows, plans, crashes>>
    BY <1>0, <1>11, <2>1 DEF NumberVersion, TypeOK, PlannerState
  <2>3. rows \in SUBSET CoursePlan
    BY <1>0 DEF TypeOK, PlannerState
  <2> HIDE DEF rows
  <2>4. \A plan \in rows : plan.version # v
    BY <2>1, <2>3, NextNumberFree
  <2>5. ~VersionTaken(planner'[p].workflow, planner'[p].version)
    BY <2>2, <2>4 DEF VersionTaken, rows
  <2> QED
    BY <2>2, <2>5 DEF Outside, Counted, Storing
<1>12. CASE StoreVersion(p)
  <2>1. /\ \A q \in Planners \ {p} : planner'[q] = planner[q]
        /\ planner'[p].workflow = planner[p].workflow
        /\ planner'[p].ctx = planner[p].ctx
        /\ planner[p].pc = "storing" /\ planner'[p].pc = "stored"
        /\ UNCHANGED <<workflows, crashes>>
    BY <1>0, <1>12 DEF StoreVersion, TypeOK, PlannerState
  <2> QED
    BY <1>12, <2>1 DEF Outside, Counted, Storing
<1>13. CASE StoreConflict(p)
  <2>1. /\ \A q \in Planners \ {p} : planner'[q] = planner[q]
        /\ planner'[p].workflow = planner[p].workflow
        /\ planner[p].pc = "storing" /\ planner'[p].pc = "ended"
        /\ VersionTaken(planner[p].workflow, planner[p].version)
        /\ UNCHANGED <<workflows, plans, crashes>>
    BY <1>0, <1>13 DEF StoreConflict, Step, TypeOK, PlannerState
  <2> QED
    BY <2>1 DEF Outside, Counted
<1>14. CASE FinishValidating(p)
  <2>1. CompleteStage(ctx).status = ctx.status
    BY <1>0 DEF CompleteStage, WorkflowRow
  <2>2. planner[p].pc = "stored" /\ SaveRun(p, "finished", CompleteStage(ctx))
    BY <1>14 DEF FinishValidating, ctx
  <2>3. CompleteStage(ctx).completed = CompleteStage(ctx).total
    BY <1>0, <2>2, CountedOperations DEF Counted, ctx
  <2> QED
    BY <2>1, <2>2, <2>3, SaveRunTo DEF Outside, Executing, Counted, Storing, ctx
<1>15. CASE AwaitReview(p)
  <2>1. WaitForReview(ctx).status = "WAITING_FOR_REVIEW"
    BY <1>0 DEF WaitForReview, WorkflowRow
  <2>2. planner[p].pc = "finished" /\ SaveRun(p, "ended", WaitForReview(ctx))
    BY <1>15 DEF AwaitReview, ctx
  <2>3. WaitForReview(ctx).completed = WaitForReview(ctx).total
    BY <1>0, <2>2, CountedOperations DEF Counted, ctx
  <2>4. Rested(WaitForReview(ctx))
    BY <2>1, <2>3 DEF Rested, Running, Stages
  <2> QED
    BY <2>2, <2>4, SaveRunTo DEF Outside, Counted
<1>16. CASE LoadWorkflow(p)
  <2>1. /\ \A q \in Planners \ {p} : planner'[q] = planner[q]
        /\ planner'[p].workflow = planner[p].workflow
        /\ planner[p].pc = "claimed" /\ planner'[p].pc = "loaded"
        /\ UNCHANGED <<workflows, plans, crashes>>
    BY <1>0, <1>16 DEF LoadWorkflow, TypeOK, PlannerState
  <2> QED
    BY <2>1 DEF Outside, Counted, Storing
<1> QED
  BY <1>3, <1>4, <1>5, <1>6, <1>7, <1>8, <1>9, <1>10, <1>11, <1>12, <1>13, <1>14,
     <1>15, <1>16 DEF RunStep

\* A request that is not refused takes the workflow with its claim.
LEMMA RequestEffect ==
  ASSUME TypeOK, NEW p \in Planners, RequestStep(p)
  PROVE  /\ \A q \in Planners \ {p} : planner'[q] = planner[q]
         /\ planner'[p].workflow = planner[p].workflow
         /\ planner[p].pc \in Outside
         /\ UNCHANGED <<plans, crashes>>
         /\ Counted(planner'[p]) /\ planner'[p].pc # "storing"
         /\ \/ workflows' = workflows /\ planner'[p].pc \in Outside
            \/ /\ planner'[p].pc = "claimed"
               /\ workflows' = [workflows EXCEPT ![planner[p].workflow].status =
                                  "PLANNING_COURSE"]
<1>0. planner[p] \in PlannerState
  BY DEF TypeOK
<1>1. CASE StartPlanning(p) \/ ClaimRefused(p)
  BY <1>0, <1>1 DEF StartPlanning, ClaimRefused, Step, TypeOK, PlannerState, Outside, Counted
<1>2. CASE ClaimPlanning(p)
  BY <1>0, <1>2 DEF ClaimPlanning, TypeOK, PlannerState, Outside, Counted
<1> QED
  BY <1>1, <1>2 DEF RequestStep

LEMMA RequestLeaves ==
  ASSUME TypeOK, LeftInv, NEW p \in Planners, RequestStep(p)
  PROVE  LeftInv'
<1>1. PICK w \in Workflows : w = planner[p].workflow
  BY DEF TypeOK, PlannerState
<1>2. \A q \in Planners, v \in Workflows : Holds(q, v) => Holds(q, v)'
  BY RequestEffect DEF Holds
<1>3. NumbersFree' /\ \A q \in Planners : Counted(planner'[q])
  BY RequestEffect DEF LeftInv, NumbersFree, VersionTaken
<1>4. RunningMeansHeld' /\ WaitingMeansDone'
  <2>1. CASE workflows' = workflows
    BY <1>2, <2>1, RequestEffect DEF LeftInv, RunningMeansHeld, WaitingMeansDone
  <2>2. CASE /\ planner'[p].pc = "claimed"
             /\ workflows' = [workflows EXCEPT ![w].status = "PLANNING_COURSE"]
    <3>1. workflows'[w].status = "PLANNING_COURSE"
      BY <2>2 DEF TypeOK, WorkflowRow
    <3>2. \A v \in Workflows \ {w} : workflows'[v] = workflows[v]
      BY <2>2 DEF TypeOK
    <3>3. Holds(p, w)'
      BY <1>1, <2>2, RequestEffect DEF Holds, Outside
    <3>4. crashes' = crashes
      BY RequestEffect
    <3> QED
      BY <1>2, <3>1, <3>2, <3>3, <3>4 DEF LeftInv, RunningMeansHeld, WaitingMeansDone
  <2> QED
    BY <1>1, <2>1, <2>2, RequestEffect
<1> QED
  BY <1>3, <1>4 DEF LeftInv

LEMMA RunLeaves ==
  ASSUME TypeOK, HeldInv, LeftInv, NEW p \in Planners, RunStep(p)
  PROVE  LeftInv'
<1>0. PICK w \in Workflows : w = planner[p].workflow
  BY DEF TypeOK, PlannerState
<1>1. /\ \A q \in Planners \ {p} : planner'[q] = planner[q]
      /\ planner'[p].workflow = w
      /\ planner[p].pc \notin Outside
      /\ crashes' = crashes
      /\ plans' = plans \/ StoreVersion(p)
      /\ planner'[p].pc = "storing" => ~VersionTaken(w, planner'[p].version)
      /\ Counted(planner'[p])
      /\ Continues(p) \/ Saves(p) \/ Leaves(p) \/ Loses(p)
  BY <1>0, RunEffect DEF LeftInv
<1>2. \A q \in Planners : Counted(planner'[q])
  BY <1>1 DEF LeftInv
<1>3. ~Loses(p)
  BY DEF Loses, LeftInv, NumbersFree
<1>4. \A q \in Planners \ {p}, v \in Workflows : Holds(q, v)' <=> Holds(q, v)
  BY <1>1 DEF Holds
<1>5. \A v \in Workflows \ {w} : workflows'[v] = workflows[v] /\ ~Holds(p, v)
  BY <1>0, <1>1, <1>3 DEF Continues, Saves, Leaves, Holds, TypeOK
<1>6. RunningMeansHeld'
  <2> SUFFICES ASSUME NEW v \in Workflows, workflows'[v].status \in Running, crashes = 0
               PROVE  \E q \in Planners : Holds(q, v)'
    BY <1>1 DEF RunningMeansHeld
  <2>1. CASE v # w
    BY <2>1, <1>4, <1>5 DEF LeftInv, RunningMeansHeld
  <2>2. CASE v = w
    <3>1. CASE planner'[p].pc \in Outside
      <4>1. Leaves(p)
        BY <3>1, <1>1, <1>3 DEF Continues, Saves, Executing, Outside
      <4> QED
        BY <4>1, <2>2, <1>0 DEF Leaves, Rested, TypeOK
    <3>2. CASE planner'[p].pc \notin Outside
      BY <3>2, <2>2, <1>1 DEF Holds
    <3> QED
      BY <3>1, <3>2
  <2> QED
    BY <2>1, <2>2
<1>7. WaitingMeansDone'
  <2> SUFFICES ASSUME NEW v \in Workflows, workflows'[v].status = "WAITING_FOR_REVIEW"
               PROVE  workflows'[v].completed = workflows'[v].total
    BY DEF WaitingMeansDone
  <2>1. CASE workflows'[v] = workflows[v]
    BY <2>1 DEF LeftInv, WaitingMeansDone
  <2>2. CASE v = w /\ Saves(p)
    <3>1. planner[p].ctx.status \in Running
      BY <2>2, CopyRunning DEF Saves
    <3>2. workflows'[v].status \in Running
      BY <2>2, <3>1, <1>0 DEF Saves, TypeOK
    <3> QED
      BY <3>2 DEF Running, Stages
  <2>3. CASE v = w /\ Leaves(p)
    BY <2>3, <1>0 DEF Leaves, Rested, TypeOK
  <2> QED
    BY <2>1, <2>2, <2>3, <1>1, <1>3, <1>5 DEF Continues
<1>8. NumbersFree'
  <2> SUFFICES ASSUME NEW q \in Planners, planner'[q].pc = "storing"
               PROVE  \A plan \in plans'[planner'[q].workflow] :
                        plan.version # planner'[q].version
    BY DEF NumbersFree, VersionTaken
  <2>1. CASE StoreVersion(p)
    <3>1. planner'[p].pc = "stored" /\ \A v \in Workflows \ {w} : plans'[v] = plans[v]
      BY <2>1, <1>0 DEF StoreVersion, TypeOK, PlannerState
    <3>2. q # p /\ planner'[q] = planner[q] /\ planner[q].workflow \in Workflows
      BY <3>1, <1>1 DEF TypeOK, PlannerState
    <3>3. Holds(q, planner[q].workflow) /\ Holds(p, w)
      BY <3>2, <1>0, <1>1 DEF Holds, Outside
    <3>4. planner[q].workflow # w
      BY <3>2, <3>3 DEF HeldInv, PlanningExclusive
    <3>5. plans'[planner[q].workflow] = plans[planner[q].workflow]
      BY <3>1, <3>2, <3>4
    <3>6. ~VersionTaken(planner[q].workflow, planner[q].version)
      BY <3>2 DEF LeftInv, NumbersFree
    <3> QED
      BY <3>2, <3>5, <3>6 DEF VersionTaken
  <2>2. CASE plans' = plans
    BY <2>2, <1>1 DEF LeftInv, NumbersFree, VersionTaken
  <2> QED
    BY <2>1, <2>2, <1>1
<1> QED
  BY <1>2, <1>6, <1>7, <1>8 DEF LeftInv

\* set_status leaves the numbers of the versions as they are.
LEMMA DecideLeavesNumbers ==
  ASSUME TypeOK, NEW r \in Reviews, SetStatus(r),
         NEW w \in Workflows, NEW v, ~VersionTaken(w, v)
  PROVE  \A plan \in plans'[w] : plan.version # v
<1> DEFINE u == review[r].workflow
           d == review[r].decision
<1>1. u \in Workflows /\ d \in CoursePlanStatus
  BY DEF TypeOK, ReviewState, CoursePlanStatus
<1>2. /\ plans'[u] = Decide(plans[u], review[r].version, d)
      /\ w # u => plans'[w] = plans[w]
  BY <1>1 DEF SetStatus, TypeOK
<1> HIDE DEF u, d
<1>3. CASE w # u
  BY <1>2, <1>3 DEF VersionTaken
<1>4. CASE w = u
  <2>1. plans[u] \in SUBSET CoursePlan
    BY <1>1 DEF TypeOK
  <2>2. \A q \in Decide(plans[u], review[r].version, d) : \E plan \in plans[u] :
          q.version = plan.version
    BY <1>1, <2>1, DecideVersions
  <2> QED
    BY <1>2, <1>4, <2>2 DEF VersionTaken
<1> QED
  BY <1>3, <1>4

LEMMA LeftNext ==
  ASSUME Updates = {}, TypeOK, HeldInv, LeftInv, [Next]_vars
  PROVE  LeftInv'
<1>1. ASSUME NEW p \in Planners, RequestStep(p) PROVE LeftInv'
  BY <1>1, RequestLeaves
<1>2. ASSUME NEW p \in Planners, RunStep(p) PROVE LeftInv'
  BY <1>2, RunLeaves
<1>3. ASSUME UNCHANGED <<workflows, plans, planner, crashes>> PROVE LeftInv'
  BY <1>3 DEF LeftInv, RunningMeansHeld, WaitingMeansDone, NumbersFree, VersionTaken, Holds
<1>4. ASSUME NEW r \in Reviews, SetStatus(r) PROVE LeftInv'
  <2>1. UNCHANGED <<workflows, planner, crashes>>
    BY <1>4 DEF SetStatus
  <2>2. RunningMeansHeld' /\ WaitingMeansDone' /\ \A p \in Planners : Counted(planner'[p])
    BY <2>1 DEF LeftInv, RunningMeansHeld, WaitingMeansDone, Holds
  <2>3. NumbersFree'
    <3> SUFFICES ASSUME NEW p \in Planners, planner'[p].pc = "storing"
                 PROVE  \A plan \in plans'[planner'[p].workflow] :
                          plan.version # planner'[p].version
      BY DEF NumbersFree, VersionTaken
    <3>1. planner'[p] = planner[p] /\ planner[p].workflow \in Workflows
      BY <2>1 DEF TypeOK, PlannerState
    <3>2. ~VersionTaken(planner[p].workflow, planner[p].version)
      BY <3>1 DEF LeftInv, NumbersFree
    <3> QED
      BY <1>4, <3>1, <3>2, DecideLeavesNumbers
  <2> QED
    BY <2>2, <2>3 DEF LeftInv
<1>5. ASSUME NEW r \in Reviews, ReviewStep(r) PROVE LeftInv'
  BY <1>3, <1>4, <1>5 DEF ReviewStep, AdmitReview, ReviewLatest, ReviewRefused,
                          ApprovalConflict
<1>6. ASSUME NEW w \in Workflows, AnalysisChanges(w) PROVE LeftInv'
  BY <1>3, <1>6 DEF AnalysisChanges
<1>7. CASE Crash
  <2>1. /\ crashes' # 0
        /\ UNCHANGED <<workflows, plans>>
        /\ \A p \in Planners : planner'[p].pc \in {"idle", "ended"}
    BY <1>7 DEF Crash, TypeOK, PlannerState
  <2> QED
    BY <2>1 DEF LeftInv, RunningMeansHeld, WaitingMeansDone, NumbersFree, Counted
<1>8. CASE UNCHANGED vars
  BY <1>3, <1>8 DEF vars
<1> QED
  BY <1>1, <1>2, <1>5, <1>6, <1>7, <1>8 DEF Next

\* Without changes of the Moodle target no end of a run leaves its claim behind
\* on a living backend, and a workflow that waits for its instructor shows all
\* the stages of its last run as completed.
THEOREM RunsLeaveNothingBehind ==
  ASSUME Updates = {}
  PROVE  Spec => [](RunningMeansHeld /\ WaitingMeansDone)
<1> DEFINE Inv == TypeOK /\ HeldInv /\ LeftInv
<1>1. Init => Inv
  BY TypeInit, HeldInit, LeftInit
<1>2. Inv /\ [Next]_vars => Inv'
  BY TypeNext, HeldNext, LeftNext
<1>3. Inv => RunningMeansHeld /\ WaitingMeansDone
  BY DEF LeftInv
<1> HIDE DEF Inv
<1> QED
  BY <1>1, <1>2, <1>3, PTL DEF Spec

-----------------------------------------------------------------------------
(* The table as a ledger.  Its rows are numbered 1 .. n, each number once. *)

Numbered(rows) ==
  /\ IsFiniteSet(rows)
  /\ \A plan \in rows : plan.version \in 1 .. Cardinality(rows)
  /\ \A v \in 1 .. Cardinality(rows) : \E plan \in rows : plan.version = v
  /\ \A a, b \in rows : a.version = b.version => a = b

EntryFor(plan) == [status |-> plan.status, passed |-> plan.passed]

LEMMA EntryIsRow ==
  ASSUME NEW rows, Numbered(rows), NEW plan \in rows
  PROVE  EntryOf(rows, plan.version) = EntryFor(plan)
<1>1. (CHOOSE p \in rows : p.version = plan.version) = plan
  BY DEF Numbered
<1> QED
  BY <1>1 DEF EntryOf, EntryFor

LEMMA LedgerType ==
  ASSUME NEW rows \in SUBSET CoursePlan, Numbered(rows)
  PROVE  /\ Cardinality(rows) \in Nat
         /\ LedgerOf(rows) \in Seq(Ledger!Entry)
         /\ Len(LedgerOf(rows)) = Cardinality(rows)
<1>1. Cardinality(rows) \in Nat
  BY FS_CardinalityType DEF Numbered
<1>2. ASSUME NEW v \in 1 .. Cardinality(rows) PROVE EntryOf(rows, v) \in Ledger!Entry
  <2>1. PICK plan \in rows : plan.version = v
    BY DEF Numbered
  <2>2. EntryOf(rows, v) = EntryFor(plan)
    BY <2>1, EntryIsRow
  <2> QED
    BY <2>2 DEF EntryFor, Ledger!Entry, CoursePlan, CoursePlanStatus
<1>3. LedgerOf(rows) \in [1 .. Cardinality(rows) -> Ledger!Entry]
  BY <1>2 DEF LedgerOf
<1> QED
  BY <1>1, <1>3

\* A version with the next number is the next entry.
LEMMA AddRow ==
  ASSUME NEW rows \in SUBSET CoursePlan, Numbered(rows), NEW new \in CoursePlan,
         new.version = Cardinality(rows) + 1
  PROVE  /\ Numbered(rows \cup {new})
         /\ LedgerOf(rows \cup {new}) = Append(LedgerOf(rows), EntryFor(new))
<1> DEFINE n == Cardinality(rows)
           more == rows \cup {new}
<1>1. n \in Nat
  BY FS_CardinalityType DEF Numbered
<1>2. new \notin rows
  BY <1>1 DEF Numbered
<1>3. IsFiniteSet(more) /\ Cardinality(more) = n + 1
  BY <1>2, FS_AddElement DEF Numbered
<1> HIDE DEF n
<1>4. \A plan \in rows : plan.version \in 1 .. n
  BY DEF Numbered, n
<1>5. new.version = n + 1
  BY DEF n
<1>6. Numbered(more)
  <2>1. \A plan \in more : plan.version \in 1 .. n + 1
    BY <1>1, <1>4, <1>5
  <2>2. \A v \in 1 .. n : \E plan \in rows : plan.version = v
    BY DEF Numbered, n
  <2>3. \A v \in 1 .. n + 1 : v \in 1 .. n \/ v = n + 1
    BY <1>1
  <2>4. \A v \in 1 .. n + 1 : \E plan \in more : plan.version = v
    BY <1>5, <2>2, <2>3
  <2>5. \A plan \in rows : plan.version # n + 1
    BY <1>1, <1>4
  <2>6. \A a, b \in more : a.version = b.version => a = b
    BY <1>5, <2>5 DEF Numbered
  <2> HIDE DEF more
  <2> QED
    BY <1>3, <2>1, <2>4, <2>6 DEF Numbered
<1>7. ASSUME NEW v \in 1 .. n PROVE EntryOf(more, v) = EntryOf(rows, v)
  <2>1. PICK plan \in rows : plan.version = v
    BY DEF Numbered, n
  <2>2. EntryOf(rows, v) = EntryFor(plan)
    BY <2>1, EntryIsRow
  <2>3. EntryOf(more, v) = EntryFor(plan)
    <3>1. plan \in more
      OBVIOUS
    <3> HIDE DEF more
    <3> QED
      BY <2>1, <3>1, <1>6, EntryIsRow
  <2> QED
    BY <2>2, <2>3
<1>8. EntryOf(more, n + 1) = EntryFor(new)
  <2>1. new \in more
    OBVIOUS
  <2> HIDE DEF more
  <2> QED
    BY <2>1, <1>5, <1>6, EntryIsRow
<1>9. LedgerOf(more) = Append(LedgerOf(rows), EntryFor(new))
  <2>1. LedgerOf(more) = [v \in 1 .. n + 1 |-> EntryOf(more, v)]
    BY <1>3 DEF LedgerOf
  <2>2. LedgerOf(rows) = [v \in 1 .. n |-> EntryOf(rows, v)]
    BY DEF LedgerOf, n
  <2>3. LedgerOf(rows) \in Seq(Ledger!Entry) /\ Len(LedgerOf(rows)) = n
    BY LedgerType DEF n
  <2> HIDE DEF more
  <2> QED
    BY <1>1, <1>7, <1>8, <2>1, <2>2, <2>3
<1> QED
  BY <1>6, <1>9

\* A decision changes the status of one entry.
LEMMA DecideRow ==
  ASSUME NEW rows \in SUBSET CoursePlan, Numbered(rows), NEW chosen \in rows,
         NEW d \in CoursePlanStatus
  PROVE  /\ Numbered(Decide(rows, chosen.version, d))
         /\ LedgerOf(Decide(rows, chosen.version, d))
              = [LedgerOf(rows) EXCEPT ![chosen.version].status = d]
<1> DEFINE n == Cardinality(rows)
           changed == [chosen EXCEPT !.status = d]
           others == rows \ {chosen}
           decided == Decide(rows, chosen.version, d)
<1>1. n \in Nat
  BY FS_CardinalityType DEF Numbered
<1>2. /\ changed.version = chosen.version /\ changed.passed = chosen.passed
      /\ changed.status = d
  BY DEF CoursePlan
<1>3. decided = others \cup {changed}
  BY DEF Decide, Numbered
<1>4. \A plan \in others : plan.version # changed.version
  BY <1>2 DEF Numbered
<1> HIDE DEF changed, decided
<1>5. IsFiniteSet(decided) /\ Cardinality(decided) = n
  <2>1. IsFiniteSet(others) /\ Cardinality(others) = n - 1
    BY FS_RemoveElement DEF Numbered
  <2>2. changed \notin others
    BY <1>4
  <2> HIDE DEF others
  <2>3. IsFiniteSet(others \cup {changed}) /\ Cardinality(others \cup {changed}) = n - 1 + 1
    BY <2>1, <2>2, FS_AddElement
  <2> QED
    BY <1>1, <1>3, <2>3
<1>6. Numbered(decided)
  <2>1. \A plan \in rows : plan.version \in 1 .. n
    BY DEF Numbered
  <2>2. \A v \in 1 .. n : \E plan \in rows : plan.version = v
    BY DEF Numbered
  <2> HIDE DEF n
  <2>3. \A plan \in decided : plan.version \in 1 .. n
    BY <1>2, <1>3, <2>1
  <2>4. \A v \in 1 .. n : \E plan \in decided : plan.version = v
    BY <1>2, <1>3, <2>2
  <2>5. \A a, b \in decided : a.version = b.version => a = b
    BY <1>3, <1>4 DEF Numbered
  <2> QED
    BY <1>5, <2>3, <2>4, <2>5 DEF Numbered
<1>7. EntryOf(decided, chosen.version) = [EntryOf(rows, chosen.version) EXCEPT !.status = d]
  <2>1. EntryOf(rows, chosen.version) = EntryFor(chosen)
    BY EntryIsRow
  <2>2. EntryOf(decided, chosen.version) = EntryFor(changed)
    BY <1>2, <1>3, <1>6, EntryIsRow
  <2> QED
    BY <1>2, <2>1, <2>2 DEF EntryFor
<1>8. ASSUME NEW v \in 1 .. n, v # chosen.version
      PROVE  EntryOf(decided, v) = EntryOf(rows, v)
  <2>1. PICK plan \in rows : plan.version = v
    BY DEF Numbered
  <2>2. plan \in decided
    BY <1>3, <1>8, <2>1
  <2> QED
    BY <1>6, <2>1, <2>2, EntryIsRow
<1>9. LedgerOf(decided) = [LedgerOf(rows) EXCEPT ![chosen.version].status = d]
  <2>1. LedgerOf(decided) = [v \in 1 .. n |-> EntryOf(decided, v)]
    BY <1>5 DEF LedgerOf
  <2>2. LedgerOf(rows) = [v \in 1 .. n |-> EntryOf(rows, v)]
    BY DEF LedgerOf
  <2>3. chosen.version \in 1 .. n
    BY DEF Numbered
  <2> DEFINE k == chosen.version
             before == LedgerOf(rows)
             entry == [EntryOf(rows, k) EXCEPT !.status = d]
  <2>4. before[k] = EntryOf(rows, k) /\ DOMAIN before = 1 .. n
    BY <2>2, <2>3
  <2>5. [before EXCEPT ![k].status = d] = [before EXCEPT ![k] = entry]
    BY <2>4
  <2>6. EntryOf(decided, k) = entry
    BY <1>7
  <2>7. \A v \in 1 .. n : v # k => EntryOf(decided, v) = EntryOf(rows, v)
    BY <1>8
  <2> HIDE DEF n, k, entry
  <2>8. before = [v \in 1 .. n |-> EntryOf(rows, v)]
    BY <2>2
  <2>9. [before EXCEPT ![k] = entry]
          = [v \in 1 .. n |-> IF v = k THEN entry ELSE EntryOf(rows, v)]
    BY <2>8
  <2>10. \A v \in 1 .. n :
           EntryOf(decided, v) = IF v = k THEN entry ELSE EntryOf(rows, v)
    BY <2>6, <2>7
  <2>11. LedgerOf(decided) = [before EXCEPT ![k] = entry]
    BY <2>1, <2>9, <2>10
  <2> QED
    BY <2>5, <2>11 DEF k
<1> QED
  BY <1>6, <1>9 DEF decided

-----------------------------------------------------------------------------
(* The numbers of the versions are those of the ledger.  Nobody but a      *)
(* store changes them, and the number a store writes is the next one: the  *)
(* smaller ones are taken (NumbersReached) and it is not.                  *)

LedgerInv == \A w \in Workflows : Numbered(plans[w])

Inv == TypeOK /\ HeldInv /\ VersionsInv /\ LedgerInv

LEMMA NumberedInit == Init => LedgerInv
<1>1. Numbered({})
  BY FS_EmptySet DEF Numbered
<1> QED
  BY <1>1 DEF Init, LedgerInv

\* What a store does to the rows of its workflow.
LEMMA StoreNext ==
  ASSUME TypeOK, VersionsInv, LedgerInv, NEW p \in Planners, StoreVersion(p)
  PROVE  \E w \in Workflows, new \in CoursePlan :
           /\ Holds(p, w)
           /\ plans' = [plans EXCEPT ![w] = @ \cup {new}]
           /\ new.version = Cardinality(plans[w]) + 1
           /\ new.status = "DRAFT"
<1>1. PICK w \in Workflows : w = planner[p].workflow
  BY DEF TypeOK, PlannerState
<1> DEFINE n == planner[p].version
<1>2. PICK passed \in BOOLEAN :
        plans' = [plans EXCEPT ![w] =
                    @ \cup {[version |-> n, status |-> "DRAFT", passed |-> passed]}]
  BY <1>1 DEF StoreVersion
<1> DEFINE new == [version |-> n, status |-> "DRAFT", passed |-> passed]
<1>3. n \in Nat \ {0}
  BY DEF TypeOK, PlannerState
<1>4. new \in CoursePlan /\ new.version = n /\ new.status = "DRAFT"
  BY <1>3 DEF CoursePlan, CoursePlanStatus
<1>5. \A plan \in plans[w] : plan.version # n
  BY <1>1 DEF StoreVersion, VersionTaken
<1>6. \A v \in 1 .. n - 1 : \E plan \in plans[w] : plan.version = v
  BY <1>1 DEF StoreVersion, VersionsInv, NumbersReached, VersionTaken
<1>7. /\ \A plan \in plans[w] : plan.version \in 1 .. Cardinality(plans[w])
      /\ \A v \in 1 .. Cardinality(plans[w]) : \E plan \in plans[w] : plan.version = v
      /\ Cardinality(plans[w]) \in Nat
  BY FS_CardinalityType DEF LedgerInv, Numbered
<1>8. n = Cardinality(plans[w]) + 1
  <2> DEFINE c == Cardinality(plans[w])
  <2> HIDE DEF c, n
  <2>1. ~(n <= c)
    BY <1>3, <1>5, <1>7 DEF c
  <2>2. ~(n > c + 1)
    <3>1. SUFFICES ASSUME n > c + 1 PROVE FALSE
      OBVIOUS
    <3>2. c + 1 \in 1 .. n - 1
      BY <1>3, <1>7, <3>1 DEF c
    <3>3. PICK plan \in plans[w] : plan.version = c + 1
      BY <1>6, <3>2
    <3> QED
      BY <1>7, <3>3 DEF c
  <2> QED
    BY <1>3, <1>7, <2>1, <2>2 DEF c
<1>9. Holds(p, w)
  BY <1>1 DEF StoreVersion, Holds, Outside
<1> HIDE DEF new
<1> QED
  BY <1>2, <1>4, <1>8, <1>9 DEF new

\* What a decision does to the rows of its workflow.
LEMMA DecideNext ==
  ASSUME TypeOK, VersionsInv, LedgerInv, NEW r \in Reviews, SetStatus(r)
  PROVE  \E w \in Workflows, d \in {"APPROVED", "REJECTED"} : \E chosen \in plans[w] :
           /\ plans' = [plans EXCEPT ![w] = Decide(@, chosen.version, d)]
           /\ d = "APPROVED" =>
                /\ chosen.passed
                /\ \A plan \in plans[w] : plan.status = "APPROVED" => plan = chosen
<1> DEFINE w == review[r].workflow
           d == review[r].decision
           n == review[r].version
<1>1. w \in Workflows /\ d \in {"APPROVED", "REJECTED"}
  BY DEF TypeOK, ReviewState
<1>2. PICK chosen \in plans[w] : chosen.version = n /\ (d = "APPROVED" => chosen.passed)
  BY DEF SetStatus, VersionsInv, DecisionsFounded
<1>3. plans' = [plans EXCEPT ![w] = Decide(@, chosen.version, d)]
  BY <1>2 DEF SetStatus
<1>4. d = "APPROVED" => \A plan \in plans[w] : plan.status = "APPROVED" => plan.version = n
  BY DEF SetStatus, OtherApproved
<1>5. \A a, b \in plans[w] : a.version = b.version => a = b
  BY <1>1 DEF LedgerInv, Numbered
<1> HIDE DEF w, d, n
<1> QED
  BY <1>1, <1>2, <1>3, <1>4, <1>5

LEMMA NumberedNext ==
  ASSUME TypeOK, VersionsInv, LedgerInv, [Next]_vars
  PROVE  LedgerInv'
<1>1. CASE plans' = plans
  BY <1>1 DEF LedgerInv
<1>2. ASSUME NEW p \in Planners, StoreVersion(p) PROVE LedgerInv'
  <2>1. PICK w \in Workflows, new \in CoursePlan :
          /\ plans' = [plans EXCEPT ![w] = @ \cup {new}]
          /\ new.version = Cardinality(plans[w]) + 1
    BY <1>2, StoreNext
  <2>2. plans[w] \in SUBSET CoursePlan /\ Numbered(plans[w])
    BY DEF TypeOK, LedgerInv
  <2>3. Numbered(plans[w] \cup {new})
    BY <2>1, <2>2, AddRow
  <2>4. \A v \in Workflows : plans'[v] = IF v = w THEN plans[w] \cup {new} ELSE plans[v]
    BY <2>1 DEF TypeOK
  <2> QED
    BY <2>3, <2>4 DEF LedgerInv
<1>3. ASSUME NEW r \in Reviews, SetStatus(r) PROVE LedgerInv'
  <2>1. PICK w \in Workflows, d \in {"APPROVED", "REJECTED"} : \E chosen \in plans[w] :
          plans' = [plans EXCEPT ![w] = Decide(@, chosen.version, d)]
    BY <1>3, DecideNext
  <2>2. PICK chosen \in plans[w] : plans' = [plans EXCEPT ![w] = Decide(@, chosen.version, d)]
    BY <2>1
  <2>3. plans[w] \in SUBSET CoursePlan /\ Numbered(plans[w]) /\ d \in CoursePlanStatus
    BY DEF TypeOK, LedgerInv, CoursePlanStatus
  <2>4. Numbered(Decide(plans[w], chosen.version, d))
    BY <2>3, DecideRow
  <2>5. \A v \in Workflows :
          plans'[v] = IF v = w THEN Decide(plans[w], chosen.version, d) ELSE plans[v]
    BY <2>2 DEF TypeOK
  <2> QED
    BY <2>4, <2>5 DEF LedgerInv
<1> QED
  BY <1>1, <1>2, <1>3, PlansStep

LEMMA InvInit == Init => Inv
BY TypeInit, HeldInit, VersionsInit, NumberedInit DEF Inv

LEMMA InvNext ==
  ASSUME Updates = {}, Inv, [Next]_vars
  PROVE  Inv'
BY TypeNext, HeldNext, VersionsNext, NumberedNext DEF Inv

-----------------------------------------------------------------------------
(* The steps.  A claim is a Claim, the end of a run a Release, a store an  *)
(* AddVersion, a decision a DecideVersion, a crash a ReleaseAll; all other *)
(* steps change neither the holders nor the ledger.                        *)

LEMMA SameHolders ==
  ASSUME \A p \in Planners, w \in Workflows : Holds(p, w)' <=> Holds(p, w)
  PROVE  \A w \in Workflows : HoldersOf(w)' = HoldersOf(w)
BY DEF HoldersOf

LEMMA Stutters ==
  ASSUME plans' = plans, \A w \in Workflows : HoldersOf(w)' = HoldersOf(w)
  PROVE  UNCHANGED Ledger!ledgerVars
BY DEF Ledger!ledgerVars

LEMMA ClaimStep ==
  ASSUME TypeOK, HeldInv, NEW p \in Planners, ClaimPlanning(p)
  PROVE  \E w \in Workflows : Ledger!Claim(p, w)
<1>1. PICK w \in Workflows : w = planner[p].workflow
  BY DEF TypeOK, PlannerState
<1>2. \A q \in Planners : ~Holds(q, w)
  BY <1>1 DEF ClaimPlanning, Claimable, HeldInv, HeldMeansRunning, Running, Stages
<1>3. /\ \A q \in Planners \ {p} : planner'[q] = planner[q]
      /\ planner'[p].pc = "claimed" /\ planner'[p].workflow = w
      /\ planner[p].pc = "checked"
      /\ plans' = plans
  BY <1>1 DEF ClaimPlanning, TypeOK, PlannerState
<1>4. \A q \in Planners, v \in Workflows :
        Holds(q, v)' <=> Holds(q, v) \/ (q = p /\ v = w)
  BY <1>1, <1>3 DEF Holds, Outside
<1>5. HoldersOf(w) = {} /\ HoldersOf(w)' = {p}
  BY <1>2, <1>4 DEF HoldersOf
<1>6. \A v \in Workflows \ {w} : HoldersOf(v)' = HoldersOf(v)
  BY <1>4 DEF HoldersOf
<1>7. Ledger!Claim(p, w)
  BY <1>3, <1>5, <1>6 DEF Ledger!Claim
<1> QED
  BY <1>7

LEMMA ReleaseStep ==
  ASSUME TypeOK, HeldInv, NEW p \in Planners,
         \A q \in Planners \ {p} : planner'[q] = planner[q],
         planner[p].pc \notin Outside, planner'[p].pc \in Outside,
         plans' = plans
  PROVE  \E w \in Workflows : Ledger!Release(w)
<1>1. PICK w \in Workflows : w = planner[p].workflow
  BY DEF TypeOK, PlannerState
<1>2. Holds(p, w)
  BY <1>1 DEF Holds
<1>3. \A q \in Planners : Holds(q, w) => q = p
  BY <1>2 DEF HeldInv, PlanningExclusive
<1>4. \A q \in Planners, v \in Workflows : Holds(q, v)' <=> Holds(q, v) /\ q # p
  BY DEF Holds
<1>5. \A v \in Workflows : Holds(p, v) => v = w
  BY <1>1 DEF Holds
<1>6. HoldersOf(w) # {} /\ HoldersOf(w)' = {}
  BY <1>2, <1>3, <1>4 DEF HoldersOf
<1>7. \A v \in Workflows \ {w} : HoldersOf(v)' = HoldersOf(v)
  BY <1>4, <1>5 DEF HoldersOf
<1>8. Ledger!Release(w)
  BY <1>6, <1>7 DEF Ledger!Release
<1> QED
  BY <1>8

LEMMA AddStep ==
  ASSUME Inv, NEW p \in Planners, StoreVersion(p),
         \A w \in Workflows : HoldersOf(w)' = HoldersOf(w)
  PROVE  \E w \in Workflows : Ledger!AddVersion(w)
<1>1. PICK w \in Workflows, new \in CoursePlan :
        /\ Holds(p, w)
        /\ plans' = [plans EXCEPT ![w] = @ \cup {new}]
        /\ new.version = Cardinality(plans[w]) + 1
        /\ new.status = "DRAFT"
  BY StoreNext DEF Inv
<1>2. plans[w] \in SUBSET CoursePlan /\ Numbered(plans[w])
  BY DEF Inv, TypeOK, LedgerInv
<1>3. LedgerOf(plans[w] \cup {new})
        = Append(LedgerOf(plans[w]), [status |-> "DRAFT", passed |-> new.passed])
  BY <1>1, <1>2, AddRow DEF EntryFor
<1>4. \A v \in Workflows : plans'[v] = IF v = w THEN plans[w] \cup {new} ELSE plans[v]
  BY <1>1 DEF Inv, TypeOK
<1>5. new.passed \in BOOLEAN
  BY DEF CoursePlan
<1>6. HoldersOf(w) # {}
  BY <1>1 DEF HoldersOf
<1>7. Ledger!AddVersion(w)
  <2>1. [v \in Workflows |-> LedgerOf(plans[v])]'
          = [[v \in Workflows |-> LedgerOf(plans[v])] EXCEPT
               ![w] = Append(@, [status |-> "DRAFT", passed |-> new.passed])]
    BY <1>3, <1>4
  <2> QED
    BY <1>5, <1>6, <2>1 DEF Ledger!AddVersion
<1> QED
  BY <1>7

LEMMA DecideStep ==
  ASSUME Inv, NEW r \in Reviews, SetStatus(r)
  PROVE  \E w \in Workflows : \E v \in DOMAIN LedgerOf(plans[w]) : Ledger!DecideVersion(w, v)
<1>1. PICK w \in Workflows, d \in {"APPROVED", "REJECTED"} : \E chosen \in plans[w] :
        /\ plans' = [plans EXCEPT ![w] = Decide(@, chosen.version, d)]
        /\ d = "APPROVED" =>
             /\ chosen.passed
             /\ \A plan \in plans[w] : plan.status = "APPROVED" => plan = chosen
  BY DecideNext DEF Inv
<1>2. PICK chosen \in plans[w] :
        /\ plans' = [plans EXCEPT ![w] = Decide(@, chosen.version, d)]
        /\ d = "APPROVED" =>
             /\ chosen.passed
             /\ \A plan \in plans[w] : plan.status = "APPROVED" => plan = chosen
  BY <1>1
<1> DEFINE k == chosen.version
           before == LedgerOf(plans[w])
<1>3. plans[w] \in SUBSET CoursePlan /\ Numbered(plans[w]) /\ d \in CoursePlanStatus
  BY DEF Inv, TypeOK, LedgerInv, CoursePlanStatus
<1>4. LedgerOf(Decide(plans[w], k, d)) = [before EXCEPT ![k].status = d]
  BY <1>3, DecideRow
<1>5. \A v \in Workflows :
        plans'[v] = IF v = w THEN Decide(plans[w], k, d) ELSE plans[v]
  BY <1>2 DEF Inv, TypeOK
<1>6. k \in DOMAIN before
  BY <1>3 DEF Numbered, LedgerOf
<1>7. ASSUME NEW v \in DOMAIN before
      PROVE  \E plan \in plans[w] : plan.version = v /\ before[v] = EntryFor(plan)
  <2>1. v \in 1 .. Cardinality(plans[w])
    BY DEF LedgerOf
  <2>2. PICK plan \in plans[w] : plan.version = v
    BY <1>3, <2>1 DEF Numbered
  <2>3. before[v] = EntryOf(plans[w], v)
    BY <2>1 DEF LedgerOf
  <2>4. EntryOf(plans[w], v) = EntryFor(plan)
    BY <1>3, <2>2, EntryIsRow
  <2> QED
    BY <2>2, <2>3, <2>4
<1>8. ASSUME d = "APPROVED"
      PROVE  /\ before[k].passed
             /\ \A other \in DOMAIN before : before[other].status = "APPROVED" => other = k
  <2>1. before[k] = EntryFor(chosen)
    BY <1>3, <1>6, <1>7 DEF Numbered
  <2>2. ASSUME NEW other \in DOMAIN before, before[other].status = "APPROVED"
        PROVE  other = k
    <3>1. PICK plan \in plans[w] : plan.version = other /\ before[other] = EntryFor(plan)
      BY <1>7
    <3>2. plan.status = "APPROVED"
      BY <2>2, <3>1 DEF EntryFor
    <3> QED
      BY <1>2, <1>8, <3>1, <3>2
  <2> QED
    BY <1>2, <1>8, <2>1, <2>2 DEF EntryFor
<1>9. [v \in Workflows |-> LedgerOf(plans[v])]'
        = [[v \in Workflows |-> LedgerOf(plans[v])] EXCEPT ![w][k].status = d]
  BY <1>4, <1>5
<1>10. planner' = planner
  BY DEF SetStatus
<1>11. \A v \in Workflows : HoldersOf(v)' = HoldersOf(v)
  BY <1>10 DEF HoldersOf, Holds
<1>12. d = "APPROVED" => Ledger!MayApprove(w, k)
  BY <1>8 DEF Ledger!MayApprove
<1>13. Ledger!DecideVersion(w, k)
  BY <1>9, <1>11, <1>12 DEF Ledger!DecideVersion
<1> QED
  BY <1>6, <1>13

\* A run holds its workflow and a request does not, and each step is one's own.
LEMMA RunShape ==
  ASSUME TypeOK, NEW p \in Planners, RunStep(p)
  PROVE  /\ \A q \in Planners \ {p} : planner'[q] = planner[q]
         /\ planner'[p].workflow = planner[p].workflow
         /\ planner[p].pc \notin Outside
<1>0. planner[p] \in PlannerState
  BY DEF TypeOK
<1>1. ASSUME NEW to, NEW row, SaveRun(p, to, row)
      PROVE  /\ \A q \in Planners \ {p} : planner'[q] = planner[q]
             /\ planner'[p].workflow = planner[p].workflow
  BY <1>0, <1>1 DEF SaveRun, TypeOK, PlannerState
<1>2. CASE LoadWorkflow(p) \/ PreparePlanning(p) \/ NextAttempt(p)
  BY <1>0, <1>2 DEF LoadWorkflow, PreparePlanning, NextAttempt, Step, TypeOK, PlannerState,
                    Outside
<1>3. CASE NumberVersion(p) \/ StoreVersion(p) \/ StoreConflict(p)
  BY <1>0, <1>3 DEF NumberVersion, StoreVersion, StoreConflict, Step, TypeOK, PlannerState,
                    Outside
<1>4. CASE PlannerUnavailable(p) \/ BeginPlanningRun(p) \/ EnterPlanning(p)
  BY <1>1, <1>4 DEF PlannerUnavailable, BeginPlanningRun, EnterPlanning, Outside
<1>5. CASE PlanningFails(p) \/ RetryFix(p) \/ PlanGenerated(p)
  BY <1>1, <1>5 DEF PlanningFails, RetryFix, PlanGenerated, Outside
<1>6. CASE EnterValidating(p) \/ VersionRefused(p) \/ FinishValidating(p) \/ AwaitReview(p)
  BY <1>1, <1>6 DEF EnterValidating, VersionRefused, FinishValidating, AwaitReview, Outside
<1> QED
  BY <1>2, <1>3, <1>4, <1>5, <1>6 DEF RunStep

LEMMA LedgerStep ==
  ASSUME Updates = {}, Inv, [Next]_vars
  PROVE  [Ledger!LedgerNext]_Ledger!ledgerVars
<1> USE DEF Inv
<1>1. ASSUME plans' = plans, planner' = planner PROVE UNCHANGED Ledger!ledgerVars
  <2>1. \A p \in Planners, w \in Workflows : Holds(p, w)' <=> Holds(p, w)
    BY <1>1 DEF Holds
  <2> QED
    BY <1>1, <2>1, SameHolders, Stutters
<1>2. ASSUME NEW p \in Planners, RequestStep(p)
      PROVE  [Ledger!LedgerNext]_Ledger!ledgerVars
  <2>1. CASE ClaimPlanning(p)
    BY <2>1, ClaimStep DEF Ledger!LedgerNext
  <2>2. CASE StartPlanning(p) \/ ClaimRefused(p)
    <3>1. /\ \A q \in Planners \ {p} : planner'[q] = planner[q]
          /\ planner[p].pc \in Outside /\ planner'[p].pc \in Outside
          /\ plans' = plans
      BY <2>2 DEF StartPlanning, ClaimRefused, Step, TypeOK, PlannerState, Outside
    <3>2. \A q \in Planners, w \in Workflows : Holds(q, w)' <=> Holds(q, w)
      BY <3>1 DEF Holds
    <3> QED
      BY <3>1, <3>2, SameHolders, Stutters
  <2> QED
    BY <1>2, <2>1, <2>2 DEF RequestStep
<1>3. ASSUME NEW p \in Planners, RunStep(p)
      PROVE  [Ledger!LedgerNext]_Ledger!ledgerVars
  <2>1. /\ \A q \in Planners \ {p} : planner'[q] = planner[q]
        /\ planner'[p].workflow = planner[p].workflow
        /\ planner[p].pc \notin Outside
    BY <1>3, RunShape
  <2>2. plans' = plans \/ StoreVersion(p)
    BY <1>3 DEF RunStep, LoadWorkflow, PlannerUnavailable, BeginPlanningRun, EnterPlanning,
                PreparePlanning, PlanningFails, RetryFix, NextAttempt, PlanGenerated,
                EnterValidating, VersionRefused, NumberVersion, StoreConflict,
                FinishValidating, AwaitReview, Step, SaveRun
  <2>3. CASE planner'[p].pc \in Outside
    <3>1. ~StoreVersion(p)
      BY <2>3 DEF StoreVersion, TypeOK, PlannerState, Outside
    <3> QED
      BY <2>1, <2>2, <2>3, <3>1, ReleaseStep DEF Ledger!LedgerNext
  <2>4. CASE planner'[p].pc \notin Outside
    <3>1. \A q \in Planners, w \in Workflows : Holds(q, w)' <=> Holds(q, w)
      BY <2>1, <2>4 DEF Holds
    <3>2. \A w \in Workflows : HoldersOf(w)' = HoldersOf(w)
      BY <3>1, SameHolders
    <3>3. CASE plans' = plans
      BY <3>2, <3>3, Stutters
    <3>4. CASE StoreVersion(p)
      BY <3>2, <3>4, AddStep DEF Ledger!LedgerNext
    <3> QED
      BY <2>2, <3>3, <3>4
  <2> QED
    BY <2>3, <2>4
<1>4. ASSUME NEW r \in Reviews, ReviewStep(r)
      PROVE  [Ledger!LedgerNext]_Ledger!ledgerVars
  <2>1. CASE SetStatus(r)
    <3>1. PICK w \in Workflows :
            \E v \in DOMAIN LedgerOf(plans[w]) : Ledger!DecideVersion(w, v)
      BY <2>1, DecideStep
    <3>2. DOMAIN [u \in Workflows |-> LedgerOf(plans[u])][w] = DOMAIN LedgerOf(plans[w])
      OBVIOUS
    <3> QED
      BY <3>1, <3>2 DEF Ledger!LedgerNext
  <2>2. CASE AdmitReview(r) \/ ReviewLatest(r) \/ ReviewRefused(r) \/ ApprovalConflict(r)
    BY <1>1, <2>2 DEF AdmitReview, ReviewLatest, ReviewRefused, ApprovalConflict
  <2> QED
    BY <1>4, <2>1, <2>2 DEF ReviewStep
<1>5. ASSUME NEW w \in Workflows, AnalysisChanges(w)
      PROVE  [Ledger!LedgerNext]_Ledger!ledgerVars
  BY <1>1, <1>5 DEF AnalysisChanges
<1>6. CASE Crash
  <2>1. \A p \in Planners : planner'[p].pc \in Outside
    BY <1>6 DEF Crash, TypeOK, PlannerState, Outside
  <2>2. \A w \in Workflows : HoldersOf(w)' = {}
    BY <2>1 DEF HoldersOf, Holds
  <2>3. plans' = plans
    BY <1>6 DEF Crash
  <2>4. Ledger!ReleaseAll
    BY <2>2, <2>3 DEF Ledger!ReleaseAll
  <2> QED
    BY <2>4 DEF Ledger!LedgerNext
<1>7. CASE UNCHANGED vars
  BY <1>1, <1>7 DEF vars
<1> QED
  BY <1>2, <1>3, <1>4, <1>5, <1>6, <1>7 DEF Next

LEMMA LedgerStart == Init => Ledger!LedgerInit
<1> SUFFICES ASSUME Init PROVE Ledger!LedgerInit
  OBVIOUS
<1>1. \A w \in Workflows : HoldersOf(w) = {}
  BY DEF Init, HoldersOf, Holds, Outside
<1>2. \A w \in Workflows : LedgerOf(plans[w]) = <<>>
  <2>1. Cardinality({}) = 0
    BY FS_EmptySet
  <2> QED
    BY <2>1 DEF Init, LedgerOf
<1> QED
  BY <1>1, <1>2 DEF Ledger!LedgerInit

\* Without changes of the Moodle target the requests, runs, reviews and crashes
\* keep the promise of the planning: one holder at a time, versions are added by
\* a holder at the end of the ledger, stay there, and are decided on with a
\* passed validation and no other approval.
THEOREM PlanningKeepsLedger ==
  ASSUME Updates = {}
  PROVE  Spec => Ledger!LedgerSpec
<1>1. Init => Inv
  BY InvInit
<1>2. Inv /\ [Next]_vars => Inv'
  BY InvNext
<1>3. Init => Ledger!LedgerInit
  BY LedgerStart
<1>4. Inv /\ [Next]_vars => [Ledger!LedgerNext]_Ledger!ledgerVars
  BY LedgerStep
<1> QED
  BY <1>1, <1>2, <1>3, <1>4, PTL DEF Spec, Ledger!LedgerSpec

=============================================================================
