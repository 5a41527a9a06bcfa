--------------------------- MODULE CoursePlanning ---------------------------
(***************************************************************************)
(* The life of the course plans of a workflow, from the requests that      *)
(* start a planning run to the instructor's decision on a version:         *)
(*                                                                         *)
(*  - a planning request (POST .../plan, .../plan/regenerate) checks its   *)
(*    preconditions, claims the workflow with a conditional UPDATE, and    *)
(*    hands it to a background run (services/workflow/orchestrator.py);    *)
(*  - a review request (POST .../plan/approve, .../plan/reject) looks at   *)
(*    the workflow, then at the latest version, then writes its decision;  *)
(*  - an update request (PUT .../moodle-target) reads the workflow's row   *)
(*    and writes it back with another target.                              *)
(*                                                                         *)
(* All of them run at the same time, each with a database session of its   *)
(* own.  One action is the code between two awaits at which another        *)
(* request may change what this one has read.  The runs and the updates    *)
(* hold a copy of the workflow's row and save all of its columns           *)
(* (repository.update), so a save overwrites whatever was written since    *)
(* the copy was made.                                                      *)
(*                                                                         *)
(* The events that are recorded and published beside each save are left    *)
(* out: nothing here reads them.                                           *)
(***************************************************************************)
EXTENDS WorkflowRecord, FiniteSets

CONSTANTS
  Workflows,          \* workflows whose RPS run has ended
  Planners,           \* planning requests, each with its background run
  Reviews,            \* review requests
  Updates,            \* requests to change the Moodle target
  MaxFixAttempts,     \* COURSE_PLANNING_MAX_FIX_ATTEMPTS
  MaxCrashes          \* bound on the crashes of the backend's process

ASSUME ConstantsAssumption ==
  /\ MaxFixAttempts \in Nat
  /\ MaxCrashes \in Nat

VARIABLES
  workflows,    \* the rows of the table workflows
  plans,        \* for each workflow, its rows of the table course_plans
  analyzed,     \* the workflow's RPS has the status ANALYZED
  planner,      \* the planning requests and their runs
  review,       \* the review requests
  update,       \* the requests to change the Moodle target
  crashes       \* crashes so far

vars == <<workflows, plans, analyzed, planner, review, update, crashes>>

-----------------------------------------------------------------------------
(* Rows and processes.                                                     *)

CoursePlanStatus == {"DRAFT", "APPROVED", "REJECTED"}

\* passed is what the academic validation said of the version.
CoursePlan == [version : Nat \ {0}, status : CoursePlanStatus, passed : BOOLEAN]

\* Before the claim a request owns nothing; after it, the run has the
\* workflow to itself, if the conditional UPDATE is enough for that.
Outside == {"idle", "checked", "ended"}

Scheduled == {"claimed"}

\* The run has read the row: ctx is WorkflowContext.workflow.
Executing == {"loaded", "begun", "preparing", "generating", "retrying", "planned",
              "validating", "storing", "stored", "finished"}

PlannerState ==
  [pc : Outside \cup Scheduled \cup Executing,
   workflow : Workflows,
   ctx : WorkflowRow,
   attempt : Nat \ {0},
   version : Nat \ {0}]

ReviewState ==
  [pc : {"idle", "admitted", "decided", "ended"},
   workflow : Workflows,
   decision : {"APPROVED", "REJECTED"},
   version : Nat \ {0}]

UpdateState ==
  [pc : {"idle", "read", "ended"}, workflow : Workflows, copy : WorkflowRow]

\* The workflow is held by the run of p.
Holds(p, w) == planner[p].pc \notin Outside /\ planner[p].workflow = w

IsLatest(plan, rows) ==
  plan \in rows /\ \A other \in rows : other.version <= plan.version

HasApproved(rows) == \E plan \in rows : plan.status = "APPROVED"

\* v is the number next_version computes from these rows.
IsNextVersion(v, rows) ==
  \/ rows = {} /\ v = 1
  \/ \E plan \in rows : IsLatest(plan, rows) /\ v = plan.version + 1

-----------------------------------------------------------------------------
(* The workflows start where an RPS run leaves them: analyzed and waiting, *)
(* or failed on the way.                                                   *)

InitialRow ==
  {row \in WorkflowRow :
     /\ row.target = NoTarget
     /\ \/ row.status = "WAITING_FOR_REVIEW" /\ row.completed = row.total
        \/ row.status = "FAILED" /\ row.completed < row.total}

Init ==
  /\ workflows \in [Workflows -> InitialRow]
  /\ plans = [w \in Workflows |-> {}]
  /\ analyzed = [w \in Workflows |-> workflows[w].status = "WAITING_FOR_REVIEW"]
  /\ planner \in [Planners -> [pc : {"idle"}, workflow : Workflows,
                               ctx : {Create(1)}, attempt : {1}, version : {1}]]
  /\ review \in [Reviews -> [pc : {"idle"}, workflow : Workflows,
                             decision : {"APPROVED", "REJECTED"}, version : {1}]]
  /\ update \in [Updates -> [pc : {"idle"}, workflow : Workflows,
                             copy : {Create(1)}]]
  /\ crashes = 0

-----------------------------------------------------------------------------
(* Planning requests.                                                      *)

\* Move a planner on without touching the database.
Step(p, from, to) ==
  /\ planner[p].pc = from
  /\ planner' = [planner EXCEPT ![p].pc = to]
  /\ UNCHANGED <<workflows, plans, analyzed, review, update, crashes>>

\* Mutated: the run saves the row but does not keep it.
SaveRunForgotten(p, to, row) ==
  /\ workflows' = [workflows EXCEPT ![planner[p].workflow] = row]
  /\ planner' = [planner EXCEPT ![p].pc = to]
  /\ UNCHANGED <<plans, analyzed, review, update, crashes>>

\* The run saves the row it holds, every column of it, and keeps what it
\* saved as its new copy.
SaveRun(p, to, row) ==
  /\ workflows' = [workflows EXCEPT ![planner[p].workflow] = row]
  /\ planner' = [planner EXCEPT ![p].pc = to, ![p].ctx = row]
  /\ UNCHANGED <<plans, analyzed, review, update, crashes>>

\* start_planning up to the claim: POST /plan wants no version at all, POST
\* /plan/regenerate a latest version that was rejected.
MayGenerate(w) == analyzed[w] /\ plans[w] = {}

MayRegenerate(w) ==
  /\ analyzed[w]
  /\ \E plan \in plans[w] : IsLatest(plan, plans[w]) /\ plan.status = "REJECTED"

StartPlanning(p) ==
  /\ MayGenerate(planner[p].workflow) \/ MayRegenerate(planner[p].workflow)
  /\ Step(p, "idle", "checked")

\* Mutated: a workflow that is being planned may be claimed again.
ClaimableAgain == {"WAITING_FOR_REVIEW", "FAILED", "PLANNING_COURSE"}

Claimable == {"WAITING_FOR_REVIEW", "FAILED"}

\* claim_status: one conditional UPDATE of the status column.
ClaimPlanning(p) ==
  LET w == planner[p].workflow IN
  /\ planner[p].pc = "checked"
  /\ workflows[w].status \in Claimable
  /\ workflows' = [workflows EXCEPT ![w].status = "PLANNING_COURSE"]
  /\ planner' = [planner EXCEPT ![p].pc = "claimed"]
  /\ UNCHANGED <<plans, analyzed, review, update, crashes>>

ClaimRefused(p) ==
  /\ workflows[planner[p].workflow].status \notin Claimable
  /\ Step(p, "checked", "ended")

-----------------------------------------------------------------------------
(* The background run of a planning request.                               *)

LoadWorkflow(p) ==
  /\ planner[p].pc = "claimed"
  /\ planner' = [planner EXCEPT ![p].pc = "loaded",
                                ![p].ctx = workflows[planner[p].workflow]]
  /\ UNCHANGED <<workflows, plans, analyzed, review, update, crashes>>

\* Mutated: the run returns without fail_run.
PlannerUnavailableSilent(p) == Step(p, "loaded", "ended")

\* The provider is misconfigured: the run closes the workflow at once.
PlannerUnavailable(p) ==
  /\ planner[p].pc = "loaded"
  /\ SaveRun(p, "ended", FailRun(planner[p].ctx))

BeginPlanningRun(p) ==
  /\ planner[p].pc = "loaded"
  /\ SaveRun(p, "begun", BeginRun(planner[p].ctx, 2))

EnterPlanning(p) ==
  /\ planner[p].pc = "begun"
  /\ SaveRun(p, "preparing", EnterStage(planner[p].ctx, "PLANNING_COURSE"))

\* prepare_planning reads the analysis again: the check of the request is old.
PreparePlanning(p) ==
  /\ analyzed[planner[p].workflow]
  /\ Step(p, "preparing", "generating")

\* Mutated: the failure is not recorded.
PlanningFailsSilent(p) ==
  \/ Step(p, "preparing", "ended")
  \/ Step(p, "generating", "ended")

\* The context cannot be built, or the model fails for good.
PlanningFails(p) ==
  /\ planner[p].pc \in {"preparing", "generating"}
  /\ SaveRun(p, "ended", FailRun(planner[p].ctx))

\* The model's output is no plan and attempts are left: RETRY_FIX.
RetryFix(p) ==
  /\ planner[p].pc = "generating"
  /\ planner[p].attempt < MaxFixAttempts + 1
  /\ IsActive(planner[p].ctx)
  /\ SaveRun(p, "retrying", MarkRetrying(planner[p].ctx))

\* LLM_CALLING of the next attempt.
NextAttempt(p) ==
  LET run == planner[p]
      row == ResumeStage(run.ctx, "PLANNING_COURSE")
  IN
  /\ run.pc = "retrying"
  /\ workflows' = [workflows EXCEPT ![run.workflow] = row]
  /\ planner' = [planner EXCEPT ![p].pc = "generating", ![p].ctx = row,
                                ![p].attempt = @ + 1]
  /\ UNCHANGED <<plans, analyzed, review, update, crashes>>

PlanGenerated(p) ==
  /\ planner[p].pc = "generating"
  /\ IsActive(planner[p].ctx)
  /\ SaveRun(p, "planned", CompleteStage(planner[p].ctx))

EnterValidating(p) ==
  /\ planner[p].pc = "planned"
  /\ SaveRun(p, "validating", EnterStage(planner[p].ctx, "VALIDATING"))

\* create_version refuses a workflow with an approved version.
VersionRefused(p) ==
  /\ planner[p].pc = "validating"
  /\ HasApproved(plans[planner[p].workflow])
  /\ SaveRun(p, "ended", FailRun(planner[p].ctx))

NumberVersion(p) ==
  LET rows == plans[planner[p].workflow] IN
  /\ planner[p].pc = "validating"
  /\ ~HasApproved(rows)
  /\ \E v \in 1 .. Cardinality(rows) + 1 :
       /\ IsNextVersion(v, rows)
       /\ planner' = [planner EXCEPT ![p].pc = "storing", ![p].version = v]
  /\ UNCHANGED <<workflows, plans, analyzed, review, update, crashes>>

\* uq_course_plans_workflow_version.
VersionTaken(w, v) == \E plan \in plans[w] : plan.version = v

\* Mutated: no unique constraint on the version.
StoreVersionUnchecked(p) ==
  LET run == planner[p] IN
  /\ run.pc = "storing"
  /\ \E passed \in BOOLEAN :
       plans' = [plans EXCEPT ![run.workflow] =
                   @ \cup {[version |-> run.version, status |-> "DRAFT",
                            passed |-> passed]}]
  /\ planner' = [planner EXCEPT ![p].pc = "stored"]
  /\ UNCHANGED <<workflows, analyzed, review, update, crashes>>

\* Mutated: a version with the same number is replaced.
StoreVersionReplacing(p) ==
  LET run == planner[p] IN
  /\ run.pc = "storing"
  /\ \E passed \in BOOLEAN :
       plans' = [plans EXCEPT ![run.workflow] =
                   {plan \in @ : plan.version # run.version}
                     \cup {[version |-> run.version, status |-> "DRAFT",
                            passed |-> passed]}]
  /\ planner' = [planner EXCEPT ![p].pc = "stored"]
  /\ UNCHANGED <<workflows, analyzed, review, update, crashes>>

StoreVersion(p) ==
  LET run == planner[p] IN
  /\ run.pc = "storing"
  /\ ~VersionTaken(run.workflow, run.version)
  /\ \E passed \in BOOLEAN :
       plans' = [plans EXCEPT ![run.workflow] =
                   @ \cup {[version |-> run.version, status |-> "DRAFT",
                            passed |-> passed]}]
  /\ planner' = [planner EXCEPT ![p].pc = "stored"]
  /\ UNCHANGED <<workflows, analyzed, review, update, crashes>>

\* The flush fails and so does fail_run, on a session that wants a rollback:
\* the run is over and the row stays VALIDATING.
StoreConflict(p) ==
  /\ VersionTaken(planner[p].workflow, planner[p].version)
  /\ Step(p, "storing", "ended")

FinishValidating(p) ==
  /\ planner[p].pc = "stored"
  /\ IsActive(planner[p].ctx)
  /\ SaveRun(p, "finished", CompleteStage(planner[p].ctx))

AwaitReview(p) ==
  /\ planner[p].pc = "finished"
  /\ ~IsTerminal(planner[p].ctx)
  /\ SaveRun(p, "ended", WaitForReview(planner[p].ctx))

-----------------------------------------------------------------------------
(* Review requests.                                                        *)

AdmitReview(r) ==
  /\ review[r].pc = "idle"
  /\ workflows[review[r].workflow].status = "WAITING_FOR_REVIEW"
  /\ review' = [review EXCEPT ![r].pc = "admitted"]
  /\ UNCHANGED <<workflows, plans, analyzed, planner, update, crashes>>

\* Mutated: the validation is not looked at.
ReviewableUnpassed(plan, rows, decision) == IsLatest(plan, rows) /\ plan.status = "DRAFT"

\* The latest version may be decided on while it is a draft, and approved
\* only if it passed the validation.
Reviewable(plan, rows, decision) ==
  /\ IsLatest(plan, rows)
  /\ plan.status = "DRAFT"
  /\ decision = "APPROVED" => plan.passed

ReviewLatest(r) ==
  LET rows == plans[review[r].workflow] IN
  /\ review[r].pc = "admitted"
  /\ \E plan \in rows :
       /\ Reviewable(plan, rows, review[r].decision)
       /\ review' = [review EXCEPT ![r].pc = "decided", ![r].version = plan.version]
  /\ UNCHANGED <<workflows, plans, analyzed, planner, update, crashes>>

ReviewRefused(r) ==
  LET rows == plans[review[r].workflow] IN
  /\ review[r].pc = "admitted"
  /\ \A plan \in rows : ~Reviewable(plan, rows, review[r].decision)
  /\ review' = [review EXCEPT ![r].pc = "ended"]
  /\ UNCHANGED <<workflows, plans, analyzed, planner, update, crashes>>

\* Mutated: the index is not there.
OtherApprovedUnseen(rows, v) == FALSE

\* uq_course_plans_workflow_approved.
OtherApproved(rows, v) ==
  \E plan \in rows : plan.status = "APPROVED" /\ plan.version # v

Decide(rows, v, decision) ==
  {IF plan.version = v THEN [plan EXCEPT !.status = decision] ELSE plan : plan \in rows}

\* set_status reads the version again and overwrites its status.
SetStatus(r) ==
  LET req == review[r] IN
  /\ req.pc = "decided"
  /\ req.decision = "APPROVED" => ~OtherApproved(plans[req.workflow], req.version)
  /\ plans' = [plans EXCEPT ![req.workflow] = Decide(@, req.version, req.decision)]
  /\ review' = [review EXCEPT ![r].pc = "ended"]
  /\ UNCHANGED <<workflows, analyzed, planner, update, crashes>>

ApprovalConflict(r) ==
  /\ review[r].pc = "decided"
  /\ review[r].decision = "APPROVED"
  /\ OtherApproved(plans[review[r].workflow], review[r].version)
  /\ review' = [review EXCEPT ![r].pc = "ended"]
  /\ UNCHANGED <<workflows, plans, analyzed, planner, update, crashes>>

-----------------------------------------------------------------------------
(* Requests to change the Moodle target.                                   *)

ReadRow(u) ==
  /\ update[u].pc = "idle"
  /\ update' = [update EXCEPT ![u].pc = "read",
                              ![u].copy = workflows[update[u].workflow]]
  /\ UNCHANGED <<workflows, plans, analyzed, planner, review, crashes>>

WriteTarget(u) ==
  /\ update[u].pc = "read"
  /\ \E target \in Targets \cup {NoTarget} :
       workflows' = [workflows EXCEPT ![update[u].workflow] =
                       SetMoodleCourse(update[u].copy, target)]
  /\ update' = [update EXCEPT ![u].pc = "ended"]
  /\ UNCHANGED <<plans, analyzed, planner, review, crashes>>

-----------------------------------------------------------------------------
(* The surroundings.                                                       *)

\* POST /rps/{id}/process takes the document out of ANALYZED, under another
\* workflow, and its run brings it back.
AnalysisChanges(w) ==
  /\ analyzed' = [analyzed EXCEPT ![w] = ~@]
  /\ UNCHANGED <<workflows, plans, planner, review, update, crashes>>

\* The process dies: requests and runs are lost, the tables stay.
Crash ==
  /\ crashes < MaxCrashes
  /\ crashes' = crashes + 1
  /\ planner' = [p \in Planners |->
                   IF planner[p].pc = "idle" THEN planner[p]
                   ELSE [planner[p] EXCEPT !.pc = "ended"]]
  /\ review' = [r \in Reviews |->
                  IF review[r].pc = "idle" THEN review[r]
                  ELSE [review[r] EXCEPT !.pc = "ended"]]
  /\ update' = [u \in Updates |->
                  IF update[u].pc = "idle" THEN update[u]
                  ELSE [update[u] EXCEPT !.pc = "ended"]]
  /\ UNCHANGED <<workflows, plans, analyzed>>

-----------------------------------------------------------------------------

\* A claimed run, which the event loop carries to its end.
RunStep(p) ==
  \/ LoadWorkflow(p) \/ PlannerUnavailable(p) \/ BeginPlanningRun(p)
  \/ EnterPlanning(p) \/ PreparePlanning(p) \/ PlanningFails(p)
  \/ RetryFix(p) \/ NextAttempt(p) \/ PlanGenerated(p)
  \/ EnterValidating(p) \/ VersionRefused(p) \/ NumberVersion(p)
  \/ StoreVersion(p) \/ StoreConflict(p) \/ FinishValidating(p) \/ AwaitReview(p)

RequestStep(p) == StartPlanning(p) \/ ClaimPlanning(p) \/ ClaimRefused(p)

ReviewStep(r) ==
  AdmitReview(r) \/ ReviewLatest(r) \/ ReviewRefused(r) \/ SetStatus(r)
  \/ ApprovalConflict(r)

UpdateStep(u) == ReadRow(u) \/ WriteTarget(u)

Next ==
  \/ \E p \in Planners : RequestStep(p) \/ RunStep(p)
  \/ \E r \in Reviews : ReviewStep(r)
  \/ \E u \in Updates : UpdateStep(u)
  \/ \E w \in Workflows : AnalysisChanges(w)
  \/ Crash

Spec == Init /\ [][Next]_vars

\* Only the runs are fair: nobody is obliged to send or to finish a request.
FairSpec == Spec /\ \A p \in Planners : WF_vars(RunStep(p))

-----------------------------------------------------------------------------
(* Properties.                                                             *)

\* Every row and every request has the shape the code gives it.
TypeOK ==
  /\ workflows \in [Workflows -> WorkflowRow]
  /\ plans \in [Workflows -> SUBSET CoursePlan]
  /\ analyzed \in [Workflows -> BOOLEAN]
  /\ planner \in [Planners -> PlannerState]
  /\ review \in [Reviews -> ReviewState]
  /\ update \in [Updates -> UpdateState]
  /\ crashes \in Nat

\* Two planning runs never hold the same workflow: the claim of start_planning
\* is a lock.
PlanningExclusive ==
  \A p, q \in Planners, w \in Workflows : Holds(p, w) /\ Holds(q, w) => p = q

\* While a run holds a workflow its status says so, which keeps out other
\* claims and the reviews, up to the run's own last save.
HeldMeansRunning ==
  \A p \in Planners, w \in Workflows : Holds(p, w) => workflows[w].status \in Running

\* The copy a run is about to save is the row as it stands, so that none of
\* its saves undoes a write of somebody else (WorkflowContext.workflow).
CopyCurrent ==
  \A p \in Planners :
    planner[p].pc \in Executing => planner[p].ctx = workflows[planner[p].workflow]

\* A workflow that shows a stage at work is being worked on, unless the
\* backend crashed: no failure of a run leaves the claim behind.
RunningMeansHeld ==
  \A w \in Workflows :
    workflows[w].status \in Running /\ crashes = 0 => \E p \in Planners : Holds(p, w)

\* A workflow that waits for its instructor shows all the stages of its last
\* run as completed (progress_completed and progress_total).
WaitingMeansDone ==
  \A w \in Workflows :
    workflows[w].status = "WAITING_FOR_REVIEW" => workflows[w].completed = workflows[w].total

\* The versions of a workflow are numbered 1, 2, ... without a gap or a
\* duplicate, whoever stores them at the same time (next_version, create).
VersionsNumbered ==
  \A w \in Workflows : \A plan \in plans[w] :
    /\ \A other \in plans[w] : other.version = plan.version => other = plan
    /\ \A v \in 1 .. plan.version : VersionTaken(w, v)

\* At most one version of a workflow is approved, whatever reviews race with
\* one another and with a run (approve, set_status and the unique index).
OneApproved ==
  \A w \in Workflows : \A a, b \in plans[w] :
    a.status = "APPROVED" /\ b.status = "APPROVED" => a = b

\* Only a version that passed the validation is ever approved, although the
\* check and the write are apart (approve).
OnlyPassedApproved ==
  \A w \in Workflows : \A plan \in plans[w] : plan.status = "APPROVED" => plan.passed

\* A stored version is never overwritten, removed or made a draft again: new
\* plans are new versions (models/course_plan.py, create).
HistoryKept ==
  [][\A w \in Workflows : \A plan \in plans[w] : \E later \in plans'[w] :
       /\ later.version = plan.version
       /\ later.passed = plan.passed
       /\ later.status = "DRAFT" => plan.status = "DRAFT"]_vars

\* A workflow that is being planned ends up waiting for its instructor or
\* failed: whatever the model and the validation do, no run leaves it behind,
\* unless the backend dies.
PlanningSettles ==
  \A w \in Workflows :
    workflows[w].status \in Running ~> workflows[w].status \in Claimable \/ crashes > 0

=============================================================================
