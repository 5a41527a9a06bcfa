------------------------------ MODULE Backend ------------------------------
(***************************************************************************)
(* The two halves of the backend on the same rows: the processings and     *)
(* analyses of one document (RpsPipeline) and the planning and the reviews *)
(* of its workflows (CoursePlanning).  They meet in the table workflows,   *)
(* which both save whole rows of, and in the status of the document, which *)
(* the planning checks.                                                    *)
(*                                                                         *)
(* Only claim_planning is conditional.  A reanalysis asks for no claim and *)
(* is admitted while its workflow is being planned, so two runs may carry  *)
(* the same row on.  Changes of the Moodle target are left to              *)
(* CoursePlanning: one of them alone undoes a claim.  Leases are left to   *)
(* RpsPipeline: with one of them a document is taken over, not a workflow. *)
(***************************************************************************)
EXTENDS RpsPipeline

CONSTANTS
  Planners,           \* planning requests, each with its background run
  Reviews,            \* review requests
  PlanFixAttempts     \* COURSE_PLANNING_MAX_FIX_ATTEMPTS

ASSUME BackendAssumption == PlanFixAttempts \in Nat

VARIABLES
  plans,        \* for each workflow, its rows of the table course_plans
  planner,      \* the planning requests and their runs
  review        \* the review requests

planVars == <<plans, planner, review>>

rpsVars == <<document, fresh, created, request, expiries>>

backendVars == <<vars, planVars>>

\* get_analysis, for the workflow of a request: the row is there (404 if it is
\* not) and its RPS is analyzed (422 if it is not).
Analyzed == [w \in Ids |-> w \in created /\ document.status = "ANALYZED"]

Plan == INSTANCE CoursePlanning WITH
  Workflows <- Ids, MaxFixAttempts <- PlanFixAttempts, analyzed <- Analyzed,
  Updates <- {}, update <- <<>>

-----------------------------------------------------------------------------

\* The document and its workflow are at rest, and nobody has planned yet.
BackendInit ==
  /\ Init
  /\ plans = [w \in Ids |-> {}]
  /\ planner \in [Planners -> [pc : {"idle"}, workflow : created,
                               ctx : {Create(1)}, attempt : {1}, version : {1}]]
  /\ review \in [Reviews -> [pc : {"idle"}, workflow : created,
                             decision : {"APPROVED", "REJECTED"}, version : {1}]]

RpsStep ==
  /\ \E q \in Requests : RequestStep(q) \/ RunStep(q)
  /\ UNCHANGED planVars

PlannerStep(p) ==
  /\ UNCHANGED rpsVars
  /\ Plan!RequestStep(p) \/ Plan!RunStep(p)

ReviewStep == UNCHANGED rpsVars /\ \E r \in Reviews : Plan!ReviewStep(r)

\* One process serves all of them.
BackendCrash == Crash /\ Plan!Crash

BackendNext ==
  \/ RpsStep
  \/ \E p \in Planners : PlannerStep(p)
  \/ ReviewStep
  \/ BackendCrash

BackendSpec == BackendInit /\ [][BackendNext]_backendVars

\* What is under way in a run goes on; so does the answer to a request for the
\* document.  Nobody is obliged to send a request, to review or to plan.
BackendFairSpec ==
  /\ BackendSpec
  /\ \A q \in Requests : WF_backendVars(Serve(q) /\ UNCHANGED planVars)
  /\ \A p \in Planners : WF_backendVars(UNCHANGED rpsVars /\ Plan!RunStep(p))

-----------------------------------------------------------------------------
(* Properties.                                                             *)

\* Some run carries the workflow on.
Carried(w) ==
  \/ \E q \in Requests : Works(q, w)
  \/ \E p \in Planners : Plan!Holds(p, w)

\* Whatever runs overlap on a workflow, of whatever kind: when the last of them
\* is over, the row shows no stage at work, except that the loser of a race for
\* a version number leaves it in VALIDATING.  If it waits for its instructor,
\* the progress is complete, although the runs count different stages.
WorkflowsComeToRest ==
  \A w \in created :
    crashes = 0 /\ ~Carried(w) =>
      /\ workflows[w].status \notin Running \ {"VALIDATING"}
      /\ workflows[w].status = "VALIDATING" => plans[w] # {}
      /\ workflows[w].status = "WAITING_FOR_REVIEW" =>
           workflows[w].completed = workflows[w].total

\* The versions stay numbered, one of them approved at the most, and that one
\* validated, although a reanalysis lets a second planning run in while the
\* first one is at work (prepare_planning, create_version).
PlansSound ==
  /\ Plan!VersionsNumbered
  /\ Plan!OneApproved
  /\ Plan!OnlyPassedApproved

\* A workflow some run carries on is left to its instructor, or failed, in the
\* end, unless the backend dies or a race for a version number is lost.
WorkflowsSettle ==
  \A w \in Ids :
    workflows[w].status \in Running ~>
      \/ workflows[w].status \in {"WAITING_FOR_REVIEW", "FAILED"}
      \/ crashes > 0
      \/ workflows[w].status = "VALIDATING" /\ ~Carried(w)

=============================================================================
