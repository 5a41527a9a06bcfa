--------------------------- MODULE WorkflowRecord ---------------------------
(***************************************************************************)
(* The row of the table "workflows" and the transitions of its state       *)
(* machine (services/workflow/domain.py).  Every operator is the method of *)
(* the same name as a function from the record a caller holds to the       *)
(* record it will save.  The status is the one value all the runs and all  *)
(* the requests of the backend coordinate through.                         *)
(*                                                                         *)
(* Left out of the row, because nothing decides on them: the identifiers,  *)
(* the model's name and the time stamps.                                   *)
(***************************************************************************)
EXTENDS Integers

CONSTANTS
  Targets,      \* Moodle course ids an instructor may choose
  NoTarget      \* no Moodle course chosen (NULL)

ASSUME NoTargetAssumption == NoTarget \notin Targets

\* The statuses some run of the backend reaches.  GENERATING_CONTENT,
\* EXECUTING_TO_MOODLE, VERIFYING and COMPLETED belong to stages that no
\* orchestrated run contains yet.
Stages == {"PROCESSING_RPS", "ANALYZING_RPS", "PLANNING_COURSE", "VALIDATING"}

Running == Stages \cup {"RETRYING"}

TerminalStatuses == {"FAILED"}

WorkflowStatus == {"QUEUED", "WAITING_FOR_REVIEW"} \cup Running \cup TerminalStatuses

MaxStages == 2      \* the longest run has two stages

WorkflowRow ==
  [status : WorkflowStatus,
   target : Targets \cup {NoTarget},
   completed : 0 .. MaxStages,
   total : 1 .. MaxStages]

IsTerminal(w) == w.status \in TerminalStatuses

IsActive(w) == ~IsTerminal(w) /\ w.status # "QUEUED"

Create(n) ==
  [status |-> "QUEUED", target |-> NoTarget, completed |-> 0, total |-> n]

\* Mutated: begin_run queues the workflow again.
BeginRunQueued(w, n) == [w EXCEPT !.status = "QUEUED", !.total = n, !.completed = 0]

\* Mutated: begin_run counts one stage too many.
BeginRunOneMore(w, n) == [w EXCEPT !.total = n + 1, !.completed = 0]

BeginRun(w, n) == [w EXCEPT !.total = n, !.completed = 0]

EnterStage(w, stage) == [w EXCEPT !.status = stage]

\* Mutated: the cap is off by one.
CompleteStageShort(w) == [w EXCEPT !.completed = IF @ < w.total - 1 THEN @ + 1 ELSE @]

\* A caller may do it only when IsActive(w).
CompleteStage(w) ==
  [w EXCEPT !.completed = IF w.total = 0 \/ @ < w.total THEN @ + 1 ELSE @]

\* A caller may do it only when ~IsTerminal(w).
WaitForReview(w) == [w EXCEPT !.status = "WAITING_FOR_REVIEW"]

\* A caller may do it only when IsActive(w).
MarkRetrying(w) == [w EXCEPT !.status = "RETRYING"]

ResumeStage(w, stage) ==
  IF w.status = "RETRYING" THEN EnterStage(w, stage) ELSE w

FailRun(w) == [w EXCEPT !.status = "FAILED"]

SetMoodleCourse(w, target) == [w EXCEPT !.target = target]

=============================================================================
