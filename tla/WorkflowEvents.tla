--------------------------- MODULE WorkflowEvents ---------------------------
(***************************************************************************)
(* What the runs of one workflow tell the world: the row they save, the    *)
(* history of events they record and the events the broker hands to a      *)
(* client that listens (services/workflow/service.py, broker.py and the    *)
(* milestones of orchestrator.py that CoursePlanning and RpsPipeline       *)
(* leave out).                                                             *)
(*                                                                         *)
(* A run saves the row and records the event that tells of it in two       *)
(* commits, and other actors may be scheduled between the two.  The time   *)
(* stamps are the database's now(): the beginning of the transaction, and  *)
(* a session begins its next transaction as soon as it has refreshed what  *)
(* it committed.                                                           *)
(*                                                                         *)
(* One run at a time works on the workflow, but the next one may be        *)
(* claimed while the last event of the previous one is still to be         *)
(* written.  The runs that overlap further are those of CoursePlanning.    *)
(***************************************************************************)
EXTENDS WorkflowRecord, Sequences, FiniteSets

CONSTANTS
  Kinds,        \* the runs that may be started: sequences of stages
  MaxAttempts,  \* calls of the model in one stage
  QueueSize,    \* events the broker keeps for a slow client
  None,
  MaxRuns, MaxFaults   \* bounds on the runs, and on the faults of all kinds

Events == {"WORKFLOW_STARTED", "WORKFLOW_STAGE_STARTED", "WORKFLOW_STAGE_PROGRESS",
  "WORKFLOW_STAGE_COMPLETED", "WORKFLOW_RETRY", "WORKFLOW_FAILED",
  "WORKFLOW_WAITING_FOR_REVIEW", "COURSE_PLAN_GENERATED"}

Payload == [event : Events, stage : Stages \cup {None, "WAITING_FOR_REVIEW"},
            completed : 0 .. MaxStages, total : 1 .. MaxStages]

ASSUME EventsAssumption ==
  /\ Kinds \subseteq Seq(Stages)
  /\ \A stages \in Kinds : Len(stages) \in 1 .. MaxStages
  /\ None \notin Payload

VARIABLES
  row,       \* the row of the workflow
  saved,     \* its updated_at
  history,   \* the rows of workflow_events, in the order of their commits
  clock,     \* commits so far
  run,       \* the run at work
  out,       \* its session: the event it owes, and when its transaction began
  tail,      \* the session of the previous run, while it still owes an event
  faults,    \* faults of the page's connections (WorkflowMonitor)
  queue,     \* the broker's queue of the listening client, or None
  missed,    \* events that did not fit into the queue
  runs, toStart, lost, crashes, late   \* runs started and to be started, events lost,
             \* crashes, claims by an older transaction

producerVars == <<row, saved, history, clock, run, out, tail, runs, toStart, lost, crashes, late>>

serverVars == <<producerVars, queue, missed>>

eventVars == <<serverVars, faults>>

counters == <<runs, toStart, lost, crashes, late, faults>>

otherVars == <<row, saved, history, clock, out, tail, queue, missed, counters>>   \* all but run

\* The public status of design-api 16 and the stage it shows.
ApiStatus(status) ==
  IF status \in {"QUEUED", "FAILED"} THEN status ELSE "RUNNING"

StageName(status) == IF status \in {"QUEUED", "FAILED"} THEN None ELSE status

Event(name, stage, w) ==
  [event |-> name, stage |-> stage, completed |-> w.completed, total |-> w.total]

NoRun == [at |-> "idle", stages |-> <<>>, stage |-> 0, attempt |-> 0, emitted |-> FALSE]

Quiet(t) == [owed |-> None, began |-> t]

Silent(session) == session.owed = None

Stage == run.stages[run.stage]

\* The workflow a page finds: new, or one whose analysis has just failed
\* before its first call of the model and whose run still owes that event.
New == row = Create(1) /\ saved = 0 /\ history = <<>> /\ clock = 0 /\ run = NoRun
       /\ out = Quiet(0) /\ runs = 0

JustFailed ==
  LET w == EnterStage(Create(1), "ANALYZING_RPS") IN
  /\ row = FailRun(w) /\ saved = 4 /\ clock = 5
  /\ history = << [event |-> Event("WORKFLOW_STARTED", None, w), at |-> 1],
                  [event |-> Event("WORKFLOW_STAGE_STARTED", "ANALYZING_RPS", w), at |-> 3] >>
  /\ run = [NoRun EXCEPT !.at = "over", !.stages = <<"ANALYZING_RPS">>, !.stage = 1]
  /\ out = [Quiet(5) EXCEPT !.owed = Event("WORKFLOW_FAILED", "ANALYZING_RPS", w)]
  /\ runs = 1

EventsInit ==
  /\ New \/ JustFailed
  /\ tail = Quiet(0) /\ missed = 0
  /\ toStart = MaxRuns /\ lost = 0 /\ crashes = 0 /\ late = 0 /\ faults = 0

-----------------------------------------------------------------------------
(* The outbox of a session.                                                *)

\* One more fault of any kind is within the bound.
MayFail == missed + lost + crashes + late + faults < MaxFaults

\* A column changes: the first begin_run also sets started_at.
Touches(w) == w # row \/ (run.at = "claimed" /\ runs = 1)

\* repository.update commits the row, whose time stamp moves only when a column
\* of it changes; the event that tells of it is owed.
SaveOwing(w, event) ==
  /\ Silent(out)
  /\ row' = w /\ saved' = (IF Touches(w) THEN out.began ELSE saved) /\ clock' = clock + 1
  /\ out' = [Quiet(clock + 1) EXCEPT !.owed = event]
  /\ UNCHANGED <<history, tail, queue, missed, counters>>

\* record_event without a change of the row.
Owing(event) ==
  /\ Silent(out)
  /\ out' = [out EXCEPT !.owed = event]
  /\ UNCHANGED <<row, saved, history, clock, tail, queue, missed, counters>>

\* publish: put_nowait, and a full queue loses the event.
Broadcast(k) ==
  IF queue = None THEN UNCHANGED <<queue, missed>>
  ELSE IF Len(queue) < QueueSize
       THEN queue' = Append(queue, k) /\ UNCHANGED missed
       ELSE MayFail /\ missed' = missed + 1 /\ UNCHANGED queue

\* create_event, and the broadcast that follows its commit: a frame that leaves
\* later than that is a frame that waits in the queue.
Recorded(session) ==
  /\ ~Silent(session)
  /\ history' = Append(history, [event |-> session.owed, at |-> session.began])
  /\ clock' = clock + 1
  /\ Broadcast(Len(history) + 1)

Record ==
  /\ Recorded(out)
  /\ out' = Quiet(clock + 1)
  /\ UNCHANGED <<row, saved, run, tail, counters>>

TailRecord ==
  /\ Recorded(tail)
  /\ tail' = Quiet(0)
  /\ UNCHANGED <<row, saved, run, out, counters>>

-----------------------------------------------------------------------------
(* The milestones of a run.                                                *)

\* What a new run finds: the last run is over, or owes no more than its last
\* event, which its own session goes on to write.
NextRun(stages, at) ==
  /\ run.at \in {"idle", "over"} /\ Silent(tail) /\ toStart > 0
  /\ runs' = runs + 1 /\ toStart' = toStart - 1
  /\ run' = [NoRun EXCEPT !.at = at, !.stages = stages]
  /\ tail' = IF Silent(out) THEN Quiet(0) ELSE out

\* claim_planning, which records nothing.  The request's transaction began
\* before the claim, perhaps before the last commit of the previous run.
Claim(stages) ==
  /\ stages[1] = "PLANNING_COURSE"
  /\ row.status \in {"WAITING_FOR_REVIEW", "FAILED"}
  /\ NextRun(stages, "claimed")
  /\ row' = EnterStage(row, "PLANNING_COURSE")
  /\ \/ saved' = clock /\ UNCHANGED late
     \/ MayFail /\ clock > 0 /\ saved' = clock - 1 /\ late' = late + 1
  /\ clock' = clock + 1
  /\ out' = Quiet(clock + 1)
  /\ UNCHANGED <<history, queue, missed, lost, crashes, faults>>

\* The background task of an analysis finds its workflow.
StartAnalysis(stages) ==
  /\ stages[1] # "PLANNING_COURSE"
  /\ row.status \in {"QUEUED", "WAITING_FOR_REVIEW", "FAILED"}
  /\ NextRun(stages, "claimed")
  /\ out' = Quiet(clock)
  /\ UNCHANGED <<row, saved, history, clock, queue, missed, lost, crashes, late, faults>>

\* begin_run
Begin ==
  /\ run.at = "claimed"
  /\ LET w == BeginRun(row, Len(run.stages)) IN
       SaveOwing(w, Event("WORKFLOW_STARTED", None, w))
  /\ run' = [run EXCEPT !.at = "between"]

\* begin_stage
BeginStage ==
  /\ run.at = "between" /\ run.stage < Len(run.stages)
  /\ LET next == run.stages[run.stage + 1]
         w == EnterStage(row, next) IN
       SaveOwing(w, Event("WORKFLOW_STAGE_STARTED", next, w))
  /\ run' = [run EXCEPT !.at = "working", !.stage = @ + 1, !.attempt = 0, !.emitted = FALSE]

\* LLM_CALLING: a later attempt leaves RETRYING first.
Call ==
  /\ run.at = "working" /\ Stage # "VALIDATING" /\ run.attempt < MaxAttempts
  /\ LET w == ResumeStage(row, Stage)
         e == Event("WORKFLOW_STAGE_PROGRESS", Stage, w) IN
       IF run.attempt > 0 THEN SaveOwing(w, e) ELSE Owing(e)
  /\ run' = [run EXCEPT !.at = "calling", !.attempt = @ + 1]

\* An output to be repaired, and an attempt left.
Retry ==
  /\ run.at = "calling" /\ run.attempt < MaxAttempts
  /\ LET w == MarkRetrying(row) IN SaveOwing(w, Event("WORKFLOW_RETRY", Stage, w))
  /\ run' = [run EXCEPT !.at = "working"]

\* A usable output, or a version stored by the stage VALIDATING.
Produce ==
  \/ /\ run.at = "calling" /\ Silent(out)
     /\ run' = [run EXCEPT !.at = "worked"]
     /\ UNCHANGED otherVars
  \/ /\ run.at = "working" /\ Stage = "VALIDATING"
     /\ Owing(Event("COURSE_PLAN_GENERATED", Stage, row))
     /\ run' = [run EXCEPT !.at = "worked"]

\* The service reports its failure and raises.
ReportFailure ==
  /\ run.at = "calling"
  /\ Owing(Event("WORKFLOW_FAILED", Stage, row))
  /\ run' = [run EXCEPT !.at = "failing", !.emitted = TRUE]

\* The stage fails and no service has reported it.
Break ==
  /\ run.at \in {"working", "calling"} /\ Silent(out)
  /\ run' = [run EXCEPT !.at = "failing"]
  /\ UNCHANGED otherVars

\* Mutated: fail_run reports the failure whether or not the service did.
FailAgain ==
  /\ run.at = "failing"
  /\ SaveOwing(FailRun(row), Event("WORKFLOW_FAILED", Stage, row))
  /\ run' = [run EXCEPT !.at = "over"]

\* fail_run with emit_event = not failure_emitted
Fail ==
  /\ run.at = "failing"
  /\ SaveOwing(FailRun(row), IF run.emitted THEN None ELSE Event("WORKFLOW_FAILED", Stage, row))
  /\ run' = [run EXCEPT !.at = "over"]

\* The provider of the planner cannot be configured: the claimed run fails
\* before its first stage.
FailUnprepared ==
  /\ run.at = "claimed" /\ run.stages[1] = "PLANNING_COURSE"
  /\ SaveOwing(FailRun(row), Event("WORKFLOW_FAILED", "PLANNING_COURSE", row))
  /\ run' = [run EXCEPT !.at = "over"]

\* complete_stage
EndStage ==
  /\ run.at = "worked"
  /\ LET w == CompleteStage(row) IN
       SaveOwing(w, Event("WORKFLOW_STAGE_COMPLETED", Stage, w))
  /\ run' = [run EXCEPT !.at = "between"]

\* wait_for_review
Wait ==
  /\ run.at = "between" /\ run.stage = Len(run.stages)
  /\ LET w == WaitForReview(row) IN
       SaveOwing(w, Event("WORKFLOW_WAITING_FOR_REVIEW", "WAITING_FOR_REVIEW", w))
  /\ run' = [run EXCEPT !.at = "over"]

-----------------------------------------------------------------------------
(* What goes wrong.                                                        *)

\* The emitters swallow an error; those of a stage's handler fail the stage.
AfterLoss ==
  IF run.at = "worked" /\ Stage = "VALIDATING" THEN [run EXCEPT !.at = "failing"] ELSE run

\* An event cannot be recorded.  The emitters go on without it, failure_emitted
\* included; the calls outside the handlers of a stage end the run, as does a
\* session that the error leaves unusable.
RecordFails ==
  /\ out.owed # None /\ MayFail
  /\ lost' = lost + 1
  /\ \/ /\ \/ out.owed.event \in {"WORKFLOW_STAGE_PROGRESS", "WORKFLOW_RETRY",
                                   "COURSE_PLAN_GENERATED"}
           \/ out.owed.event = "WORKFLOW_FAILED" /\ run.at = "failing"
        /\ run' = AfterLoss /\ out' = [out EXCEPT !.owed = None]
     \/ run' = NoRun /\ out' = Quiet(0)
  /\ UNCHANGED <<row, saved, history, clock, tail, queue, missed, runs, toStart, crashes, late, faults>>

\* The process ends: the runs, the queues and the connections are gone.
ServerCrash ==
  /\ MayFail
  /\ crashes' = crashes + 1
  /\ run' = NoRun /\ out' = Quiet(0) /\ tail' = Quiet(0) /\ queue' = None
  /\ UNCHANGED <<row, saved, history, clock, missed, runs, toStart, lost, late, faults>>

RunStep ==
  \/ Begin \/ BeginStage \/ Call \/ Retry \/ Produce \/ ReportFailure \/ Break
  \/ Fail \/ FailUnprepared \/ EndStage \/ Wait
  \/ Record \/ TailRecord

ServerStep ==
  \/ \E stages \in Kinds : Claim(stages) \/ StartAnalysis(stages)
  \/ RunStep
  \/ RecordFails

-----------------------------------------------------------------------------
(* Properties of the history.                                              *)

\* The event GET /workflows/{id}/events lists last: they are sorted by time.
Latest == CHOOSE k \in DOMAIN history : \A j \in DOMAIN history : history[j].at <= history[k].at

\* The event that tells of a status.
Explains(event, status) ==
  \/ status = "WAITING_FOR_REVIEW" /\ event = "WORKFLOW_WAITING_FOR_REVIEW"
  \/ status = "FAILED" /\ event = "WORKFLOW_FAILED"

\* The reports of failures.
Reports == {k \in DOMAIN history : history[k].event.event = "WORKFLOW_FAILED"}

\* The history tells what happened.  When no run works on the workflow and nothing
\* went wrong outside the stages, it ends with the event that explains the
\* status: a workflow that waits or has failed says so, even though the status
\* and the event are committed separately and the next run may start between
\* the two.  And always, a failed run is reported once: by the service that
\* failed or by the orchestrator, never by both (failure_emitted).
HistoryTells ==
  /\ run.at \in {"idle", "over"} /\ Silent(out) /\ Silent(tail) /\ runs > 0
       /\ lost = 0 /\ crashes = 0
     => Explains(history[Latest].event.event, row.status)
  /\ Cardinality(Reports) <= runs

=============================================================================
