---------------------------- MODULE RpsPipeline ----------------------------
(***************************************************************************)
(* From an uploaded RPS to its analysis: the requests POST                 *)
(* /rps/{id}/process and POST /rps/{id}/reanalyze for one document, and    *)
(* the background runs they schedule (routes/rps.py, services/rps/         *)
(* service.py, services/workflow/orchestrator.py).  Documents do not       *)
(* influence one another.                                                  *)
(*                                                                         *)
(* A request marks the document (begin_processing, begin_analysis), makes  *)
(* sure there is a workflow, and schedules a run.  The run finds its       *)
(* workflow through the document, goes through its stages and saves the    *)
(* workflow's row at each of them.  Every read is an action and every save *)
(* is an action: what lies between them, a conversion or an analysis most  *)
(* of all, leaves room for the other requests.  A save writes all columns  *)
(* of the copy that was read (repository.update), of the document and of   *)
(* the workflow alike.                                                     *)
(*                                                                         *)
(* As in CoursePlanning, events are left out.                              *)
(***************************************************************************)
EXTENDS WorkflowRecord, RpsDocument

CONSTANTS
  Reanalyses,         \* the requests that are POST /reanalyze
  MaxFixAttempts,     \* RPS_ANALYSIS_MAX_FIX_ATTEMPTS
  MaxExpiries,        \* bound on the leases that run out
  MaxCrashes          \* bound on the crashes of the backend's process

ASSUME PipelineAssumption ==
  /\ Reanalyses \subseteq Requests
  /\ MaxFixAttempts \in Nat
  /\ MaxExpiries \in Nat
  /\ MaxCrashes \in Nat

Processes == Requests \ Reanalyses

VARIABLES
  document,     \* the row of the table rps
  fresh,        \* updated_at is younger than RPS_PROCESSING_LEASE_SECONDS
  workflows,    \* the rows of the table workflows ...
  created,      \* ... that exist
  request,      \* the requests and their runs
  expiries,     \* leases that ran out so far
  crashes       \* crashes so far

vars == <<document, fresh, workflows, created, request, expiries, crashes>>

\* The request itself, its run before the stages, and its run in the stages.
Answering == {"starting", "begun", "created", "attaching",
              "targeted", "restarting", "ensuring", "creating"}

Connecting == {"scheduled", "linked"}

InStages == {"loaded", "toProcess", "processing", "claiming", "claimed", "toConvert",
             "converting", "processed", "toAnalyze", "analyzing", "claimingAnalysis",
             "analysisClaimed", "ready", "calling", "retrying", "analyzed", "finished",
             "failing"}

RequestState ==
  [pc : {"idle", "ended"} \cup Answering \cup Connecting \cup InStages,
   copy : Document,               \* the document as the request last read it
   workflow : Ids \cup {None},    \* the workflow it works for
   ctx : WorkflowRow,             \* WorkflowContext.workflow
   attempt : Nat \ {0}]

\* What a request knows before it begins and what is left of it when it ends.
Blank(pc) ==
  [pc |-> pc, copy |-> Uploaded, workflow |-> None, ctx |-> Create(2), attempt |-> 1]

-----------------------------------------------------------------------------
(* An earlier request may have left the document new, converted, analyzed, *)
(* or failed in the analysis, with the workflow to match.                  *)

AtRest(d, w) ==
  /\ w.target = NoTarget
  /\ w.total = 2
  /\ \/ /\ d.status = "UPLOADED"
        /\ d.source = None /\ d.structured = None /\ d.workflow = None
        /\ w.status = "QUEUED" /\ w.completed = 0
     \/ /\ d.status \in {"PROCESSED", "FAILED"}
        /\ d.source = Earlier /\ d.structured = None /\ d.workflow = Earlier
        /\ w.status = "FAILED" /\ w.completed = 1
     \/ /\ d.status = "ANALYZED"
        /\ d.source = Earlier /\ d.structured = Earlier /\ d.workflow = Earlier
        /\ w.status = "WAITING_FOR_REVIEW" /\ w.completed = 2

Init ==
  /\ document \in Document
  /\ \E row \in WorkflowRow :
       /\ AtRest(document, row)
       /\ workflows = [i \in Ids |-> IF i = Earlier THEN row ELSE Create(2)]
  /\ created = {Earlier} \cap {document.workflow}
  /\ fresh = TRUE
  /\ request = [q \in Requests |-> Blank("idle")]
  /\ expiries = 0
  /\ crashes = 0

-----------------------------------------------------------------------------
(* Steps.                                                                  *)

\* A copy of the document is used once: the next step drops it.
Go(q, from, to) ==
  /\ request[q].pc = from
  /\ request' = [request EXCEPT ![q] =
       IF to = "ended" THEN Blank("ended") ELSE [@ EXCEPT !.pc = to, !.copy = Uploaded]]

\* Read the document, keep changed(document) to save it later.
Hold(q, from, to, copy) ==
  /\ request[q].pc = from
  /\ request' = [request EXCEPT ![q].pc = to, ![q].copy = copy]

\* _persist.  A save that changes no column leaves updated_at as it is.
SaveDocument(row) ==
  /\ document' = row
  /\ fresh' = (row = document => fresh)

KeepDocument == UNCHANGED <<document, fresh>>

KeepWorkflows == UNCHANGED <<workflows, created>>

KeepBounds == UNCHANGED <<expiries, crashes>>

\* Save the workflow's row as the run holds it.
SaveRun(q, from, to, row) ==
  /\ request[q].pc = from
  /\ request' = [request EXCEPT ![q] =
       IF to = "ended" THEN Blank("ended") ELSE [@ EXCEPT !.pc = to, !.ctx = row]]
  /\ workflows' = [workflows EXCEPT ![request[q].workflow] = row]
  /\ UNCHANGED created
  /\ KeepDocument /\ KeepBounds

-----------------------------------------------------------------------------
(* begin_processing, for the request and, when the document is not marked  *)
(* any more, for the run.                                                  *)

Reuse(q, from, to, schema) ==
  /\ AlreadyProcessedAs(document, schema)
  /\ Go(q, from, to)
  /\ KeepDocument /\ KeepWorkflows /\ KeepBounds

Mark(q, from, to, schema) ==
  /\ ~AlreadyProcessedAs(document, schema)
  /\ MayStartProcessing(document, fresh)
  /\ Hold(q, from, to, StartProcessing(document, schema))
  /\ KeepDocument /\ KeepWorkflows /\ KeepBounds

\* Save the copy that was read before.
SaveCopy(q, from, to) ==
  /\ Go(q, from, to)
  /\ SaveDocument(request[q].copy)
  /\ KeepWorkflows /\ KeepBounds

-----------------------------------------------------------------------------
(* POST /rps/{id}/process.  A request that is refused changes nothing and  *)
(* may as well not have been sent.                                         *)

ReuseConversion(q) == \E schema \in Schemas : Reuse(q, "idle", "begun", schema)

ReadToProcess(q) == \E schema \in Schemas : Mark(q, "idle", "starting", schema)

MarkProcessing(q) == SaveCopy(q, "starting", "begun")

CreateWorkflow(q) ==
  /\ Go(q, "begun", "created")
  /\ workflows' = [workflows EXCEPT ![q] = Create(2)]
  /\ created' = created \cup {q}
  /\ KeepDocument /\ KeepBounds

\* attach_workflow reads the document again ...
ReadToAttach(q) ==
  /\ Hold(q, "created", "attaching", LinkWorkflow(document, q))
  /\ KeepDocument /\ KeepWorkflows /\ KeepBounds

\* ... and saves it.
AttachWorkflow(q) == SaveCopy(q, "attaching", "scheduled")

ProcessStep(q) ==
  \/ ReuseConversion(q) \/ ReadToProcess(q) \/ MarkProcessing(q)
  \/ CreateWorkflow(q) \/ ReadToAttach(q) \/ AttachWorkflow(q)

-----------------------------------------------------------------------------
(* POST /rps/{id}/reanalyze.                                               *)

\* A document without a workflow gets a new one, named by this request.
ReadTarget(q) ==
  /\ request[q].pc = "idle"
  /\ request' = [request EXCEPT
       ![q].pc = "targeted",
       ![q].workflow = IF document.workflow = None THEN q ELSE document.workflow]
  /\ KeepDocument /\ KeepWorkflows /\ KeepBounds

ReadToReanalyze(q) ==
  /\ MayStartAnalysis(document, fresh, TRUE)
  /\ Hold(q, "targeted", "restarting", StartAnalysis(document, request[q].workflow))
  /\ KeepDocument /\ KeepWorkflows /\ KeepBounds

ReanalysisRefused(q) ==
  /\ ~MayStartAnalysis(document, fresh, TRUE)
  /\ Go(q, "targeted", "ended")
  /\ KeepDocument /\ KeepWorkflows /\ KeepBounds

MarkReanalyzing(q) == SaveCopy(q, "restarting", "ensuring")

\* ensure_for_rps looks for the workflow ...
FindTarget(q) ==
  /\ Go(q, "ensuring", IF request[q].workflow \in created THEN "scheduled" ELSE "creating")
  /\ KeepDocument /\ KeepWorkflows /\ KeepBounds

\* ... and inserts it when it was not there.
CreateTarget(q) ==
  LET target == request[q].workflow IN
  /\ target \notin created
  /\ Go(q, "creating", "scheduled")
  /\ workflows' = [workflows EXCEPT ![target] = Create(1)]
  /\ created' = created \cup {target}
  /\ KeepDocument /\ KeepBounds

\* Another request inserted it in between: the primary key is taken.
CreateRefused(q) ==
  /\ request[q].workflow \in created
  /\ Go(q, "creating", "ended")
  /\ KeepDocument /\ KeepWorkflows /\ KeepBounds

ReanalyzeStep(q) ==
  \/ ReadTarget(q) \/ ReadToReanalyze(q) \/ ReanalysisRefused(q)
  \/ MarkReanalyzing(q) \/ FindTarget(q) \/ CreateTarget(q) \/ CreateRefused(q)

-----------------------------------------------------------------------------
(* The background run: _run_in_background and execute_workflow.            *)

FindWorkflow(q) ==
  /\ request[q].pc = "scheduled"
  /\ document.workflow # None
  /\ request' = [request EXCEPT ![q].pc = "linked", ![q].workflow = document.workflow]
  /\ KeepDocument /\ KeepWorkflows /\ KeepBounds

LoadWorkflow(q) ==
  LET w == request[q].workflow IN
  /\ request[q].pc = "linked"
  /\ w \in created
  /\ request' = [request EXCEPT ![q].pc = "loaded", ![q].ctx = workflows[w]]
  /\ KeepDocument /\ KeepWorkflows /\ KeepBounds

\* The document names no workflow, or one that is not there (yet).
NoWorkflow(q) ==
  /\ \/ document.workflow = None /\ Go(q, "scheduled", "ended")
     \/ request[q].workflow \notin created /\ Go(q, "linked", "ended")
  /\ KeepDocument /\ KeepWorkflows /\ KeepBounds

StagesOf(q) == IF q \in Processes THEN 2 ELSE 1

BeginRpsRun(q) ==
  SaveRun(q, "loaded", IF q \in Processes THEN "toProcess" ELSE "toAnalyze",
          BeginRun(request[q].ctx, StagesOf(q)))

\* Mutated: the error is logged and nothing else.
FailStageSilent(q) ==
  /\ Go(q, "failing", "ended")
  /\ KeepDocument /\ KeepWorkflows /\ KeepBounds

\* Any error of a stage's handler ends in fail_run.
FailStage(q) == SaveRun(q, "failing", "ended", FailRun(request[q].ctx))

-----------------------------------------------------------------------------
(* The stage rps_processing: _run_processing.                              *)

EnterProcessing(q) ==
  SaveRun(q, "toProcess", "processing", EnterStage(request[q].ctx, "PROCESSING_RPS"))

CheckProcessing(q) ==
  /\ Go(q, "processing",
        IF document.status = "PROCESSING" THEN "toConvert" ELSE "claiming")
  /\ KeepDocument /\ KeepWorkflows /\ KeepBounds

ReuseInRun(q) == Reuse(q, "claiming", "processed", document.schema)

MarkInRun(q) == Mark(q, "claiming", "claimed", document.schema)

MarkRefused(q) ==
  /\ ~AlreadyProcessedAs(document, document.schema)
  /\ ~MayStartProcessing(document, fresh)
  /\ Go(q, "claiming", "failing")
  /\ KeepDocument /\ KeepWorkflows /\ KeepBounds

MarkProcessingInRun(q) == SaveCopy(q, "claimed", "toConvert")

StartConversion(q) ==
  /\ document.status = "PROCESSING"
  /\ Hold(q, "toConvert", "converting", document)
  /\ KeepDocument /\ KeepWorkflows /\ KeepBounds

ConversionRefused(q) ==
  /\ document.status # "PROCESSING"
  /\ Go(q, "toConvert", "failing")
  /\ KeepDocument /\ KeepWorkflows /\ KeepBounds

\* The conversion took its time; the copy is as old as its beginning.
Convert(q) ==
  /\ Go(q, "converting", "processed")
  /\ SaveDocument(CompleteProcessing(request[q].copy, q))
  /\ KeepWorkflows /\ KeepBounds

\* Mutated: the error leaves convert without _mark_failed.
ConversionFailsSilent(q) ==
  /\ Go(q, "converting", "failing")
  /\ KeepDocument /\ KeepWorkflows /\ KeepBounds

ConversionFails(q) ==
  /\ Go(q, "converting", "failing")
  /\ SaveDocument(FailProcessing(request[q].copy))
  /\ KeepWorkflows /\ KeepBounds

FinishProcessing(q) ==
  /\ IsActive(request[q].ctx)
  /\ SaveRun(q, "processed", "toAnalyze", CompleteStage(request[q].ctx))

ProcessingStage(q) ==
  \/ EnterProcessing(q) \/ CheckProcessing(q) \/ ReuseInRun(q) \/ MarkInRun(q)
  \/ MarkRefused(q) \/ MarkProcessingInRun(q) \/ StartConversion(q)
  \/ ConversionRefused(q) \/ Convert(q) \/ ConversionFails(q) \/ FinishProcessing(q)

-----------------------------------------------------------------------------
(* The stage rps_analysis: _run_analysis.                                  *)

EnterAnalyzing(q) ==
  SaveRun(q, "toAnalyze", "analyzing", EnterStage(request[q].ctx, "ANALYZING_RPS"))

CheckAnalyzing(q) ==
  /\ Go(q, "analyzing",
        IF document.status = "ANALYZING" THEN "ready" ELSE "claimingAnalysis")
  /\ KeepDocument /\ KeepWorkflows /\ KeepBounds

\* begin_analysis without force: a finished analysis is not repeated.
ReuseAnalysis(q) ==
  /\ IsAnalyzed(document)
  /\ Go(q, "claimingAnalysis", IF document.workflow = None THEN "failing" ELSE "analyzed")
  /\ KeepDocument /\ KeepWorkflows /\ KeepBounds

ReadToAnalyze(q) ==
  /\ MayStartAnalysis(document, fresh, FALSE)
  /\ Hold(q, "claimingAnalysis", "analysisClaimed",
          StartAnalysis(document, request[q].workflow))
  /\ KeepDocument /\ KeepWorkflows /\ KeepBounds

AnalysisRefused(q) ==
  /\ \/ /\ ~IsAnalyzed(document)
        /\ ~MayStartAnalysis(document, fresh, FALSE)
        /\ Go(q, "claimingAnalysis", "failing")
     \/ /\ document.status # "ANALYZING"
        /\ Go(q, "ready", "failing")
  /\ KeepDocument /\ KeepWorkflows /\ KeepBounds

MarkAnalyzing(q) == SaveCopy(q, "analysisClaimed", "ready")

StartAnalyzing(q) ==
  /\ document.status = "ANALYZING"
  /\ Hold(q, "ready", "calling", document)
  /\ KeepDocument /\ KeepWorkflows /\ KeepBounds

\* RETRY_FIX, and LLM_CALLING of the attempt that follows.
RetryFix(q) ==
  /\ request[q].attempt < MaxFixAttempts + 1
  /\ IsActive(request[q].ctx)
  /\ SaveRun(q, "calling", "retrying", MarkRetrying(request[q].ctx))

NextAttempt(q) ==
  LET row == ResumeStage(request[q].ctx, "ANALYZING_RPS") IN
  /\ request[q].pc = "retrying"
  /\ request' = [request EXCEPT ![q].pc = "calling", ![q].ctx = row, ![q].attempt = @ + 1]
  /\ workflows' = [workflows EXCEPT ![request[q].workflow] = row]
  /\ UNCHANGED created
  /\ KeepDocument /\ KeepBounds

Analyze(q) ==
  /\ request[q].copy.source # None
  /\ Go(q, "calling", "analyzed")
  /\ SaveDocument(CompleteAnalysis(request[q].copy))
  /\ KeepWorkflows /\ KeepBounds

AnalysisFails(q) ==
  /\ Go(q, "calling", "failing")
  /\ SaveDocument(FailAnalysis(request[q].copy))
  /\ KeepWorkflows /\ KeepBounds

FinishAnalyzing(q) ==
  /\ IsActive(request[q].ctx)
  /\ SaveRun(q, "analyzed", "finished", CompleteStage(request[q].ctx))

AwaitReview(q) ==
  /\ ~IsTerminal(request[q].ctx)
  /\ SaveRun(q, "finished", "ended", WaitForReview(request[q].ctx))

AnalysisStage(q) ==
  \/ EnterAnalyzing(q) \/ CheckAnalyzing(q) \/ ReuseAnalysis(q) \/ ReadToAnalyze(q)
  \/ AnalysisRefused(q) \/ MarkAnalyzing(q) \/ StartAnalyzing(q) \/ RetryFix(q)
  \/ NextAttempt(q) \/ Analyze(q) \/ AnalysisFails(q) \/ FinishAnalyzing(q)
  \/ AwaitReview(q)

RunStep(q) ==
  \/ FindWorkflow(q) \/ LoadWorkflow(q) \/ NoWorkflow(q) \/ BeginRpsRun(q)
  \/ FailStage(q) \/ ProcessingStage(q) \/ AnalysisStage(q)

-----------------------------------------------------------------------------

\* Time passes while the document is marked as being worked on.
LeaseExpires ==
  /\ expiries < MaxExpiries
  /\ document.status \in {"PROCESSING", "ANALYZING"}
  /\ fresh
  /\ fresh' = FALSE
  /\ expiries' = expiries + 1
  /\ UNCHANGED <<document, request, crashes>>
  /\ KeepWorkflows

\* The process dies: requests and runs are lost, the tables stay.
Crash ==
  /\ crashes < MaxCrashes
  /\ crashes' = crashes + 1
  /\ request' = [q \in Requests |->
                   IF request[q].pc = "idle" THEN request[q]
                   ELSE Blank("ended")]
  /\ UNCHANGED expiries
  /\ KeepDocument /\ KeepWorkflows

RequestStep(q) == IF q \in Processes THEN ProcessStep(q) ELSE ReanalyzeStep(q)

Next ==
  \/ \E q \in Requests : RequestStep(q) \/ RunStep(q)
  \/ LeaseExpires
  \/ Crash

Spec == Init /\ [][Next]_vars

\* A request need not be sent, but the server answers it once it is there, and
\* carries the run it schedules to its end.
Serve(q) == request[q].pc # "idle" /\ (RequestStep(q) \/ RunStep(q))

FairSpec == Spec /\ \A q \in Requests : WF_vars(Serve(q))

-----------------------------------------------------------------------------
(* Properties.                                                             *)

\* Every row and every request has the shape the code gives it.
TypeOK ==
  /\ document \in Document
  /\ fresh \in BOOLEAN
  /\ workflows \in [Ids -> WorkflowRow]
  /\ created \subseteq Ids
  /\ request \in [Requests -> RequestState]
  /\ expiries \in Nat
  /\ crashes \in Nat

\* A document that says it is converted or analyzed has the results: the
\* conversion that the status promises, and an analysis made from the very
\* conversion that is stored with it, whichever old copies were saved.
Backed(d) ==
  /\ d.status \in {"PROCESSED", "ANALYZING", "ANALYZED"} => d.source # None
  /\ d.status = "ANALYZED" => d.structured = d.source

ResultsMatchStatus == Backed(document)

\* A workflow nobody works on has come to rest: it shows no stage at work, and
\* if it waits for its instructor all the stages of its last run are completed,
\* also when runs of one and of two stages overlapped on it.  While a run is
\* between begin_run and its first stage this need not be so: the progress is
\* reset before the status changes.
Works(q, w) == request[q].pc \in InStages /\ request[q].workflow = w

RestingMeansDone ==
  \A w \in created :
    crashes = 0 /\ (\A q \in Requests : ~Works(q, w)) =>
      /\ workflows[w].status \notin Running
      /\ workflows[w].status = "WAITING_FOR_REVIEW" =>
           workflows[w].completed = workflows[w].total

\* As long as the backend is up, a document that is marked as being worked on
\* belongs to a request that will settle it.
MarkedMeansServed ==
  document.status \in {"PROCESSING", "ANALYZING"} /\ crashes = 0 =>
    \E q \in Requests : request[q].pc \notin {"idle", "ended"}

\* A document that is marked as being worked on is settled in the end, without
\* a lease having to run out: no request leaves the mark behind, unless the
\* backend dies.
DocumentSettles ==
  document.status \in {"PROCESSING", "ANALYZING"}
    ~> document.status \in {"PROCESSED", "ANALYZED", "FAILED"} \/ expiries + crashes > 0

=============================================================================
